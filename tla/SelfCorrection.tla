------------------------------ MODULE SelfCorrection ------------------------------
(***************************************************************************)
(* The self-correction of a mission (self_correction), run by the          *)
(* evaluation-comparison executor: the manifests of the mission's runs are *)
(* classified, each run gets a decision, and all of them one for the       *)
(* mission, which goes to a report, the mission state and the ledger.      *)
(* Runs write their manifests, and others edit the mission state, in the   *)
(* meantime.                                                               *)
(***************************************************************************)
EXTENDS Integers, FiniteSets

CONSTANTS
    ExperimentRuns,      \* runs below the run roots
    KindOf,              \* run -> its study kind
    OwnRuns,             \* the runs that name this mission and its mode
    RunResults,          \* run -> what its manifest may say
    NotWritten,          \* a manifest that is not there
    Unfinished,          \* one that does not parse
    NoAccuracy,          \* a metric that is missing; below every accuracy
    CollapseMax, WeakMax, SignalMin,   \* thresholds of the contract
    StateEdits,          \* edits others make in the mission state, each once
    MaxCorrections, MaxRunWrites

VARIABLES
    runManifests,        \* run -> its manifest
    corrector,           \* what the process knows
    correctionReport,    \* the report file
    missionCorrection,   \* self_correction in the mission state, and the edits in it
    correctionLedger,    \* decisions in the ledger: of which correction
    corrections,         \* corrections begun: each has a number
    runWrites,
    correctorDied,
    editedDuring,        \* edit -> the correction whose copy it came too late for; 0: none, -1: not made
    stateWritten         \* the corrections that wrote the mission state

correctionVars == <<runManifests, corrector, correctionReport, missionCorrection,
                    correctionLedger, corrections, runWrites, correctorDied, editedDuring, stateWritten>>

ASSUME CorrectionAssumption ==
    /\ OwnRuns \subseteq ExperimentRuns /\ IsFiniteSet(ExperimentRuns)
    /\ CollapseMax \in Int /\ WeakMax \in Int /\ CollapseMax < WeakMax /\ NoAccuracy < 0 /\ CollapseMax >= 0
    /\ SignalMin \in Int /\ NotWritten # Unfinished
    /\ \A r \in ExperimentRuns : RunResults[r] \cap {NotWritten, Unfinished} = {}
    /\ \A r \in ExperimentRuns : \A m \in RunResults[r] :
          /\ m.status \in {"completed", "failed", "blocked", "prepared"} /\ m.accuracy \in Int /\ m.count \in Int
          /\ {m.unstable, m.familyCollapsed, m.prepOnly, m.lacksPrerequisite} \subseteq BOOLEAN
    /\ MaxCorrections \in Nat /\ MaxRunWrites \in Nat

NotMade == -1
NoCorrection == [by |-> 0, action |-> "none", anchor |-> "none", assessed |-> <<>>]
IdleCorrector == [pc |-> "idle", copy |-> {}, found |-> {}, read |-> <<>>]

CorrectionInit ==
    /\ runManifests = [r \in ExperimentRuns |-> NotWritten]
    /\ corrector = IdleCorrector
    /\ correctionReport = NoCorrection
    /\ missionCorrection = [by |-> 0, action |-> "none", edits |-> {}]
    /\ correctionLedger = {} /\ corrections = 0 /\ runWrites = 0 /\ correctorDied = FALSE
    /\ editedDuring = [e \in StateEdits |-> NotMade] /\ stateWritten = {}

Verdicts == {"none", "continue", "reroute", "stop"}

CorrectionTypeOK ==
    /\ \A r \in ExperimentRuns : runManifests[r] \in RunResults[r] \cup {NotWritten, Unfinished}
    /\ corrector.pc \in {"idle", "list", "read", "report", "state", "ledger"}
    /\ corrector.found \subseteq ExperimentRuns /\ DOMAIN corrector.read \subseteq corrector.found
    /\ correctionReport.action \in Verdicts /\ correctionReport.by \in 0..corrections
    /\ missionCorrection.action \in Verdicts /\ missionCorrection.edits \subseteq StateEdits
    /\ correctionLedger \subseteq 1..corrections /\ runWrites \in 0..MaxRunWrites
    /\ editedDuring \in [StateEdits -> NotMade..corrections] /\ stateWritten \subseteq 1..corrections

(***************************************************************************)
(* _classify_manifest.                                                     *)
(***************************************************************************)
Measured(m) == m.accuracy # NoAccuracy /\ m.count >= SignalMin
Collapsed(m) == Measured(m) /\ m.accuracy <= CollapseMax

Classes(m) ==
    {c \in {"execution-failed", "blocked-prerequisite", "execution-blocked", "prep-only-artifact",
            "accuracy-collapse", "weak-accuracy-signal", "lexicalization-instability", "rule-family-collapse"} :
        CASE c = "execution-failed"           -> m.status = "failed"
          [] c = "blocked-prerequisite"       -> m.status \in {"blocked", "prepared"} /\ m.lacksPrerequisite
          [] c = "execution-blocked"          -> m.status = "blocked" /\ ~m.lacksPrerequisite
          [] c = "prep-only-artifact"         -> m.prepOnly
          [] c = "accuracy-collapse"          -> Collapsed(m)
          [] c = "weak-accuracy-signal"       -> Measured(m) /\ ~Collapsed(m) /\ m.accuracy < WeakMax
          [] c = "lexicalization-instability" -> m.unstable
          [] c = "rule-family-collapse"       -> m.familyCollapsed}

\* Mutant: a run that failed is judged by its metrics alone.
BranchByMetrics(m) ==
    LET c == Classes(m)
    IN  IF "blocked-prerequisite" \in c THEN "reroute"
        ELSE IF "accuracy-collapse" \in c THEN "stop"
        ELSE IF {"weak-accuracy-signal", "prep-only-artifact"} \cap c # {} THEN "continue"
        ELSE IF {"rule-family-collapse", "lexicalization-instability"} \cap c # {} THEN "reroute"
        ELSE "continue"

(* The decision about one run: a weak or prepared one continues even if    *)
(* slices of it collapsed.                                                 *)
BranchAction(m) ==
    LET c == Classes(m)
    IN  IF "blocked-prerequisite" \in c THEN "reroute"
        ELSE IF {"execution-failed", "accuracy-collapse"} \cap c # {} THEN "stop"
        ELSE IF {"weak-accuracy-signal", "prep-only-artifact"} \cap c # {} THEN "continue"
        ELSE IF {"rule-family-collapse", "lexicalization-instability"} \cap c # {} THEN "reroute"
        ELSE "continue"

(* _select_anchor: the baseline of the best accuracy, then the smaller     *)
(* gap; how it ended is not asked.                                         *)
Contenders(read) ==
    {r \in DOMAIN read : KindOf[r] = "baseline-eval" /\ read[r].accuracy > CollapseMax}
Outranks(m, n) == m.accuracy > n.accuracy \/ (m.accuracy = n.accuracy /\ ~m.unstable /\ n.unstable)
Anchors(read) ==
    {r \in Contenders(read) : \A q \in Contenders(read) : ~Outranks(read[q], read[r])}

(* _synthesize_final_decision *)
MissionAction(read) ==
    LET actions == {BranchAction(read[r]) : r \in DOMAIN read}
    IN  IF actions = {"stop"} THEN "stop"
        ELSE IF actions = {"continue"} THEN "continue" ELSE "reroute"

(* _recommendations_for_assessment, and the one for the anchor: action and *)
(* run, whatever the route.                                                *)
Recommends(m, kind, action) ==
    CASE action = "stop"     -> Collapsed(m)
      [] action = "continue" -> "weak-accuracy-signal" \in Classes(m)
                                \/ ("prep-only-artifact" \in Classes(m) /\ kind = "mechanistic-localization")
      [] action = "reroute"  -> {"lexicalization-instability", "blocked-prerequisite"} \cap Classes(m) # {}
Recommendations(read, anchor) ==
    {x \in {"stop", "continue", "reroute"} \X DOMAIN read : Recommends(read[x[2]], KindOf[x[2]], x[1])}
    \cup {<<"reroute", r>> : r \in {anchor} \cap DOMAIN read}

(***************************************************************************)
(* evaluate_self_correction.                                               *)
(***************************************************************************)
SetCorrector(pc, rec) == corrector' = [rec EXCEPT !.pc = pc]
KeepCorrectionFiles == UNCHANGED <<correctionReport, missionCorrection, correctionLedger>>
KeepEdits == UNCHANGED <<editedDuring, stateWritten>>
KeepCorrectionEnv == UNCHANGED <<runManifests, corrections, runWrites, correctorDied>> /\ KeepEdits

(* Report and mission state are truncated and written: a death in between  *)
(* leaves them cut, with nothing of what they held.                        *)
Cut(file) == file.by # 0 /\ file.action = "none"

(* The mission state is read whole, before anything else; a cut one leaves *)
(* the call by an exception.                                               *)
StartCorrection ==
    /\ corrector.pc = "idle" /\ corrections < MaxCorrections
    /\ corrections' = corrections + 1
    /\ IF Cut(missionCorrection) THEN corrector' = IdleCorrector
       ELSE SetCorrector("list", [IdleCorrector EXCEPT !.copy = missionCorrection.edits])
    /\ KeepCorrectionFiles /\ UNCHANGED <<runManifests, runWrites, correctorDied>> /\ KeepEdits

(* _discover_manifest_paths; none leaves the call by an exception.         *)
DiscoverManifests ==
    /\ corrector.pc = "list"
    /\ LET found == {r \in ExperimentRuns : runManifests[r] # NotWritten} IN
       IF found = {} THEN corrector' = IdleCorrector
       ELSE SetCorrector("read", [corrector EXCEPT !.found = found])
    /\ KeepCorrectionFiles /\ KeepCorrectionEnv

(* One manifest after the other, those of other missions too: a torn one   *)
(* leaves the call by an exception.                                        *)
ReadRunManifest(r) ==
    /\ corrector.pc = "read" /\ r \in corrector.found \ DOMAIN corrector.read
    /\ IF runManifests[r] = Unfinished THEN corrector' = IdleCorrector
       ELSE corrector' = [corrector EXCEPT
              !.read = [q \in DOMAIN corrector.read \cup {r} |->
                           IF q = r THEN runManifests[r] ELSE corrector.read[q]]]
    /\ KeepCorrectionFiles /\ KeepCorrectionEnv

\* Only the manifests of the mission are assessed.
AssessRuns ==
    /\ corrector.pc = "read" /\ DOMAIN corrector.read = corrector.found
    /\ LET own == corrector.found \cap OwnRuns IN
       IF own = {} THEN corrector' = IdleCorrector
       ELSE SetCorrector("report", [corrector EXCEPT !.read = [r \in own |-> corrector.read[r]]])
    /\ KeepCorrectionFiles /\ KeepCorrectionEnv

WriteCorrectionReport ==
    /\ corrector.pc = "report"
    /\ \E anchor \in IF Contenders(corrector.read) = {} THEN {"none"} ELSE Anchors(corrector.read) :
         correctionReport' = [by |-> corrections, action |-> MissionAction(corrector.read),
                              anchor |-> anchor, assessed |-> corrector.read,
                              advice |-> Recommendations(corrector.read, anchor)]
    /\ SetCorrector("state", corrector)
    /\ UNCHANGED <<missionCorrection, correctionLedger>> /\ KeepCorrectionEnv

(* The copy read at the start is written back: edits since then are lost.  *)
WriteMissionCorrection ==
    /\ corrector.pc = "state"
    /\ missionCorrection' = [by |-> correctionReport.by, action |-> correctionReport.action,
                             edits |-> corrector.copy]
    /\ stateWritten' = stateWritten \cup {corrections}
    /\ SetCorrector("ledger", corrector)
    /\ UNCHANGED <<correctionReport, correctionLedger, runManifests, corrections, runWrites, correctorDied,
                   editedDuring>>

LogCorrection ==
    /\ corrector.pc = "ledger"
    /\ correctionLedger' = correctionLedger \cup {corrections}
    /\ corrector' = IdleCorrector
    /\ UNCHANGED <<correctionReport, missionCorrection>> /\ KeepCorrectionEnv

CorrectorDies ==
    /\ corrector.pc # "idle" /\ ~correctorDied
    /\ correctorDied' = TRUE /\ corrector' = IdleCorrector
    /\ \/ UNCHANGED <<correctionReport, missionCorrection>>
       \/ /\ corrector.pc = "report" /\ correctionReport' = [NoCorrection EXCEPT !.by = corrections]
          /\ UNCHANGED missionCorrection
       \/ /\ corrector.pc = "state"
          /\ missionCorrection' = [by |-> corrections, action |-> "none", edits |-> {}]
          /\ UNCHANGED correctionReport
    /\ UNCHANGED <<correctionLedger, runManifests, corrections, runWrites>> /\ KeepEdits

\* A run writes its manifest, or starts to; a rerun writes it again.
RunWrites(r) ==
    /\ runWrites < MaxRunWrites /\ runWrites' = runWrites + 1
    /\ \E m \in RunResults[r] \cup {Unfinished} : m # runManifests[r] /\ runManifests' = [runManifests EXCEPT ![r] = m]
    /\ KeepCorrectionFiles /\ UNCHANGED <<corrector, corrections, correctorDied>> /\ KeepEdits

\* Who edits reads the state first, and fails on a cut one.
EditMission(e) ==
    /\ ~Cut(missionCorrection) /\ editedDuring[e] = NotMade
    /\ missionCorrection' = [missionCorrection EXCEPT !.edits = @ \cup {e}]
    /\ editedDuring' = [editedDuring EXCEPT ![e] = IF corrector.pc \in {"idle", "ledger"} THEN 0 ELSE corrections]
    /\ UNCHANGED <<correctionReport, correctionLedger, corrector, runManifests, corrections, runWrites,
                   correctorDied, stateWritten>>

CorrectionNext ==
    \/ StartCorrection \/ DiscoverManifests \/ AssessRuns \/ WriteCorrectionReport
    \/ WriteMissionCorrection \/ LogCorrection \/ CorrectorDies \/ \E e \in StateEdits : EditMission(e)
    \/ \E r \in ExperimentRuns : ReadRunManifest(r) \/ RunWrites(r)

CorrectionSpec == CorrectionInit /\ [][CorrectionNext]_correctionVars

-----------------------------------------------------------------------------
(* The last report, whoever wrote manifests while it was made, judges runs *)
(* of this mission only, one by one on a manifest each of them wrote.  The *)
(* mission continues unchanged only if none of them failed, collapsed or   *)
(* misses a prerequisite, and stops only if all of them failed or          *)
(* collapsed; the anchor is a baseline with a signal that no other one     *)
(* beats; whoever collapsed is recommended to be stopped.  State and       *)
(* ledger follow the report, in this order, and lag behind only while a    *)
(* correction is under way or after one died; only a death leaves one of   *)
(* the two files cut.  An edit that others made is missing from a state    *)
(* that is whole only if it came after a correction had read the state,    *)
(* and that correction wrote its copy back.                                *)
CorrectionHolds ==
    LET report == correctionReport
        assessed == report.assessed
    IN  /\ report.by # 0 /\ ~Cut(report) =>
             /\ DOMAIN assessed # {} /\ DOMAIN assessed \subseteq OwnRuns
             /\ \A r \in DOMAIN assessed : assessed[r] \in RunResults[r]
             /\ report.action = "continue" =>
                  \A r \in DOMAIN assessed : /\ assessed[r].status # "failed" /\ ~Collapsed(assessed[r])
                                             /\ assessed[r].lacksPrerequisite => assessed[r].status = "completed"
             /\ report.action = "stop" =>
                  \A r \in DOMAIN assessed : assessed[r].status = "failed" \/ Collapsed(assessed[r])
             /\ report.anchor # "none" =>
                  /\ KindOf[report.anchor] = "baseline-eval" /\ assessed[report.anchor].accuracy > CollapseMax
                  /\ \A r \in DOMAIN assessed :
                        KindOf[r] = "baseline-eval" => assessed[r].accuracy <= assessed[report.anchor].accuracy
             /\ \A r \in DOMAIN assessed : Collapsed(assessed[r]) => <<"stop", r>> \in report.advice
        /\ missionCorrection.by \in 0..report.by
        /\ missionCorrection.by = report.by => Cut(missionCorrection) \/ missionCorrection.action = report.action
        /\ \A n \in correctionLedger : n <= missionCorrection.by
        /\ corrector.pc = "idle" /\ ~correctorDied =>
             missionCorrection.by = report.by /\ (report.by # 0 => report.by \in correctionLedger)
        /\ Cut(report) \/ Cut(missionCorrection) => correctorDied
        /\ \A e \in StateEdits : editedDuring[e] # NotMade /\ e \notin missionCorrection.edits =>
             Cut(missionCorrection) \/ editedDuring[e] \in stateWritten
===============================================================================
