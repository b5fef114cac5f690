---------------------------- MODULE HealingQueue ----------------------------
(***************************************************************************)
(* The self-healing queue (self_healing_runtime.py): one pass over a list  *)
(* of jobs, each a subprocess that is to leave a manifest at a known path. *)
(*                                                                         *)
(* A job whose manifest exists is skipped. The others pass a sanity gate   *)
(* and are attempted until the manifest is accepted or the policy has no   *)
(* attempt left; a manifest found elsewhere is copied to where it was      *)
(* expected. The queue keeps nothing between two passes but the files: the *)
(* manifests, and the mission state, which it loads first and writes last. *)
(* Names begin with Queue where another component has the same.            *)
(***************************************************************************)
EXTENDS Naturals, Sequences, FiniteSets

CONSTANTS
    Jobs,            \* entries of the queue file, in their order: 1..Jobs
    MaxJobs,         \* max_jobs of the queue file; 0 takes them all
    MayLackConfig,   \* jobs whose command may name no proposal config
    Reroutable,      \* jobs with a reroute command, or a stage and an adapter
    RepairOrder,     \* the policy's repair_order per failure, without "stop"
    MaxAttempts,     \* attempts of a job, the first included
    ModeLimit,       \* max_retries, max_resumes, max_reroutes
    RerunExisting,   \* rerun_existing of the queue file
    MaxCandidates,   \* manifests the artifact search looks at
    Misplaced,       \* bound: what a manifest at another place may say
    MaxQueueRuns,    \* bound: passes over the queue
    MaxQueueTroubles \* bound: deaths of the queue, edits of the mission state by others

RecoveryMode == {"retry", "resume", "reroute"}
\* A scientific failure is a manifest that the assessment wants rerouted or
\* stopped; its repair order is its own.
Failure == {"command-failure", "import-env-failure", "missing-artifact",
            "schema-mismatch", "scientific-reroute", "scientific-stop"}

ASSUME QueueAssumption ==
    /\ Jobs \in Nat /\ MaxJobs \in Nat
    /\ MayLackConfig \subseteq 1..Jobs /\ Reroutable \subseteq 1..Jobs
    /\ RepairOrder \in [Failure -> Seq(RecoveryMode)]
    /\ RepairOrder["scientific-stop"] = <<>>
    /\ MaxAttempts \in Nat \ {0}
    /\ ModeLimit \in [RecoveryMode -> Nat]
    /\ RerunExisting \in BOOLEAN
    /\ MaxCandidates \in Nat \ {0}
    /\ Misplaced \subseteq {"continue", "reroute", "stop"}
    /\ MaxQueueRuns \in Nat /\ MaxQueueTroubles \in Nat

Job == 1..Jobs
Selected == IF MaxJobs = 0 \/ MaxJobs > Jobs THEN Job ELSE 1..MaxJobs

Assessed == {"continue", "reroute", "stop"}  \* manifests that satisfy the schema
Manifest == [of : Job, says : Assessed \cup {"malformed"}]
NoManifest == [of |-> 0, says |-> "nothing"]
Stray == [in : {"output", "elsewhere"}, says : Misplaced]
NoStray == [in |-> "nowhere", says |-> "nothing"]

VARIABLES
    unresolved, \* jobs whose command names no proposal config; it never changes
    manifest,   \* per job: the file at its expected path
    stray,      \* per job: what it wrote elsewhere, in its output directory or not
    orphans,    \* jobs of a dead queue that still run
    late,       \* jobs such a process wrote the manifest of
    fileEdits,  \* mission state on disk: the edits in it
    copy,       \* mission state as this pass loaded it
    entry,      \* per job: final_status in this pass
    healed,     \* jobs completed on a manifest the search found in this pass
    cur,        \* the job at hand
    modes,      \* its attempts: "primary", then recovery modes
    code,       \* how the last one's process exited: "ok", "error", "environment"
    failure,    \* why it was not accepted
    during,     \* history: edits others made during this pass
    accepted,   \* history: jobs completed in some pass
    qpc,        \* "idle", "entry", "run", "judge", "select", "report"
    outcome,    \* what the pass returned: "raised" and "died" when it did not
    queueRuns, queueTroubles

jobFiles == <<unresolved, manifest, stray, orphans, late>>
entries == <<entry, healed>>
attempt == <<cur, modes, code, failure>>
history == <<during, accepted>>
queueBounds == <<queueRuns, queueTroubles>>
queueVars == <<unresolved, manifest, stray, orphans, late, fileEdits, copy, entry, healed, cur, modes, code, failure, during, accepted, qpc,
               outcome, queueRuns, queueTroubles>>

Final == {"", "completed", "skipped", "blocked", "unresolved", "failed", "rerouted"}

QueueInit ==
    /\ unresolved \in SUBSET MayLackConfig
    /\ manifest = [j \in Job |-> NoManifest] /\ stray = [j \in Job |-> NoStray]
    /\ orphans = {} /\ late = {}
    /\ fileEdits = {} /\ copy = {}
    /\ entry = [j \in Job |-> ""]
    /\ healed = {}
    /\ cur = 1 /\ modes = <<>> /\ code = "ok" /\ failure = ""
    /\ during = {} /\ accepted = {}
    /\ qpc = "idle" /\ outcome = ""
    /\ queueRuns = 0 /\ queueTroubles = 0

----------------------------------------------------------------------------
(* A pass, and what it does with a job it does not attempt.                *)

BeginPass(loaded) ==
    /\ qpc = "idle" /\ queueRuns < MaxQueueRuns
    /\ queueRuns' = queueRuns + 1
    /\ copy' = loaded
    /\ entry' = [j \in Job |-> ""]
    /\ healed' = {} /\ during' = {}
    /\ cur' = 1 /\ modes' = <<>> /\ code' = "ok" /\ failure' = ""
    /\ qpc' = "entry" /\ outcome' = ""
    /\ UNCHANGED <<jobFiles, fileEdits, accepted, queueTroubles>>

QueueStarts == BeginPass(fileEdits)

AtEntry == qpc = "entry" /\ cur \in Selected

\* Mutant: only a manifest of the job itself counts.
SkippableOwn(j) == manifest[j].of = j /\ ~RerunExisting

Skippable(j) == manifest[j] # NoManifest /\ ~RerunExisting

\* The entry's summary is written and the next one is taken.
Finish(status) ==
    /\ entry' = [entry EXCEPT ![cur] = status]
    /\ accepted' = IF status = "completed" THEN accepted \cup {cur} ELSE accepted
    /\ cur' = cur + 1
    /\ modes' = <<>> /\ code' = "ok" /\ failure' = ""
    /\ qpc' = "entry"
    /\ UNCHANGED <<unresolved, stray, orphans, late, fileEdits, copy, during, outcome,
                   queueBounds>>

FinishUntried(status) ==
    /\ Finish(status)
    /\ UNCHANGED <<manifest, healed>>

SkipJob == AtEntry /\ Skippable(cur) /\ FinishUntried("skipped")

\* Blocked without a failure record, and so without a reason.
BlockUnresolved ==
    AtEntry /\ ~Skippable(cur) /\ cur \in unresolved /\ FinishUntried("unresolved")

SanityBlocks ==
    AtEntry /\ ~Skippable(cur) /\ cur \notin unresolved /\ FinishUntried("blocked")

----------------------------------------------------------------------------
(* Attempts.                                                               *)

FirstAttempt ==
    /\ AtEntry /\ ~Skippable(cur) /\ cur \notin unresolved
    /\ modes' = <<"primary">>
    /\ qpc' = "run"
    /\ UNCHANGED <<jobFiles, fileEdits, copy, entries, cur, code, failure, history,
                   outcome, queueBounds>>

\* What a process may leave at the expected path, whatever its exit code.
Writes(j) == {[of |-> j, says |-> q] : q \in Assessed \cup {"malformed"}}

\* It writes its manifest where it is expected, elsewhere, or not at all.
JobExits ==
    /\ qpc = "run"
    /\ \E c \in {"ok", "error", "environment"} : code' = c
    /\ \/ UNCHANGED <<manifest, stray>>
       \/ /\ \E m \in Writes(cur) : manifest' = [manifest EXCEPT ![cur] = m]
          /\ UNCHANGED stray
       \/ /\ \E s \in Stray : stray' = [stray EXCEPT ![cur] = s]
          /\ UNCHANGED manifest
    /\ qpc' = "judge"
    /\ UNCHANGED <<unresolved, orphans, late, fileEdits, copy, entries, cur, modes, failure, history,
                   outcome, queueBounds>>

\* _classify_attempt_outcome: "" when the manifest is accepted.
Verdict ==
    CASE code = "error"       -> "command-failure"
      [] code = "environment" -> "import-env-failure"
      [] code = "ok" ->
           CASE manifest[cur].says = "nothing"   -> "missing-artifact"
             [] manifest[cur].says = "malformed" -> "schema-mismatch"
             [] manifest[cur].says = "reroute"   -> "scientific-reroute"
             [] manifest[cur].says = "stop"      -> "scientific-stop"
             [] manifest[cur].says = "continue"  -> ""

Accept ==
    /\ qpc = "judge" /\ Verdict = ""
    /\ Finish("completed")
    /\ UNCHANGED <<manifest, healed>>

\* Manifests the artifact search may find: the job's own stray one, and those of
\* other jobs wherever they are; they all have the same file name.
Foreign ==
    {m \in {manifest[k] : k \in Job \ {cur}} : m.says \in Assessed}
      \cup {[of |-> k, says |-> stray[k].says] : k \in {i \in Job \ {cur} : stray[i] # NoStray}}
Own == IF stray[cur] = NoStray THEN {} ELSE {[of |-> cur, says |-> stray[cur].says]}

\* The output directory is searched first, and a manifest of this job is
\* preferred, unless the limit is used up before the search gets to it.
Found ==
    IF Own # {} /\ (stray[cur].in = "output" \/ Cardinality(Foreign) < MaxCandidates)
      THEN Own
      ELSE Foreign \cup Own

Searches == Verdict \in {"missing-artifact", "schema-mismatch"}

\* Mutant: what the search found is accepted as it is.
HealUnchecked ==
    /\ qpc = "judge" /\ Searches
    /\ \E m \in Found : manifest' = [manifest EXCEPT ![cur] = m]
    /\ healed' = healed \cup {cur}
    /\ Finish("completed")

\* The copy replaces the file at the expected path, and is assessed like one.
Heal ==
    /\ qpc = "judge" /\ Searches
    /\ \E m \in Found :
         /\ manifest' = [manifest EXCEPT ![cur] = m]
         /\ \/ /\ m.says = "continue"
               /\ healed' = healed \cup {cur}
               /\ Finish("completed")
            \/ /\ m.says # "continue"
               /\ failure' = Verdict
               /\ qpc' = "select"
               /\ UNCHANGED <<unresolved, stray, orphans, late, fileEdits, copy, entries, cur, modes,
                              code, history, outcome, queueBounds>>

Reject ==
    /\ qpc = "judge" /\ Verdict # ""
    /\ Searches => Found = {}
    /\ failure' = Verdict
    /\ qpc' = "select"
    /\ UNCHANGED <<jobFiles, fileEdits, copy, entries, cur, modes, code, history, outcome,
                   queueBounds>>

UsedIn(mode) == Cardinality({i \in DOMAIN modes : modes[i] = mode})
Available(mode) ==
    /\ UsedIn(mode) < ModeLimit[mode]
    /\ mode = "reroute" => cur \in Reroutable

\* Mutant: the first mode of the repair order, however often it was tried.
NextModeAlways ==
    LET order == RepairOrder[failure]
    IN  {order[i] : i \in DOMAIN order \cap {1}}

\* _select_recovery: the first mode of the repair order that is left, as a set
\* of at most one.
NextMode ==
    LET order == RepairOrder[failure]
        open  == {i \in DOMAIN order : Available(order[i])}
    IN  IF Len(modes) >= MaxAttempts THEN {}
        ELSE {order[i] : i \in {k \in open : \A l \in open : k <= l}}

\* Mutant: the attempts are not counted.
RecoverUncounted ==
    /\ qpc = "select"
    /\ NextMode # {}
    /\ qpc' = "run"
    /\ UNCHANGED <<jobFiles, fileEdits, copy, entries, attempt, history, outcome,
                   queueBounds>>

Recover ==
    /\ qpc = "select"
    /\ \E mode \in NextMode : modes' = Append(modes, mode)
    /\ qpc' = "run"
    /\ UNCHANGED <<jobFiles, fileEdits, copy, entries, cur, code, failure, history,
                   outcome, queueBounds>>

\* _entry_terminal_status.
GiveUpJob ==
    /\ qpc = "select" /\ NextMode = {}
    /\ Finish(IF failure = "scientific-reroute" THEN "rerouted" ELSE "failed")
    /\ UNCHANGED <<manifest, healed>>

----------------------------------------------------------------------------
(* The end of a pass.                                                      *)

Ended(status) == {j \in Job : entry[j] = status}
BlockedJobs == Ended("blocked") \cup Ended("unresolved")

WriteReport ==
    /\ qpc = "entry" /\ cur \notin Selected
    /\ qpc' = "report"
    /\ UNCHANGED <<jobFiles, fileEdits, copy, entries, attempt, history, outcome, queueBounds>>

\* mission_executor_registry._queue_status.
QueueStatus ==
    IF Ended("failed") # {} THEN "failed" ELSE IF BlockedJobs # {} THEN "blocked" ELSE "completed"

\* The reason is taken from the first blocked entry; one without reasons raises.
ReasonMissing ==
    /\ QueueStatus = "blocked"
    /\ \E j \in Ended("unresolved") : \A k \in BlockedJobs : j <= k

\* The whole state is written as it was loaded, with the queue's verdict.
UpdateMissionState ==
    /\ qpc = "report" /\ ~ReasonMissing
    /\ fileEdits' = copy
    /\ outcome' = QueueStatus
    /\ qpc' = "idle"
    /\ UNCHANGED <<jobFiles, copy, entries, attempt, history, queueBounds>>

UpdateRaises ==
    /\ qpc = "report" /\ ReasonMissing
    /\ outcome' = "raised"
    /\ qpc' = "idle"
    /\ UNCHANGED <<jobFiles, fileEdits, copy, entries, attempt, history, queueBounds>>

----------------------------------------------------------------------------
(* The environment.                                                        *)

\* The queue dies; a job it was running goes on by itself.
QueueCrash ==
    /\ qpc # "idle" /\ queueTroubles < MaxQueueTroubles
    /\ queueTroubles' = queueTroubles + 1
    /\ orphans' = IF qpc = "run" THEN orphans \cup {cur} ELSE orphans
    /\ qpc' = "idle" /\ outcome' = "died"
    /\ UNCHANGED <<unresolved, manifest, stray, late, fileEdits, copy, entries, attempt, history, queueRuns>>

OrphanExits(j) ==
    /\ j \in orphans
    /\ orphans' = orphans \ {j}
    /\ late' = late \cup {j}
    /\ \E m \in Writes(j) : manifest' = [manifest EXCEPT ![j] = m]
    /\ UNCHANGED <<unresolved, stray, fileEdits, copy, entries, attempt, history, qpc, outcome, queueBounds>>

\* The operator, or a script a job runs, edits the mission state.
OthersEdit ==
    /\ queueTroubles < MaxQueueTroubles
    /\ queueTroubles' = queueTroubles + 1
    /\ fileEdits' = fileEdits \cup {queueTroubles'}
    /\ during' = IF qpc = "idle" THEN during ELSE during \cup {queueTroubles'}
    /\ UNCHANGED <<jobFiles, copy, entries, attempt, accepted, qpc, outcome, queueRuns>>

\* What the queue does by itself.
QueueStep ==
    \/ SkipJob \/ BlockUnresolved \/ SanityBlocks \/ FirstAttempt
    \/ JobExits \/ Accept \/ Heal \/ Reject \/ Recover \/ GiveUpJob
    \/ WriteReport \/ UpdateMissionState \/ UpdateRaises

QueueNext ==
    \/ QueueStarts
    \/ QueueStep
    \/ QueueCrash
    \/ \E j \in Job : OrphanExits(j)
    \/ OthersEdit

QueueSpec == QueueInit /\ [][QueueNext]_queueVars
QueueFairSpec == QueueSpec /\ WF_queueVars(QueueStep)
----------------------------------------------------------------------------
(* Properties.                                                             *)

FilesOK ==
    /\ unresolved \in SUBSET Job
    /\ manifest \in [Job -> Manifest \cup {NoManifest}]
    /\ stray \in [Job -> Stray \cup {NoStray}]
    /\ orphans \in SUBSET Job /\ late \in SUBSET Job
    /\ fileEdits \in SUBSET Nat /\ copy \in SUBSET Nat

PassOK ==
    /\ entry \in [Job -> Final]
    /\ healed \in SUBSET Job
    /\ code \in {"ok", "error", "environment"}
    /\ failure \in Failure \cup {""}
    /\ qpc \in {"idle", "entry", "run", "judge", "select", "report"}
    /\ outcome \in {"", "completed", "blocked", "failed", "raised", "died"}

AttemptsOK == modes \in Seq(RecoveryMode \cup {"primary"}) /\ Len(modes) <= MaxAttempts

CountsOK ==
    /\ cur \in Nat \ {0}
    /\ during \in SUBSET Nat /\ accepted \in SUBSET Job
    /\ queueRuns \in Nat /\ queueTroubles \in Nat

\* Every variable holds a value of its type; the attempts of a job stay within
\* the policy's limits.
QueueTypeOK == FilesOK /\ PassOK /\ AttemptsOK /\ CountsOK

\* A job is completed on a manifest that says to continue, and on one it wrote
\* itself unless the search brought another job's: whatever earlier attempts,
\* passes and failed searches left at the expected path. Only a process that
\* outlived its queue can spoil it afterwards. With rerun_existing a copy an
\* earlier pass brought may be taken for the job's own.
CompletedOnEvidence ==
    \A j \in Ended("completed") \ late :
      /\ manifest[j].says = "continue"
      /\ manifest[j].of = j \/ j \in healed \/ RerunExisting

\* The search never takes another job's manifest for that of a job which left its
\* own in its output directory.
OwnManifestFirst ==
    \A j \in healed \ late : stray[j].in = "output" => manifest[j].of = j

\* A pass that returns "completed" to the outer loop has, for each job it took, an
\* accepted manifest, a reroute, or a manifest that was there before. The last
\* need not be an accepted one: what a failed job or a dead pass leaves is skipped.
CompletedIsBacked ==
    outcome = "completed" =>
      \A j \in Selected \ late :
        \/ entry[j] = "completed" /\ manifest[j].says = "continue"
        \/ entry[j] = "rerouted"
        \/ entry[j] = "skipped" /\ manifest[j] # NoManifest

\* A job that was completed is not run again by a later pass, crashes between
\* the passes included.
AcceptedIsNotRepeated ==
    qpc \in {"run", "judge", "select"} => cur \notin accepted \/ RerunExisting

\* The state written at the end of a pass drops edits others made during that
\* pass, and no others.
OlderEditsAreKept == [][fileEdits \ fileEdits' \subseteq during]_queueVars
=============================================================================
