------------------------- MODULE HealingQueueProofs -------------------------
(***************************************************************************)
(* HealingQueue for any number of jobs, attempts, passes, crashes and      *)
(* edits, and any policy: types, what a completed job and a completed      *)
(* queue rest on, that no accepted job is run again, and which edits of    *)
(* the mission state a pass may drop.                                      *)
(***************************************************************************)
EXTENDS HealingQueue, TLAPS

Attempting == {"run", "judge", "select"}

\* The jobs before the one at hand have an entry, it and the others have none.
EntriesInOrder ==
    qpc # "idle" =>
      \A j \in Job : (j < cur => entry[j] # "") /\ (j >= cur => entry[j] = "")

\* While a job is attempted, a manifest that says to continue at its place is its
\* own: what another job's copy says was not enough.
AttemptIsOwn ==
    qpc \in Attempting =>
      /\ cur \in Selected
      /\ cur \in late \/ RerunExisting \/ manifest[cur].says # "continue" \/ manifest[cur].of = cur

\* What was accepted or skipped has a manifest; what was healed is completed.
ManifestsStay ==
    /\ \A j \in accepted : manifest[j] # NoManifest
    /\ \A j \in Job : entry[j] = "skipped" => manifest[j] # NoManifest
    /\ \A j \in healed : entry[j] = "completed"

\* A pass that goes on has returned nothing; one that returned "completed" has an
\* entry for each job it took.
OutcomeAgrees ==
    /\ qpc # "idle" => outcome = ""
    /\ qpc = "report" => \A j \in Selected : entry[j] # ""
    /\ outcome = "completed" => \A j \in Selected : entry[j] \in {"completed", "rerouted", "skipped"}

\* The pass has not seen the edits made during it, and has seen all others.
CopyIsOld == qpc # "idle" => fileEdits \ copy \subseteq during

QueueInv ==
    /\ QueueTypeOK
    /\ qpc = "select" => failure # ""
    /\ EntriesInOrder
    /\ AttemptIsOwn
    /\ ManifestsStay
    /\ OutcomeAgrees
    /\ CopyIsOld
    /\ CompletedOnEvidence
    /\ OwnManifestFirst
    /\ AcceptedIsNotRepeated

----------------------------------------------------------------------------
(* Facts about the operators.                                              *)

LEMMA SelectedJobs ==
    /\ Selected \subseteq Job
    /\ 0 \notin Job
    /\ \A c \in Nat \ {0} : c \notin Selected => \A j \in Selected : j < c
PROOF
  BY QueueAssumption DEF Selected, Job

LEMMA ManifestType ==
    ASSUME FilesOK, NEW k \in Job
    PROVE  /\ manifest[k] \in Manifest \cup {NoManifest}
           /\ manifest[k].says # "nothing" => manifest[k] \in Manifest
           /\ manifest[k] = NoManifest => manifest[k].says = "nothing"
PROOF
<1>1. manifest[k] \in Manifest \cup {NoManifest}
  BY DEF FilesOK
<1>2. NoManifest.says = "nothing"
  BY DEF NoManifest
<1> QED
  BY <1>1, <1>2

LEMMA StrayType ==
    ASSUME FilesOK, NEW k \in Job, stray[k] # NoStray
    PROVE  [of |-> k, says |-> stray[k].says] \in Manifest
PROOF
<1>1. stray[k] \in Stray
  BY DEF FilesOK
<1>2. stray[k].says \in Misplaced
  BY <1>1 DEF Stray
<1>3. stray[k].says \in Assessed
  BY <1>2, QueueAssumption DEF Assessed
<1> QED
  BY <1>3 DEF Manifest

LEMMA ManifestIsSome == ASSUME NEW m \in Manifest PROVE m # NoManifest
PROOF
<1>1. m.of \in Job
  BY DEF Manifest
<1>2. NoManifest.of = 0
  BY DEF NoManifest
<1> QED
  BY <1>1, <1>2, SelectedJobs

LEMMA FoundFacts ==
    ASSUME FilesOK, cur \in Job, NEW m \in Found
    PROVE  /\ m \in Manifest /\ m # NoManifest
           /\ stray[cur].in = "output" => m.of = cur
PROOF
<1>1. Own \subseteq Manifest /\ \A o \in Own : o.of = cur
  BY StrayType DEF Own
<1>2. Foreign \subseteq Manifest
  <2>1. ASSUME NEW k \in Job, manifest[k].says \in Assessed
        PROVE  manifest[k] \in Manifest
    <3>1. manifest[k].says # "nothing"
      BY <2>1 DEF Assessed
    <3> QED
      BY <3>1, ManifestType
  <2>2. \A k \in Job : stray[k] # NoStray => [of |-> k, says |-> stray[k].says] \in Manifest
    BY StrayType
  <2> QED
    BY <2>1, <2>2 DEF Foreign
<1>3. m \in Manifest
  BY <1>1, <1>2 DEF Found
<1>4. ASSUME stray[cur].in = "output" PROVE m.of = cur
  <2>1. stray[cur] # NoStray
    BY <1>4 DEF NoStray
  <2>2. Found = Own
    BY <1>4, <2>1 DEF Found, Own
  <2> QED
    BY <2>2, <1>1
<1> QED
  BY <1>3, <1>4, ManifestIsSome

LEMMA SeqElement ==
    ASSUME NEW S, NEW s \in Seq(S), NEW i \in DOMAIN s
    PROVE  s[i] \in S
PROOF
  OBVIOUS

LEMMA EmptyHasNoLength == ASSUME NEW S PROVE <<>> \in Seq(S) /\ Len(<<>>) = 0
PROOF
  OBVIOUS

LEMMA LengthIsNat == ASSUME NEW S, NEW s \in Seq(S) PROVE Len(s) \in Nat
PROOF
  OBVIOUS

LEMMA AppendOne ==
    ASSUME NEW S, NEW s \in Seq(S), NEW e \in S
    PROVE  Append(s, e) \in Seq(S) /\ Len(Append(s, e)) = Len(s) + 1
PROOF
  OBVIOUS

LEMMA Below == ASSUME NEW n \in Nat, NEW m \in Nat, ~(n >= m) PROVE n + 1 <= m
PROOF
  OBVIOUS

LEMMA NoAttemptOK == <<>> \in Seq(RecoveryMode \cup {"primary"}) /\ Len(<<>>) <= MaxAttempts
PROOF
<1>1. MaxAttempts \in Nat
  BY QueueAssumption
<1>2. Len(<<>>) = 0
  BY EmptyHasNoLength
<1>3. Len(<<>>) <= MaxAttempts
  BY <1>1, <1>2
<1> QED
  BY <1>3, EmptyHasNoLength

LEMMA OneAttemptOK ==
    <<"primary">> \in Seq(RecoveryMode \cup {"primary"}) /\ Len(<<"primary">>) <= MaxAttempts
PROOF
<1>1. MaxAttempts \in Nat \ {0}
  BY QueueAssumption
<1>2. <<"primary">> \in Seq(RecoveryMode \cup {"primary"}) /\ Len(<<"primary">>) = 1
  OBVIOUS
<1> QED
  BY <1>1, <1>2

\* One more attempt stays within the policy.
LEMMA NextAttemptOK ==
    ASSUME AttemptsOK, failure \in Failure, NEW mode \in NextMode
    PROVE  /\ Append(modes, mode) \in Seq(RecoveryMode \cup {"primary"})
           /\ Len(Append(modes, mode)) <= MaxAttempts
PROOF
<1>1. RepairOrder[failure] \in Seq(RecoveryMode)
  BY QueueAssumption
<1>2. ~(Len(modes) >= MaxAttempts)
  BY DEF NextMode
<1>3. \E i \in DOMAIN RepairOrder[failure] : mode = RepairOrder[failure][i]
  BY <1>2 DEF NextMode
<1>4. mode \in RecoveryMode
  BY <1>1, <1>3, SeqElement
<1>5. modes \in Seq(RecoveryMode \cup {"primary"})
  BY DEF AttemptsOK
<1>6. Len(modes) \in Nat /\ MaxAttempts \in Nat
  BY <1>5, LengthIsNat, QueueAssumption
<1>7. Append(modes, mode) \in Seq(RecoveryMode \cup {"primary"}) /\ Len(Append(modes, mode)) = Len(modes) + 1
  BY <1>4, <1>5, AppendOne
<1> HIDE DEF NextMode
<1>8. Len(modes) + 1 <= MaxAttempts
  BY <1>2, <1>6, Below
<1> QED
  BY <1>7, <1>8

LEMMA VerdictType ==
    /\ Verdict # "" /\ PassOK /\ FilesOK /\ cur \in Job => Verdict \in Failure
    /\ Verdict = "" /\ PassOK /\ FilesOK /\ cur \in Job => manifest[cur].says = "continue"
PROOF
<1>1. ASSUME FilesOK, cur \in Job
      PROVE  manifest[cur].says \in {"continue", "reroute", "stop", "malformed", "nothing"}
  <2>1. \A m \in Manifest : m.says \in {"continue", "reroute", "stop", "malformed"}
    BY DEF Manifest, Assessed
  <2> QED
    BY <1>1, <2>1, ManifestType
<1>2. PassOK => code \in {"ok", "error", "environment"}
  BY DEF PassOK
<1> QED
  BY <1>1, <1>2 DEF Verdict, Failure

----------------------------------------------------------------------------
(* The steps.                                                              *)

LEMMA QueueInitInv == QueueInit => QueueInv
PROOF
<1> SUFFICES ASSUME QueueInit PROVE QueueInv
  OBVIOUS
<1>1. FilesOK
  BY QueueAssumption DEF QueueInit, FilesOK, Job
<1>2. PassOK
  <2>1. entry \in [Job -> Final]
    BY DEF QueueInit, Final
  <2>2. healed = {} /\ code = "ok" /\ failure = "" /\ qpc = "idle" /\ outcome = ""
    BY DEF QueueInit
  <2> QED
    BY <2>1, <2>2 DEF PassOK
<1>3. AttemptsOK
  BY NoAttemptOK DEF QueueInit, AttemptsOK
<1>4. CountsOK
  <2>1. cur = 1 /\ during = {} /\ accepted = {} /\ queueRuns = 0 /\ queueTroubles = 0
    BY DEF QueueInit
  <2> QED
    BY <2>1 DEF CountsOK
<1>5. CompletedOnEvidence /\ OwnManifestFirst /\ AcceptedIsNotRepeated
  BY DEF QueueInit, CompletedOnEvidence, OwnManifestFirst, AcceptedIsNotRepeated, Ended
<1>6. EntriesInOrder /\ AttemptIsOwn /\ ManifestsStay /\ OutcomeAgrees /\ CopyIsOld
  BY DEF QueueInit, EntriesInOrder, AttemptIsOwn, ManifestsStay, OutcomeAgrees, CopyIsOld, Attempting
<1> QED
  BY <1>1, <1>2, <1>3, <1>4, <1>5, <1>6 DEF QueueInit, QueueInv, QueueTypeOK

\* Taking an entry to its end with the status, and what it may do to the files.
Finishing(status) ==
    /\ cur \in Selected /\ qpc # "idle" /\ status \in Final \ {""}
    /\ Finish(status)
    /\ manifest' \in [Job -> Manifest \cup {NoManifest}]
    /\ healed' \in SUBSET Job
    /\ \A k \in Job \ {cur} : manifest'[k] = manifest[k] /\ (k \in healed' <=> k \in healed)
    /\ manifest[cur] # NoManifest \/ status \in {"completed", "skipped"} => manifest'[cur] # NoManifest
    /\ status = "completed" =>
         /\ manifest'[cur].says = "continue"
         /\ manifest'[cur].of = cur \/ cur \in healed' \/ cur \in late \/ RerunExisting
    /\ cur \in healed' => status = "completed" /\ (stray[cur].in = "output" => manifest'[cur].of = cur)

LEMMA NextIndex == ASSUME NEW c \in Nat \ {0} PROVE c + 1 \in Nat \ {0}
PROOF
  OBVIOUS

LEMMA BeforeNext ==
    ASSUME NEW c \in Job, NEW j \in Job
    PROVE  /\ j < c + 1 => j < c \/ j = c
           /\ j >= c + 1 => j >= c /\ j # c
PROOF
<1>1. Job \subseteq Nat
  BY QueueAssumption DEF Job
<1>2. c \in Nat /\ j \in Nat
  BY <1>1
<1> QED
  BY <1>2

LEMMA FinishInv ==
    ASSUME QueueInv, NEW status, Finishing(status)
    PROVE  QueueInv'
PROOF
<1>1. cur \in Job
  BY SelectedJobs DEF Finishing
<1>2. FilesOK /\ PassOK /\ AttemptsOK /\ CountsOK
  BY DEF QueueInv, QueueTypeOK
<1>3. FilesOK'
  BY <1>2 DEF FilesOK, Finish, Finishing
<1>4. PassOK'
  <2>1. entry' \in [Job -> Final]
    BY <1>2 DEF PassOK, Finish, Finishing
  <2>2. code' = "ok" /\ failure' = "" /\ qpc' = "entry" /\ outcome' = outcome
    BY DEF Finish, Finishing
  <2>3. healed' \in SUBSET Job
    BY DEF Finishing
  <2> QED
    BY <1>2, <2>1, <2>2, <2>3 DEF PassOK
<1>5. AttemptsOK'
  BY NoAttemptOK DEF Finish, Finishing, AttemptsOK
<1>6. CountsOK'
  <2>1. cur' = cur + 1 /\ cur \in Nat \ {0}
    BY <1>2 DEF CountsOK, Finish, Finishing
  <2>2. cur' \in Nat \ {0}
    BY <2>1, NextIndex
  <2>3. accepted' \in SUBSET Job
    BY <1>1, <1>2 DEF CountsOK, Finish, Finishing
  <2> QED
    BY <1>2, <2>2, <2>3 DEF CountsOK, Finish, Finishing, queueBounds
<1>7. entry'[cur] = status /\ \A k \in Job \ {cur} : entry'[k] = entry[k]
  BY <1>1, <1>2 DEF PassOK, Finish, Finishing
<1>8. EntriesInOrder'
  <2>1. \A j \in Job : (j < cur => entry[j] # "") /\ (j >= cur => entry[j] = "")
    BY DEF QueueInv, EntriesInOrder, Finishing
  <2>2. cur' = cur + 1 /\ status # ""
    BY DEF Finish, Finishing
  <2>3. ASSUME NEW j \in Job
        PROVE  (j < cur' => entry'[j] # "") /\ (j >= cur' => entry'[j] = "")
    <3>1. CASE j = cur
      <4>1. entry'[j] # "" /\ ~(j >= cur')
        BY <1>1, <3>1, <1>7, <2>2, BeforeNext
      <4> QED
        BY <4>1
    <3>2. CASE j # cur
      <4>1. (j < cur' => j < cur) /\ (j >= cur' => j >= cur)
        BY <1>1, <3>2, <2>2, BeforeNext
      <4>2. entry'[j] = entry[j]
        BY <3>2, <1>7
      <4> QED
        BY <4>1, <4>2, <2>1
    <3> QED
      BY <3>1, <3>2
  <2> QED
    BY <2>3 DEF EntriesInOrder
<1>9. AttemptIsOwn' /\ AcceptedIsNotRepeated' /\ qpc' = "entry"
  BY DEF Finish, Finishing, AttemptIsOwn, Attempting, AcceptedIsNotRepeated
<1>10. ManifestsStay'
  <2>1. \A j \in accepted' : manifest'[j] # NoManifest
    BY <1>1, <1>2 DEF Finish, Finishing, QueueInv, ManifestsStay, CountsOK
  <2>2. \A j \in Job : entry'[j] = "skipped" => manifest'[j] # NoManifest
    BY <1>7 DEF QueueInv, ManifestsStay, Finishing
  <2>3. \A j \in healed' : entry'[j] = "completed"
    BY <1>7 DEF QueueInv, ManifestsStay, Finishing
  <2> QED
    BY <2>1, <2>2, <2>3 DEF ManifestsStay
<1>11. OutcomeAgrees'
  BY DEF Finish, Finishing, QueueInv, OutcomeAgrees
<1>12. CopyIsOld'
  BY DEF Finish, Finishing, QueueInv, CopyIsOld
<1>13. late' = late /\ stray' = stray
  BY DEF Finish, Finishing
<1>14. CompletedOnEvidence'
  <2>1. ASSUME NEW j \in Job, entry'[j] = "completed", j \notin late
        PROVE  /\ manifest'[j].says = "continue"
               /\ manifest'[j].of = j \/ j \in healed' \/ RerunExisting
    <3>1. CASE j = cur
      BY <2>1, <3>1, <1>7 DEF Finishing
    <3>2. CASE j # cur
      BY <2>1, <3>2, <1>7 DEF Finishing, QueueInv, CompletedOnEvidence, Ended
    <3> QED
      BY <3>1, <3>2
  <2> QED
    BY <2>1, <1>13 DEF CompletedOnEvidence, Ended
<1>15. OwnManifestFirst'
  BY <1>13 DEF Finishing, QueueInv, OwnManifestFirst
<1> QED
  BY <1>3, <1>4, <1>5, <1>6, <1>8, <1>9, <1>10, <1>11, <1>12, <1>14, <1>15 DEF QueueInv, QueueTypeOK

\* What the files and the job at hand are when an entry is under way.
LEMMA AtHand ==
    ASSUME QueueInv, cur \in Selected, qpc # "idle"
    PROVE  /\ cur \in Job /\ entry[cur] = "" /\ cur \notin healed
           /\ manifest \in [Job -> Manifest \cup {NoManifest}]
           /\ healed \in SUBSET Job
           /\ FilesOK /\ PassOK /\ AttemptsOK /\ CountsOK
PROOF
<1>1. FilesOK /\ PassOK /\ AttemptsOK /\ CountsOK
  BY DEF QueueInv, QueueTypeOK
<1>2. cur \in Job
  BY SelectedJobs
<1>3. cur >= cur
  BY <1>2, BeforeNext, QueueAssumption DEF Job
<1>4. entry[cur] = ""
  BY <1>2, <1>3 DEF QueueInv, EntriesInOrder
<1>5. cur \notin healed
  BY <1>4 DEF QueueInv, ManifestsStay
<1> QED
  BY <1>1, <1>2, <1>4, <1>5 DEF FilesOK, PassOK

\* An entry ended without an attempt, or after the last one.
LEMMA UntriedInv ==
    ASSUME QueueInv, cur \in Selected, qpc # "idle",
           NEW status \in Final \ {"", "completed"},
           status = "skipped" => manifest[cur] # NoManifest,
           FinishUntried(status)
    PROVE  QueueInv'
PROOF
<1>1. manifest' = manifest /\ healed' = healed /\ Finish(status)
  BY DEF FinishUntried
<1>2. Finishing(status)
  BY <1>1, AtHand DEF Finishing
<1> QED
  BY <1>2, FinishInv

LEMMA EntryInv ==
    ASSUME QueueInv, SkipJob \/ BlockUnresolved \/ SanityBlocks
    PROVE  QueueInv'
PROOF
<1>1. CASE SkipJob
  <2>1. "skipped" \in Final \ {"", "completed"}
    BY DEF Final
  <2>2. cur \in Selected /\ qpc # "idle" /\ manifest[cur] # NoManifest /\ FinishUntried("skipped")
    BY <1>1 DEF SkipJob, AtEntry, Skippable
  <2> QED
    BY <2>1, <2>2, UntriedInv
<1>2. CASE BlockUnresolved
  <2>1. "unresolved" \in Final \ {"", "completed", "skipped"}
    BY DEF Final
  <2>2. cur \in Selected /\ qpc # "idle" /\ FinishUntried("unresolved")
    BY <1>2 DEF BlockUnresolved, AtEntry
  <2> QED
    BY <2>1, <2>2, UntriedInv
<1>3. CASE SanityBlocks
  <2>1. "blocked" \in Final \ {"", "completed", "skipped"}
    BY DEF Final
  <2>2. cur \in Selected /\ qpc # "idle" /\ FinishUntried("blocked")
    BY <1>3 DEF SanityBlocks, AtEntry
  <2> QED
    BY <2>1, <2>2, UntriedInv
<1> QED
  BY <1>1, <1>2, <1>3

\* While a job is attempted: the job is one of the pass.
LEMMA Attempted ==
    ASSUME QueueInv, qpc \in Attempting
    PROVE  /\ cur \in Selected /\ qpc # "idle"
           /\ cur \in late \/ RerunExisting \/ manifest[cur].says # "continue" \/ manifest[cur].of = cur
PROOF
  BY DEF QueueInv, AttemptIsOwn, Attempting

LEMMA GiveUpInv == ASSUME QueueInv, GiveUpJob PROVE QueueInv'
PROOF
<1>1. qpc \in Attempting
  BY DEF GiveUpJob, Attempting
<1>2. PICK status \in {"rerouted", "failed"} : Finish(status)
  BY DEF GiveUpJob
<1>3. FinishUntried(status)
  BY <1>2 DEF GiveUpJob, FinishUntried
<1>4. status \in Final \ {"", "completed", "skipped"}
  BY DEF Final
<1> QED
  BY <1>1, <1>3, <1>4, Attempted, UntriedInv

LEMMA AcceptInv == ASSUME QueueInv, Accept PROVE QueueInv'
PROOF
<1>1. qpc \in Attempting
  BY DEF Accept, Attempting
<1>2. cur \in Selected /\ qpc # "idle"
  BY <1>1, Attempted
<1>3. manifest[cur].says = "continue"
  BY <1>2, AtHand, VerdictType DEF Accept
<1>4. manifest[cur] # NoManifest
  BY <1>3 DEF NoManifest
<1>5. manifest' = manifest /\ healed' = healed /\ Finish("completed") /\ "completed" \in Final \ {""}
  BY DEF Accept, Final
<1>6. manifest[cur].of = cur \/ cur \in healed \/ cur \in late \/ RerunExisting
  BY <1>1, <1>3, Attempted
<1>7. Finishing("completed")
  BY <1>2, <1>3, <1>4, <1>5, <1>6, AtHand DEF Finishing
<1> QED
  BY <1>7, FinishInv

\* A step of an attempt: what it may do to the files of the job at hand.
Trying ==
    /\ cur \in Selected /\ qpc # "idle" /\ qpc' \in Attempting
    /\ qpc' = "select" => failure' # ""
    /\ UNCHANGED <<unresolved, orphans, late, fileEdits, copy, entry, healed, cur, during,
                   accepted, outcome, queueRuns, queueTroubles>>
    /\ manifest' \in [Job -> Manifest \cup {NoManifest}]
    /\ stray' \in [Job -> Stray \cup {NoStray}]
    /\ \A k \in Job \ {cur} : manifest'[k] = manifest[k] /\ stray'[k] = stray[k]
    /\ manifest[cur] # NoManifest => manifest'[cur] # NoManifest
    /\ cur \in late \/ RerunExisting \/ manifest'[cur].says # "continue" \/ manifest'[cur].of = cur
    /\ cur \notin accepted \/ RerunExisting
    /\ AttemptsOK'
    /\ code' \in {"ok", "error", "environment"} /\ failure' \in Failure \cup {""}

LEMMA TryingInv == ASSUME QueueInv, Trying PROVE QueueInv'
PROOF
<1>1. /\ cur \in Job /\ entry[cur] = "" /\ cur \notin healed
      /\ FilesOK /\ PassOK /\ AttemptsOK /\ CountsOK
  BY AtHand DEF Trying
<1>2. FilesOK'
  BY <1>1 DEF FilesOK, Trying
<1>3. PassOK'
  BY <1>1 DEF PassOK, Trying, Attempting
<1>4. AttemptsOK'
  BY DEF Trying
<1>5. CountsOK'
  BY <1>1 DEF CountsOK, Trying
<1>6. EntriesInOrder'
  BY DEF QueueInv, EntriesInOrder, Trying
<1>7. AttemptIsOwn'
  BY DEF AttemptIsOwn, Trying
<1>8. ManifestsStay'
  <2>1. accepted \in SUBSET Job /\ ManifestsStay
    BY <1>1 DEF CountsOK, QueueInv
  <2>2. ASSUME NEW j \in Job, manifest[j] # NoManifest PROVE manifest'[j] # NoManifest
    BY <2>2 DEF Trying
  <2> QED
    BY <2>1, <2>2 DEF ManifestsStay, Trying
<1>9. OutcomeAgrees'
  BY DEF QueueInv, OutcomeAgrees, Trying, Attempting
<1>10. CopyIsOld'
  BY DEF QueueInv, CopyIsOld, Trying
<1>11. CompletedOnEvidence'
  BY <1>1 DEF QueueInv, CompletedOnEvidence, Ended, Trying
<1>12. OwnManifestFirst'
  BY <1>1 DEF QueueInv, OwnManifestFirst, PassOK, Trying
<1>13. AcceptedIsNotRepeated'
  BY DEF AcceptedIsNotRepeated, Trying
<1>14. qpc' = "select" => failure' # ""
  BY DEF Trying
<1> QED
  BY <1>2, <1>3, <1>4, <1>5, <1>6, <1>7, <1>8, <1>9, <1>10, <1>11, <1>12, <1>13, <1>14
     DEF QueueInv, QueueTypeOK

LEMMA FirstAttemptInv == ASSUME QueueInv, FirstAttempt PROVE QueueInv'
PROOF
<1>1. cur \in Selected /\ qpc # "idle" /\ qpc' = "run"
  BY DEF FirstAttempt, AtEntry
<1>2. FilesOK /\ PassOK /\ AttemptsOK /\ CountsOK
  BY DEF QueueInv, QueueTypeOK
<1>3. AttemptsOK'
  BY OneAttemptOK DEF AttemptsOK, FirstAttempt
<1>4. RerunExisting \/ manifest[cur] = NoManifest
  BY DEF FirstAttempt, Skippable
<1>5. cur \notin accepted \/ RerunExisting
  BY <1>4 DEF QueueInv, ManifestsStay
<1>6. RerunExisting \/ manifest[cur].says # "continue"
  BY <1>4 DEF NoManifest
<1>7. UNCHANGED <<jobFiles, fileEdits, copy, entries, cur, code, failure, history, outcome, queueBounds>>
  BY DEF FirstAttempt
<1>8. Trying
  BY <1>1, <1>2, <1>3, <1>5, <1>6, <1>7
     DEF Trying, Attempting, jobFiles, entries, history, queueBounds, FilesOK, PassOK
<1> QED
  BY <1>8, TryingInv

\* What every later step of an attempt finds and leaves.
LEMMA Keeps ==
    ASSUME QueueInv, qpc \in Attempting
    PROVE  /\ cur \in Selected /\ cur \in Job /\ qpc # "idle"
           /\ cur \notin accepted \/ RerunExisting
           /\ manifest \in [Job -> Manifest \cup {NoManifest}]
           /\ stray \in [Job -> Stray \cup {NoStray}]
           /\ code \in {"ok", "error", "environment"} /\ failure \in Failure \cup {""}
           /\ cur \in late \/ RerunExisting \/ manifest[cur].says # "continue" \/ manifest[cur].of = cur
PROOF
  BY SelectedJobs DEF QueueInv, QueueTypeOK, FilesOK, PassOK, AttemptIsOwn,
     AcceptedIsNotRepeated, Attempting

LEMMA JobExitsInv == ASSUME QueueInv, JobExits PROVE QueueInv'
PROOF
<1>1. qpc \in Attempting /\ qpc' = "judge"
  BY DEF JobExits, Attempting
<1>2. UNCHANGED <<unresolved, orphans, late, fileEdits, copy, entry, healed, cur, modes, failure,
                  during, accepted, outcome, queueRuns, queueTroubles>>
  BY DEF JobExits, entries, history, queueBounds
<1>3. AttemptsOK'
  BY <1>2 DEF AttemptsOK, QueueInv, QueueTypeOK
<1>4. ASSUME NEW m \in Writes(cur), manifest' = [manifest EXCEPT ![cur] = m]
      PROVE  /\ manifest' \in [Job -> Manifest \cup {NoManifest}]
             /\ \A k \in Job \ {cur} : manifest'[k] = manifest[k]
             /\ manifest'[cur] # NoManifest /\ manifest'[cur].of = cur
  <2>1. m \in Manifest /\ m.of = cur
    <3>1. PICK q \in Assessed \cup {"malformed"} : m = [of |-> cur, says |-> q]
      BY <1>4 DEF Writes
    <3>2. cur \in Job
      BY <1>1, Keeps
    <3> QED
      BY <3>1, <3>2 DEF Manifest
  <2>2. m # NoManifest
    BY <2>1, ManifestIsSome
  <2> QED
    BY <1>1, <1>4, <2>1, <2>2, Keeps
<1>5. /\ manifest' \in [Job -> Manifest \cup {NoManifest}]
      /\ \A k \in Job \ {cur} : manifest'[k] = manifest[k]
      /\ manifest[cur] # NoManifest => manifest'[cur] # NoManifest
      /\ cur \in late \/ RerunExisting \/ manifest'[cur].says # "continue" \/ manifest'[cur].of = cur
  BY <1>1, <1>4, Keeps DEF JobExits
<1>6. stray' \in [Job -> Stray \cup {NoStray}] /\ \A k \in Job \ {cur} : stray'[k] = stray[k]
  BY <1>1, Keeps DEF JobExits
<1>7. code' \in {"ok", "error", "environment"}
  BY DEF JobExits
<1>8. Trying
  BY <1>1, <1>2, <1>3, <1>5, <1>6, <1>7, Keeps DEF Trying, Attempting
<1> QED
  BY <1>8, TryingInv

LEMMA RejectInv == ASSUME QueueInv, Reject PROVE QueueInv'
PROOF
<1>1. qpc \in Attempting /\ qpc' = "select" /\ Verdict # "" /\ failure' = Verdict
  BY DEF Reject, Attempting
<1>2. UNCHANGED <<unresolved, manifest, stray, orphans, late, fileEdits, copy, entry, healed, cur,
                  modes, code, during, accepted, outcome, queueRuns, queueTroubles>>
  BY DEF Reject, jobFiles, entries, history, queueBounds
<1>3. AttemptsOK'
  BY <1>2 DEF AttemptsOK, QueueInv, QueueTypeOK
<1>4. Verdict \in Failure
  BY <1>1, Keeps, VerdictType DEF QueueInv, QueueTypeOK
<1>5. Trying
  BY <1>1, <1>2, <1>3, <1>4, Keeps DEF Trying, Attempting
<1> QED
  BY <1>5, TryingInv

LEMMA RecoverInv == ASSUME QueueInv, Recover PROVE QueueInv'
PROOF
<1>1. qpc \in Attempting /\ qpc' = "run" /\ failure # ""
  BY DEF Recover, Attempting, QueueInv
<1>2. UNCHANGED <<unresolved, manifest, stray, orphans, late, fileEdits, copy, entry, healed, cur,
                  code, failure, during, accepted, outcome, queueRuns, queueTroubles>>
  BY DEF Recover, jobFiles, entries, history, queueBounds
<1>3. failure \in Failure
  BY <1>1, Keeps
<1>4. AttemptsOK'
  <2>1. AttemptsOK
    BY DEF QueueInv, QueueTypeOK
  <2>2. PICK mode \in NextMode : modes' = Append(modes, mode)
    BY DEF Recover
  <2>3. /\ Append(modes, mode) \in Seq(RecoveryMode \cup {"primary"})
        /\ Len(Append(modes, mode)) <= MaxAttempts
    BY <1>3, <2>1, NextAttemptOK
  <2> QED
    BY <2>2, <2>3 DEF AttemptsOK
<1>5. Trying
  BY <1>1, <1>2, <1>4, Keeps DEF Trying, Attempting
<1> QED
  BY <1>5, TryingInv

LEMMA HealInv == ASSUME QueueInv, Heal PROVE QueueInv'
PROOF
<1>1. qpc \in Attempting /\ qpc # "idle"
  BY DEF Heal, Attempting
<1>2. PICK m \in Found :
        /\ manifest' = [manifest EXCEPT ![cur] = m]
        /\ \/ /\ m.says = "continue"
              /\ healed' = healed \cup {cur}
              /\ Finish("completed")
           \/ /\ m.says # "continue"
              /\ failure' = Verdict
              /\ qpc' = "select"
              /\ UNCHANGED <<unresolved, stray, orphans, late, fileEdits, copy, entries, cur, modes,
                             code, history, outcome, queueBounds>>
  BY DEF Heal
<1>3. FilesOK /\ PassOK /\ cur \in Job /\ cur \in Selected
  BY <1>1, Keeps DEF QueueInv, QueueTypeOK
<1>4. m \in Manifest /\ m # NoManifest /\ (stray[cur].in = "output" => m.of = cur)
  BY <1>3, FoundFacts
<1>5. /\ manifest' \in [Job -> Manifest \cup {NoManifest}]
      /\ \A k \in Job \ {cur} : manifest'[k] = manifest[k]
      /\ manifest'[cur] = m
  BY <1>1, <1>2, <1>3, <1>4, Keeps
<1>6. CASE m.says = "continue"
  <2>1. healed' = healed \cup {cur} /\ Finish("completed")
    BY <1>2, <1>6
  <2>2. healed \in SUBSET Job
    BY <1>3 DEF PassOK
  <2>3. healed' \in SUBSET Job /\ cur \in healed' /\ \A k \in Job \ {cur} : k \in healed' <=> k \in healed
    BY <1>3, <2>1, <2>2
  <2>4. "completed" \in Final \ {""}
    BY DEF Final
  <2>5. Finishing("completed")
    BY <1>1, <1>3, <1>4, <1>5, <1>6, <2>1, <2>3, <2>4 DEF Finishing
  <2> QED
    BY <2>5, FinishInv
<1>7. CASE m.says # "continue"
  <2>1. /\ failure' = Verdict /\ qpc' = "select"
        /\ UNCHANGED <<unresolved, stray, orphans, late, fileEdits, copy, entry, healed, cur, modes,
                       code, during, accepted, outcome, queueRuns, queueTroubles>>
    BY <1>2, <1>7 DEF entries, history, queueBounds
  <2>2. Verdict # ""
    BY DEF Heal, Searches
  <2>3. Verdict \in Failure
    BY <1>3, <2>2, VerdictType
  <2>4. AttemptsOK'
    BY <2>1 DEF AttemptsOK, QueueInv, QueueTypeOK
  <2>5. Trying
    BY <1>1, <1>4, <1>5, <1>7, <2>1, <2>2, <2>3, <2>4, Keeps DEF Trying, Attempting
  <2> QED
    BY <2>5, TryingInv
<1> QED
  BY <1>6, <1>7

LEMMA QueueStartsInv == ASSUME QueueInv, QueueStarts PROVE QueueInv'
PROOF
<1>1. FilesOK /\ PassOK /\ AttemptsOK /\ CountsOK
  BY DEF QueueInv, QueueTypeOK
<1>2. /\ entry' = [j \in Job |-> ""] /\ healed' = {} /\ during' = {} /\ modes' = <<>>
      /\ code' = "ok" /\ failure' = "" /\ qpc' = "entry" /\ outcome' = "" /\ copy' = fileEdits
      /\ UNCHANGED <<unresolved, manifest, stray, orphans, late, fileEdits, accepted, queueTroubles>>
  BY DEF QueueStarts, BeginPass, jobFiles
<1>3. cur' = 1 /\ queueRuns' = queueRuns + 1
  BY DEF QueueStarts, BeginPass
<1>4. FilesOK'
  BY <1>1, <1>2 DEF FilesOK
<1>5. PassOK'
  <2>1. entry' \in [Job -> Final]
    BY <1>2 DEF Final
  <2> QED
    BY <1>2, <2>1 DEF PassOK
<1>6. AttemptsOK'
  BY <1>2, NoAttemptOK DEF AttemptsOK
<1>7. CountsOK'
  <2>1. during' = {} /\ accepted' = accepted /\ queueTroubles' = queueTroubles
    BY <1>2
  <2> QED
    BY <1>1, <1>3, <2>1 DEF CountsOK
<1>8. EntriesInOrder'
  <2>1. \A j \in Job : ~(j < 1)
    BY QueueAssumption DEF Job
  <2> QED
    BY <1>2, <1>3, <2>1 DEF EntriesInOrder
<1>9. AttemptIsOwn' /\ AcceptedIsNotRepeated' /\ OutcomeAgrees' /\ CopyIsOld'
  BY <1>2 DEF AttemptIsOwn, AcceptedIsNotRepeated, OutcomeAgrees, CopyIsOld, Attempting
<1>10. ManifestsStay' /\ CompletedOnEvidence' /\ OwnManifestFirst'
  BY <1>2 DEF QueueInv, ManifestsStay, CompletedOnEvidence, OwnManifestFirst, Ended
<1> QED
  BY <1>2, <1>4, <1>5, <1>6, <1>7, <1>8, <1>9, <1>10 DEF QueueInv, QueueTypeOK

\* A step that leaves the jobs, their files and their entries as they are.
Resting ==
    /\ UNCHANGED <<unresolved, manifest, stray, late, entry, healed, cur, modes, code, failure, accepted>>
    /\ orphans' \in SUBSET Job /\ fileEdits' \in SUBSET Nat /\ during' \in SUBSET Nat
    /\ copy' = copy /\ queueRuns' = queueRuns /\ queueTroubles' \in Nat
    /\ qpc' \in {qpc, "idle", "report"}
    /\ outcome' \in {"", "completed", "blocked", "failed", "raised", "died"}

LEMMA RestingInv ==
    ASSUME QueueInv, Resting, OutcomeAgrees', CopyIsOld', EntriesInOrder'
    PROVE  QueueInv'
PROOF
<1>1. FilesOK /\ PassOK /\ AttemptsOK /\ CountsOK
  BY DEF QueueInv, QueueTypeOK
<1>2. FilesOK'
  BY <1>1 DEF FilesOK, Resting
<1>3. PassOK'
  BY <1>1 DEF PassOK, Resting
<1>4. AttemptsOK'
  BY <1>1 DEF AttemptsOK, Resting
<1>5. CountsOK'
  BY <1>1 DEF CountsOK, Resting
<1>6. AttemptIsOwn' /\ AcceptedIsNotRepeated' /\ (qpc' = "select" => failure' # "")
  BY DEF QueueInv, AttemptIsOwn, AcceptedIsNotRepeated, Attempting, Resting
<1>7. ManifestsStay' /\ CompletedOnEvidence' /\ OwnManifestFirst'
  BY DEF QueueInv, ManifestsStay, CompletedOnEvidence, OwnManifestFirst, Ended, Resting
<1> QED
  BY <1>2, <1>3, <1>4, <1>5, <1>6, <1>7 DEF QueueInv, QueueTypeOK

LEMMA WriteReportInv == ASSUME QueueInv, WriteReport PROVE QueueInv'
PROOF
<1>1. FilesOK /\ PassOK /\ AttemptsOK /\ CountsOK
  BY DEF QueueInv, QueueTypeOK
<1>2. qpc = "entry" /\ qpc' = "report" /\ cur \notin Selected
  BY DEF WriteReport
<1>3. UNCHANGED <<unresolved, manifest, stray, orphans, late, fileEdits, copy, entry, healed, cur,
                  modes, code, failure, during, accepted, outcome, queueRuns, queueTroubles>>
  BY DEF WriteReport, jobFiles, entries, attempt, history, queueBounds
<1>4. Resting
  BY <1>1, <1>2, <1>3 DEF Resting, FilesOK, PassOK, CountsOK
<1>5. EntriesInOrder' /\ CopyIsOld'
  BY <1>2, <1>3 DEF QueueInv, EntriesInOrder, CopyIsOld
<1>6. \A j \in Selected : entry[j] # ""
  <2>1. \A j \in Selected : j \in Job /\ j < cur
    BY <1>1, <1>2, SelectedJobs DEF CountsOK
  <2> QED
    BY <1>2, <2>1 DEF QueueInv, EntriesInOrder
<1>7. OutcomeAgrees'
  BY <1>2, <1>3, <1>6 DEF QueueInv, OutcomeAgrees
<1> QED
  BY <1>4, <1>5, <1>7, RestingInv

LEMMA EndOfPassInv ==
    ASSUME QueueInv, UpdateMissionState \/ UpdateRaises
    PROVE  QueueInv'
PROOF
<1>1. FilesOK /\ PassOK /\ AttemptsOK /\ CountsOK
  BY DEF QueueInv, QueueTypeOK
<1>2. qpc = "report" /\ qpc' = "idle"
  BY DEF UpdateMissionState, UpdateRaises
<1>3. UNCHANGED <<unresolved, manifest, stray, orphans, late, copy, entry, healed, cur,
                  modes, code, failure, during, accepted, queueRuns, queueTroubles>>
  BY DEF UpdateMissionState, UpdateRaises, jobFiles, entries, attempt, history, queueBounds
<1>4. fileEdits' \in {copy, fileEdits} /\ outcome' \in {"completed", "blocked", "failed", "raised"}
  BY DEF UpdateMissionState, UpdateRaises, QueueStatus
<1>5. Resting
  BY <1>1, <1>2, <1>3, <1>4 DEF Resting, FilesOK, CountsOK
<1>6. EntriesInOrder' /\ CopyIsOld'
  BY <1>2 DEF EntriesInOrder, CopyIsOld
<1>7. OutcomeAgrees'
  <2>1. ASSUME outcome' = "completed", NEW j \in Selected
        PROVE  entry[j] \in {"completed", "rerouted", "skipped"}
    <3>1. QueueStatus = "completed"
      BY <2>1 DEF UpdateMissionState, UpdateRaises
    <3>2. Ended("failed") = {} /\ BlockedJobs = {}
      BY <3>1 DEF QueueStatus
    <3>3. entry[j] \notin {"failed", "blocked", "unresolved"} /\ j \in Job
      BY <3>2, SelectedJobs DEF BlockedJobs, Ended
    <3>4. entry[j] # ""
      BY <1>2 DEF QueueInv, OutcomeAgrees
    <3> QED
      BY <1>1, <3>3, <3>4 DEF PassOK, Final
  <2> QED
    BY <1>2, <1>3, <2>1 DEF OutcomeAgrees
<1> QED
  BY <1>5, <1>6, <1>7, RestingInv

LEMMA QueueCrashInv == ASSUME QueueInv, QueueCrash PROVE QueueInv'
PROOF
<1>1. FilesOK /\ PassOK /\ AttemptsOK /\ CountsOK
  BY DEF QueueInv, QueueTypeOK
<1>2. UNCHANGED <<unresolved, manifest, stray, late, fileEdits, copy, entry, healed, cur, modes, code,
                  failure, during, accepted, queueRuns>>
  BY DEF QueueCrash, entries, attempt, history
<1>3. qpc' = "idle" /\ outcome' = "died"
  BY DEF QueueCrash
<1>4. queueTroubles' \in Nat
  BY <1>1 DEF CountsOK, QueueCrash
<1>5. orphans' \in SUBSET Job
  <2>1. qpc = "run" => cur \in Job
    BY Keeps DEF Attempting
  <2> QED
    BY <1>1, <2>1 DEF QueueCrash, FilesOK
<1>6. Resting
  BY <1>1, <1>2, <1>3, <1>4, <1>5 DEF Resting, FilesOK, CountsOK
<1>7. OutcomeAgrees' /\ CopyIsOld' /\ EntriesInOrder'
  BY <1>3 DEF OutcomeAgrees, CopyIsOld, EntriesInOrder
<1> QED
  BY <1>6, <1>7, RestingInv

LEMMA OthersEditInv == ASSUME QueueInv, OthersEdit PROVE QueueInv'
PROOF
<1>1. FilesOK /\ PassOK /\ AttemptsOK /\ CountsOK
  BY DEF QueueInv, QueueTypeOK
<1>2. UNCHANGED <<unresolved, manifest, stray, orphans, late, copy, entry, healed, cur, modes, code,
                  failure, accepted, qpc, outcome, queueRuns>>
  BY DEF OthersEdit, jobFiles, entries, attempt
<1>3. queueTroubles' \in Nat
  BY <1>1 DEF CountsOK, OthersEdit
<1>4. fileEdits' = fileEdits \cup {queueTroubles'}
  BY DEF OthersEdit
<1>5. during' = IF qpc = "idle" THEN during ELSE during \cup {queueTroubles'}
  BY DEF OthersEdit
<1>6. fileEdits' \in SUBSET Nat /\ during' \in SUBSET Nat
  BY <1>1, <1>3, <1>4, <1>5 DEF FilesOK, CountsOK
<1>7. Resting
  BY <1>1, <1>2, <1>3, <1>6 DEF Resting, FilesOK, PassOK
<1>8. OutcomeAgrees' /\ EntriesInOrder'
  BY <1>2 DEF QueueInv, OutcomeAgrees, EntriesInOrder
<1>9. CopyIsOld'
  BY <1>2, <1>4, <1>5 DEF QueueInv, CopyIsOld
<1> QED
  BY <1>7, <1>8, <1>9, RestingInv

LEMMA OrphanExitsInv == ASSUME QueueInv, NEW j \in Job, OrphanExits(j) PROVE QueueInv'
PROOF
<1>1. FilesOK /\ PassOK /\ AttemptsOK /\ CountsOK
  BY DEF QueueInv, QueueTypeOK
<1>2. UNCHANGED <<unresolved, stray, fileEdits, copy, entry, healed, cur, modes, code, failure, during,
                  accepted, qpc, outcome, queueRuns, queueTroubles>>
  BY DEF OrphanExits, entries, attempt, history, queueBounds
<1>3. late' = late \cup {j} /\ orphans' = orphans \ {j}
  BY DEF OrphanExits
<1>4. PICK m \in Writes(j) : manifest' = [manifest EXCEPT ![j] = m]
  BY DEF OrphanExits
<1>5. m \in Manifest
  <2>1. PICK q \in Assessed \cup {"malformed"} : m = [of |-> j, says |-> q]
    BY <1>4 DEF Writes
  <2> QED
    BY <2>1 DEF Manifest
<1>6. m # NoManifest
  BY <1>5, ManifestIsSome
<1>7. /\ manifest' \in [Job -> Manifest \cup {NoManifest}]
      /\ \A k \in Job \ {j} : manifest'[k] = manifest[k]
      /\ manifest'[j] # NoManifest
  BY <1>1, <1>4, <1>5, <1>6 DEF FilesOK
<1>8. FilesOK'
  BY <1>1, <1>2, <1>3, <1>7 DEF FilesOK
<1>9. PassOK' /\ AttemptsOK' /\ (qpc' = "select" => failure' # "")
  BY <1>1, <1>2 DEF PassOK, AttemptsOK, QueueInv
<1>10. CountsOK'
  BY <1>1, <1>2 DEF CountsOK
<1>11. EntriesInOrder' /\ OutcomeAgrees' /\ CopyIsOld' /\ AcceptedIsNotRepeated'
  BY <1>2 DEF QueueInv, EntriesInOrder, OutcomeAgrees, CopyIsOld, AcceptedIsNotRepeated
<1>12. AttemptIsOwn'
  <2>1. ASSUME qpc \in Attempting
        PROVE  /\ cur \in Selected
               /\ cur \in late' \/ RerunExisting \/ manifest'[cur].says # "continue" \/ manifest'[cur].of = cur
    BY <1>3, <1>7, <2>1, Keeps
  <2> QED
    BY <1>2, <2>1 DEF AttemptIsOwn
<1>13. ManifestsStay'
  <2>1. accepted \in SUBSET Job /\ ManifestsStay
    BY <1>1 DEF CountsOK, QueueInv
  <2>2. ASSUME NEW k \in Job, manifest[k] # NoManifest PROVE manifest'[k] # NoManifest
    BY <1>7, <2>2
  <2> QED
    BY <1>2, <2>1, <2>2 DEF ManifestsStay
<1>14. CompletedOnEvidence'
  BY <1>2, <1>3, <1>7 DEF QueueInv, CompletedOnEvidence, Ended
<1>15. OwnManifestFirst'
  BY <1>1, <1>2, <1>3, <1>7 DEF QueueInv, OwnManifestFirst, PassOK
<1> QED
  BY <1>8, <1>9, <1>10, <1>11, <1>12, <1>13, <1>14, <1>15 DEF QueueInv, QueueTypeOK

LEMMA QueueStepInv == QueueInv /\ [QueueNext]_queueVars => QueueInv'
PROOF
<1> SUFFICES ASSUME QueueInv, [QueueNext]_queueVars PROVE QueueInv'
  OBVIOUS
<1>1. CASE QueueStarts
  BY <1>1, QueueStartsInv
<1>2. CASE QueueStep
  BY <1>2, EntryInv, FirstAttemptInv, JobExitsInv, AcceptInv, HealInv, RejectInv, RecoverInv,
     GiveUpInv, WriteReportInv, EndOfPassInv DEF QueueStep
<1>3. CASE QueueCrash
  BY <1>3, QueueCrashInv
<1>4. ASSUME NEW j \in Job, OrphanExits(j) PROVE QueueInv'
  BY <1>4, OrphanExitsInv
<1>5. CASE OthersEdit
  BY <1>5, OthersEditInv
<1>6. CASE UNCHANGED queueVars
  <2>1. FilesOK' /\ PassOK' /\ AttemptsOK' /\ CountsOK'
    BY <1>6 DEF queueVars, QueueInv, QueueTypeOK, FilesOK, PassOK, AttemptsOK, CountsOK
  <2>2. EntriesInOrder' /\ AttemptIsOwn' /\ ManifestsStay' /\ OutcomeAgrees' /\ CopyIsOld'
    BY <1>6 DEF queueVars, QueueInv, EntriesInOrder, AttemptIsOwn, ManifestsStay, OutcomeAgrees, CopyIsOld
  <2>3. CompletedOnEvidence' /\ OwnManifestFirst' /\ AcceptedIsNotRepeated' /\ (qpc' = "select" => failure' # "")
    BY <1>6 DEF queueVars, QueueInv, CompletedOnEvidence, OwnManifestFirst, AcceptedIsNotRepeated, Ended
  <2> QED
    BY <2>1, <2>2, <2>3 DEF QueueInv, QueueTypeOK
<1> QED
  BY <1>1, <1>2, <1>3, <1>4, <1>5, <1>6 DEF QueueNext

LEMMA QueueInvHolds == QueueSpec => []QueueInv
PROOF
  BY QueueInitInv, QueueStepInv, PTL DEF QueueSpec

----------------------------------------------------------------------------
(* The results.                                                            *)

\* Every variable holds a value of its type, and no job is attempted more often
\* than the policy allows, for any policy.
THEOREM QueueTypes == QueueSpec => []QueueTypeOK
PROOF
<1>1. QueueInv => QueueTypeOK
  BY DEF QueueInv
<1> QED
  BY <1>1, QueueInvHolds, PTL

\* A completed job has a manifest that says to continue, its own or one the search
\* brought, whatever attempts, passes and deaths of the queue came before.
THEOREM CompletionsHaveEvidence == QueueSpec => []CompletedOnEvidence
PROOF
<1>1. QueueInv => CompletedOnEvidence
  BY DEF QueueInv
<1> QED
  BY <1>1, QueueInvHolds, PTL

\* The search prefers the manifest a job left in its own output directory.
THEOREM OwnManifestsComeFirst == QueueSpec => []OwnManifestFirst
PROOF
<1>1. QueueInv => OwnManifestFirst
  BY DEF QueueInv
<1> QED
  BY <1>1, QueueInvHolds, PTL

\* What a pass that returns "completed" rests on, for each job it took.
THEOREM CompletedQueuesAreBacked == QueueSpec => []CompletedIsBacked
PROOF
<1>1. QueueInv => CompletedIsBacked
  <2> SUFFICES ASSUME QueueInv, outcome = "completed", NEW j \in Selected \ late
               PROVE  \/ entry[j] = "completed" /\ manifest[j].says = "continue"
                      \/ entry[j] = "rerouted"
                      \/ entry[j] = "skipped" /\ manifest[j] # NoManifest
    BY DEF CompletedIsBacked
  <2>1. j \in Job
    BY SelectedJobs
  <2>2. entry[j] \in {"completed", "rerouted", "skipped"}
    BY DEF QueueInv, OutcomeAgrees
  <2>3. entry[j] = "completed" => manifest[j].says = "continue"
    BY <2>1 DEF QueueInv, CompletedOnEvidence, Ended
  <2>4. entry[j] = "skipped" => manifest[j] # NoManifest
    BY <2>1 DEF QueueInv, ManifestsStay
  <2> QED
    BY <2>2, <2>3, <2>4
<1> QED
  BY <1>1, QueueInvHolds, PTL

\* No later pass runs a job again that an earlier one completed, for any number of
\* deaths in between.
THEOREM AcceptedJobsRest == QueueSpec => []AcceptedIsNotRepeated
PROOF
<1>1. QueueInv => AcceptedIsNotRepeated
  BY DEF QueueInv
<1> QED
  BY <1>1, QueueInvHolds, PTL

\* The write at the end of a pass drops only edits made during the pass.
THEOREM OlderEditsStay == QueueSpec => OlderEditsAreKept
PROOF
<1>1. QueueInv /\ [QueueNext]_queueVars => [fileEdits \ fileEdits' \subseteq during]_queueVars
  <2> SUFFICES ASSUME QueueInv, QueueNext PROVE fileEdits \ fileEdits' \subseteq during
    OBVIOUS
  <2>1. CASE UpdateMissionState
    BY <2>1 DEF UpdateMissionState, QueueInv, CopyIsOld
  <2>2. CASE OthersEdit
    BY <2>2 DEF OthersEdit
  <2>3. ASSUME fileEdits' = fileEdits PROVE fileEdits \ fileEdits' \subseteq during
    BY <2>3
  <2>4. QueueNext => UpdateMissionState \/ OthersEdit \/ fileEdits' = fileEdits
    BY DEF QueueNext, QueueStep, QueueStarts, BeginPass, SkipJob, BlockUnresolved, SanityBlocks,
       FinishUntried, Finish, FirstAttempt, JobExits, Accept, Heal, Reject, Recover, GiveUpJob,
       WriteReport, UpdateRaises, QueueCrash, OrphanExits
  <2> QED
    BY <2>1, <2>2, <2>3, <2>4
<1> QED
  BY <1>1, QueueInvHolds, PTL DEF QueueSpec, OlderEditsAreKept
=============================================================================
