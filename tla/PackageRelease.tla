--------------------------- MODULE PackageRelease ---------------------------
(***************************************************************************)
(* The mission package: the packager that rebuilds it                      *)
(* (package_mission_artifacts in artifacts/artifact_packager.py, called by *)
(* the outer loop, the report-synthesis executor, the package command and  *)
(* the exporter), the release review and promotion written beside it       *)
(* (artifacts/release_automation.py, scripts/release/                      *)
(* review_release_candidate.py) and the submission export                  *)
(* (artifacts/submission_export.py).  The three share one directory and    *)
(* take no lock.                                                           *)
(*                                                                         *)
(* The mission's files are abstracted to what the package says about them: *)
(* the claim of each run manifest, the manifests elsewhere that a run or   *)
(* the ledger names, whether a run calls itself a follow-up, the ceilings  *)
(* the critique reports set and whether they give reasons, and whether     *)
(* findings exist and a required file is missing.  A digest is the content *)
(* it was computed from.                                                   *)
(***************************************************************************)
EXTENDS Integers, FiniteSets, FiniteSetsExt

CONSTANTS
  MissionFiles,      \* the states the mission's files can be in
  ReviewRecords,     \* what a reviews file may say of a required review
  RequiredReviews,   \* required_reviews of release-candidate-policy.yaml
  NotThere,           \* a file that is not there
  MaxEdits,          \* bound: how often agents change the mission's files
  MaxDeaths          \* bound: how often a process dies part way

VARIABLES
  files, package, packager, reviewer,
  overlapped,        \* a review and a packaging ran at once since the last removal
  shifted,           \* the files changed while the last package was read from them
  cut,               \* parts of the package are removed, others may be left
  edits, deaths

ghosts == <<overlapped, shifted, cut>>
releaseVars == <<files, package, packager, reviewer, ghosts, edits, deaths>>

(* CLAIM_ORDER *)
NotReady == -1
Exploratory == 0
Replicated == 1
PaperCandidate == 2
ReleaseCandidate == 3
Claims == NotReady..ReleaseCandidate

(* The outer loop, the report-synthesis executor and the package command   *)
(* only rebuild the package; the exporter rebuilds it and goes on. *)
ReleaseCallers == {"refresh", "export"}

----------------------------------------------------------------------------
(* What the package claims *)

(* _package_evidence_state over _max_claim_state: the best manifest, and   *)
(* "replicated" once two manifests exist and one is marked a repetition.   *)
EvidenceState(f) ==
  LET runs == DOMAIN f.claims
      best == IF runs = {} THEN Exploratory ELSE Max({f.claims[r] : r \in runs})
  IN  IF Cardinality(runs) >= 2 /\ f.followup THEN Max({best, Replicated}) ELSE best

(* _find_critique_ceiling: the lowest any critic allows. *)
Ceiling(f) == Min({ReleaseCandidate} \cup f.critiques)

PackageClaim(f) == Min({EvidenceState(f), Ceiling(f)})

(* all_required_artifacts_present: the named files, the recorded outputs   *)
(* and the categories the contract requires. *)
Complete(f) == ~f.missing /\ f.findings /\ DOMAIN f.claims # {}

(* paper_candidate_blockers other than human approval: the list an         *)
(* equivalent-rigor package must have empty. *)
PaperBlocked(f) ==
  \/ ~Complete(f)
  \/ PackageClaim(f) < Replicated
  \/ ~f.findings /\ ~f.reasons
  \/ f.reasons

(* The release_candidate_blockers no review and no floor clears: missing   *)
(* files and the critics' reasons. *)
ReleaseBlocked(f) == ~Complete(f) \/ f.reasons

Manifest(f, digest) ==
  [claim |-> PackageClaim(f), runs |-> DOMAIN f.claims, related |-> f.related, ceiling |-> Ceiling(f),
   complete |-> Complete(f), categories |-> Complete(f) /\ f.critiques # {},
   paperBlocked |-> PaperBlocked(f), releaseBlocked |-> ReleaseBlocked(f),
   digest |-> digest]

----------------------------------------------------------------------------
(* What a review decides *)

(* _normalize_review_records: a satisfied record counts only when it is    *)
(* signed, dated and explained, and comes from a person or from an agent   *)
(* with the review's own role. *)
ReviewSatisfied(record) ==
  /\ record # NotThere
  /\ record.satisfied
  /\ record.signed
  /\ \/ record.by = "human"
     \/ record.by = "agent" /\ record.roleMatches

MissingReviews(records) == {r \in RequiredReviews : ~ReviewSatisfied(records[r])}

FloorPassed(m) == \/ m.claim >= PaperCandidate
                  \/ m.claim = Replicated /\ ~m.paperBlocked

\* Mutant: the replication gate is dropped.
PromotableByOneRun(m, records) ==
  m.complete /\ FloorPassed(m) /\ m.categories /\ ~m.releaseBlocked
    /\ MissingReviews(records) = {}

(* The artifact map's manifests: the runs, and what they or the ledger name. *)
ManifestCount(m) == Cardinality(m.runs \cup m.related)

(* The gates of build_release_candidate_review; the blockers a review      *)
(* clears are exactly the required reviews, so the two gates on them meet. *)
Promotable(m, records) ==
  /\ m.complete
  /\ FloorPassed(m)
  /\ m.claim >= Replicated => ManifestCount(m) >= 2
  /\ m.categories
  /\ ~m.releaseBlocked
  /\ MissingReviews(records) = {}

(* A promotion names the build and the reviews it rests on. *)
Promotion(m, records) == [of |-> m, reviews |-> RequiredReviews \ MissingReviews(records)]

Review(m, records) == [of |-> m, records |-> records, promotable |-> Promotable(m, records)]

NoRecords == [r \in RequiredReviews |-> NotThere]

(* What a package may consist of: copies and digests of runs some state of *)
(* the mission lists, a manifest of them, and reviews of the manifest.     *)
Runs == UNION {DOMAIN f.claims : f \in MissionFiles}
Digests == UNION {[R -> Claims] : R \in SUBSET Runs}
Manifests == {Manifest(f, digest) : f \in MissionFiles, digest \in Digests}
RecordSets == [RequiredReviews -> ReviewRecords \cup {NotThere}]
Reviews == {Review(m, records) : m \in Manifests, records \in RecordSets}
Promotions == {Promotion(m, records) : m \in Manifests, records \in RecordSets}

ASSUME ReleaseAssumption ==
  /\ \A f \in MissionFiles : /\ f.claims \in [DOMAIN f.claims -> Claims]
                             /\ f.critiques \subseteq Claims
  /\ NotThere \notin Digests \cup Manifests \cup Reviews \cup Promotions \cup MissionFiles
  /\ MaxEdits \in Nat /\ MaxDeaths \in Nat

----------------------------------------------------------------------------
EmptyPackage == [copies |-> NotThere, manifest |-> NotThere, review |-> NotThere,
                 promotion |-> NotThere]
IdlePackager == [pc |-> "idle", by |-> "refresh", files |-> NotThere, digest |-> NotThere]
IdleReviewer == [pc |-> "idle", manifest |-> NotThere, records |-> NoRecords, promote |-> FALSE]

PackagerIdle == packager.pc = "idle"
ReviewerIdle == reviewer.pc = "idle"

ReleaseInit ==
  /\ files \in MissionFiles
  /\ package = EmptyPackage
  /\ packager = IdlePackager
  /\ reviewer = IdleReviewer
  /\ overlapped = FALSE /\ shifted = FALSE /\ cut = FALSE
  /\ edits = 0
  /\ deaths = 0

(* External: agents and executors go on writing the mission's files. *)
EditFiles ==
  /\ edits < MaxEdits
  /\ \E f \in MissionFiles \ {files} : files' = f
  /\ edits' = edits + 1
  /\ shifted' = (shifted \/ packager.pc \in {"digest", "copy"})
  /\ UNCHANGED <<package, packager, reviewer, overlapped, cut, deaths>>

----------------------------------------------------------------------------
(* The packager *)

\* Mutant: the new package is built over the old one.
StartPackagingInPlace(by) ==
  /\ PackagerIdle
  /\ packager' = [IdlePackager EXCEPT !.pc = "register", !.by = by]
  /\ overlapped' = (overlapped \/ ~ReviewerIdle)
  /\ UNCHANGED <<files, package, reviewer, shifted, cut, edits, deaths>>

(* The old package goes first, the review and the promotion in it too. *)
StartPackaging(by) ==
  /\ PackagerIdle
  /\ packager' = [IdlePackager EXCEPT !.pc = "remove", !.by = by]
  /\ overlapped' = (overlapped \/ ~ReviewerIdle)
  /\ UNCHANGED <<files, package, reviewer, shifted, cut, edits, deaths>>

(* _remove_tree: file by file, in no order, over what earlier attempts left. *)
RemovePart ==
  /\ packager.pc = "remove"
  /\ \/ \E part \in {p \in DOMAIN package : package[p] # NotThere} :
          package' = [package EXCEPT ![part] = NotThere]
     \/ /\ package.copies # NotThere
        /\ \E r \in DOMAIN package.copies :
             package' = [package EXCEPT !.copies = [q \in DOMAIN package.copies \ {r} |-> package.copies[q]]]
  /\ cut' = TRUE
  /\ UNCHANGED <<files, packager, reviewer, overlapped, shifted, edits, deaths>>

PackageRemoved ==
  /\ packager.pc = "remove" /\ package = EmptyPackage
  /\ packager' = [packager EXCEPT !.pc = "register"]
  /\ overlapped' = ~ReviewerIdle
  /\ cut' = FALSE
  /\ UNCHANGED <<files, package, reviewer, shifted, edits, deaths>>

(* Errors are ignored; what the third attempt leaves raises. *)
RemovalFails ==
  /\ packager.pc = "remove" /\ package # EmptyPackage
  /\ packager' = IdlePackager
  /\ UNCHANGED <<files, package, reviewer, ghosts, edits, deaths>>

(* Every artifact is looked up once; the manifests and the critiques are   *)
(* read here and nowhere later. *)
RegisterArtifacts ==
  /\ packager.pc = "register"
  /\ packager' = [packager EXCEPT !.pc = "digest", !.files = files]
  /\ shifted' = FALSE
  /\ UNCHANGED <<files, package, reviewer, overlapped, cut, edits, deaths>>

Registered == DOMAIN packager.files.claims
Vanished == Registered \ DOMAIN files.claims

(* The bytes are hashed from the sources ... *)
DigestArtifacts ==
  /\ packager.pc = "digest"
  /\ Vanished = {}
  /\ packager' = [packager EXCEPT !.pc = "copy",
                                  !.digest = [r \in Registered |-> files.claims[r]]]
  /\ UNCHANGED <<files, package, reviewer, ghosts, edits, deaths>>

(* ... and copied from the sources in a second pass. *)
CopyArtifacts ==
  /\ packager.pc = "copy"
  /\ Vanished = {}
  /\ package' = [package EXCEPT !.copies = [r \in Registered |-> files.claims[r]]]
  /\ packager' = [packager EXCEPT !.pc = "manifest"]
  /\ UNCHANGED <<files, reviewer, ghosts, edits, deaths>>

WriteManifest ==
  /\ packager.pc = "manifest"
  /\ package' = [package EXCEPT !.manifest = Manifest(packager.files, packager.digest)]
  /\ packager' = [packager EXCEPT !.pc = "review"]
  /\ UNCHANGED <<files, reviewer, ghosts, edits, deaths>>

(* The review of a fresh package knows of no review record; the summary is *)
(* written with it. *)
WritePackageReview ==
  /\ packager.pc = "review"
  /\ package' = [package EXCEPT
                   !.review = Review(Manifest(packager.files, packager.digest), NoRecords)]
  /\ packager' = IF packager.by = "export" THEN [packager EXCEPT !.pc = "export"]
                                           ELSE IdlePackager
  /\ UNCHANGED <<files, reviewer, ghosts, edits, deaths>>

(* export_submission_repository goes on from the package it just built: it *)
(* copies it into a tree of its own that no part of the system reads back,  *)
(* so the copy is not kept. *)
ExportPackage ==
  /\ packager.pc = "export"
  /\ packager' = IdlePackager
  /\ UNCHANGED <<files, package, reviewer, ghosts, edits, deaths>>

(* A registered file that is gone when it is hashed or copied raises: the  *)
(* package stays as far as it got. *)
PackagingFails ==
  /\ packager.pc \in {"digest", "copy"}
  /\ Vanished # {}
  /\ packager' = IdlePackager
  /\ UNCHANGED <<files, package, reviewer, ghosts, edits, deaths>>

(* External: the process dies, or the schema refuses what it built. *)
PackagerDies ==
  /\ ~PackagerIdle
  /\ deaths < MaxDeaths
  /\ packager' = IdlePackager
  /\ deaths' = deaths + 1
  /\ UNCHANGED <<files, package, reviewer, ghosts, edits>>

----------------------------------------------------------------------------
(* The review command *)

StartReview(records, promote) ==
  /\ ReviewerIdle
  /\ package.manifest # NotThere
  /\ reviewer' = [pc |-> "review", manifest |-> package.manifest,
                  records |-> records, promote |-> promote]
  /\ overlapped' = (overlapped \/ ~PackagerIdle)
  /\ UNCHANGED <<files, package, packager, shifted, cut, edits, deaths>>

MaterializeReview ==
  /\ reviewer.pc = "review"
  /\ LET review == Review(reviewer.manifest, reviewer.records) IN
       /\ package' = [package EXCEPT !.review = review]
       /\ reviewer' = IF reviewer.promote /\ review.promotable
                      THEN [reviewer EXCEPT !.pc = "promote"] ELSE IdleReviewer
  /\ UNCHANGED <<files, packager, ghosts, edits, deaths>>

Promote ==
  /\ reviewer.pc = "promote"
  /\ package' = [package EXCEPT !.promotion = Promotion(reviewer.manifest, reviewer.records)]
  /\ reviewer' = [reviewer EXCEPT !.pc = "again"]
  /\ UNCHANGED <<files, packager, ghosts, edits, deaths>>

(* The review is written once more, now naming the promotion. *)
MaterializeAgain ==
  /\ reviewer.pc = "again"
  /\ package' = [package EXCEPT !.review = Review(reviewer.manifest, reviewer.records)]
  /\ reviewer' = IdleReviewer
  /\ UNCHANGED <<files, packager, ghosts, edits, deaths>>

(* External.  A file is written in place: the one it dies over is torn,    *)
(* which nobody can read, and so not there.                                *)
ReviewerDies ==
  /\ ~ReviewerIdle
  /\ deaths < MaxDeaths
  /\ package' \in {package, IF reviewer.pc = "promote" THEN [package EXCEPT !.promotion = NotThere]
                                                       ELSE [package EXCEPT !.review = NotThere]}
  /\ reviewer' = IdleReviewer
  /\ deaths' = deaths + 1
  /\ UNCHANGED <<files, packager, ghosts, edits>>

ReleaseNext ==
  \/ EditFiles
  \/ \E by \in ReleaseCallers : StartPackaging(by)
  \/ RemovePart \/ PackageRemoved \/ RemovalFails
  \/ RegisterArtifacts \/ DigestArtifacts \/ CopyArtifacts
  \/ WriteManifest \/ WritePackageReview \/ ExportPackage
  \/ PackagingFails \/ PackagerDies
  \/ \E records \in [RequiredReviews -> ReviewRecords \cup {NotThere}], promote \in BOOLEAN :
       StartReview(records, promote)
  \/ MaterializeReview \/ Promote \/ MaterializeAgain \/ ReviewerDies

ReleaseSpec == ReleaseInit /\ [][ReleaseNext]_releaseVars

----------------------------------------------------------------------------
ReleaseTypeOK ==
  /\ files \in MissionFiles
  /\ packager.pc \in {"idle", "remove", "register", "digest", "copy", "manifest", "review", "export"}
  /\ packager.by \in ReleaseCallers
  /\ packager.files \in MissionFiles \cup {NotThere}
  /\ reviewer.pc \in {"idle", "review", "promote", "again"}
  /\ package.manifest = NotThere \/ package.manifest.claim \in Claims
  /\ {overlapped, shifted, cut} \subseteq BOOLEAN
  /\ edits \in 0..MaxEdits /\ deaths \in 0..MaxDeaths

There(part) == package[part] # NotThere

(* What lies in one package directory is of one build, however the builds  *)
(* before it ended: copies are of runs the manifest lists, the review and  *)
(* the promotion are of that manifest and of each other's; and unless a    *)
(* removal was cut short, which nothing in the package shows, a manifest   *)
(* has all its copies, and a review or a promotion its manifest.  A review *)
(* command that overlaps a packaging takes no lock and can break this.     *)
PackageIsOneBuild ==
  ~overlapped =>
    /\ There("manifest") =>
         /\ There("copies") => DOMAIN package.copies \subseteq package.manifest.runs
         /\ There("review") => package.review.of = package.manifest
         /\ There("promotion") => package.promotion.of = package.manifest
    /\ There("review") /\ There("promotion") => package.review.of = package.promotion.of
    /\ ~cut =>
         /\ There("manifest") => There("copies") /\ DOMAIN package.copies = package.manifest.runs
         /\ There("review") \/ There("promotion") => There("manifest")

(* The best state a set of claims supports: "replicated" takes two runs.   *)
SupportedBy(claims) ==
  LET best == IF DOMAIN claims = {} THEN Exploratory ELSE Max({claims[r] : r \in DOMAIN claims})
  IN  IF Cardinality(DOMAIN claims) >= 2 THEN Max({best, Replicated}) ELSE best

(* No interleaving promotes what the policy keeps back: the build a        *)
(* promotion names had two manifests, its own runs' or others it refers    *)
(* to, claimed at least replicated evidence and no more than its critics   *)
(* allowed, and every required review was satisfied when its command read  *)
(* the records.  And what lies beside it is what was promoted: unless a    *)
(* command overlapped, the files changed while they were read, or a        *)
(* removal was cut short, the copies are those that were hashed, and they  *)
(* support the claim.                                                      *)
PromotionIsEarned ==
  LET m == package.promotion.of IN
    There("promotion") =>
      /\ package.promotion.reviews = RequiredReviews
      /\ ManifestCount(m) >= 2
      /\ m.claim >= Replicated /\ m.claim <= m.ceiling
      /\ ~(overlapped \/ shifted \/ cut) =>
           package.copies = m.digest /\ m.claim <= SupportedBy(package.copies)
=============================================================================
