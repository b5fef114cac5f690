---------------------------- MODULE ResearchProofs ----------------------------
(***************************************************************************)
(* Proofs about what turns runs into research results: the package and its *)
(* release, the research memory, the gate, training runs, the acceptance   *)
(* criteria, the self-correction, the sweep and the stage runs.  Each part *)
(* has the inductive invariant of its component, one lemma per action and  *)
(* the theorem of the property the run `research' checks.                  *)
(***************************************************************************)
EXTENDS MCResearch, FiniteSetTheorems, WellFoundedInduction, TLAPS

\* A set of numbers that is not empty has a least one.
LEMMA LeastOf ==
    ASSUME NEW T \in SUBSET Nat, T # {}
    PROVE  \E x \in T : \A y \in T : x <= y
PROOF
<1> DEFINE R == {ss \in Nat \X Nat : ss[1] < ss[2]}
<1>1. IsWellFoundedOn(R, Nat)
  BY NatLessThanWellFounded DEF OpToRel
<1>2. PICK x \in T : \A y \in T : ~(<<y, x>> \in R)
  BY <1>1, WFMin
<1>3. ASSUME NEW y \in T
      PROVE  x <= y
  <2>1. x \in Nat /\ y \in Nat /\ <<y, x>> \notin R
    BY <1>2
  <2>2. ~(y < x)
    BY <2>1
  <2> QED
    BY <2>1, <2>2
<1> QED
  BY <1>3

----------------------------------------------------------------------------
(* The package and its release: what is built.                             *)

\* A set of claims that is not empty has a lowest and a highest one.
LEMMA ClaimBounds ==
    ASSUME NEW S \in SUBSET Claims, S # {}
    PROVE  /\ Min(S) \in S /\ \A y \in S : Min(S) <= y
           /\ Max(S) \in S /\ \A y \in S : Max(S) >= y
PROOF
<1> USE DEF Claims, NotReady, ReleaseCandidate
<1>0. \A y \in S : y \in Int /\ -1 <= y /\ y <= 3
  BY Z3
<1>1. \E x \in S : \A y \in S : x <= y
  <2>1. CASE -1 \in S
    BY <1>0, <2>1
  <2>2. CASE -1 \notin S /\ 0 \in S
    BY <1>0, <2>2
  <2>3. CASE -1 \notin S /\ 0 \notin S /\ 1 \in S
    BY <1>0, <2>3
  <2>4. CASE -1 \notin S /\ 0 \notin S /\ 1 \notin S /\ 2 \in S
    BY <1>0, <2>4
  <2>5. CASE -1 \notin S /\ 0 \notin S /\ 1 \notin S /\ 2 \notin S
    <3>1. \A y \in S : y = 3
      BY <1>0, <2>5
    <3>2. PICK z \in S : TRUE
      OBVIOUS
    <3>3. \A y \in S : z = y /\ z \in Int
      BY <1>0, <3>1, <3>2
    <3>4. \A y \in S : z <= y
      BY <3>3
    <3> QED
      BY <3>2, <3>4
  <2> QED
    BY <2>1, <2>2, <2>3, <2>4, <2>5
<1>2. \E x \in S : \A y \in S : x >= y
  <2>1. CASE 3 \in S
    BY <1>0, <2>1
  <2>2. CASE 3 \notin S /\ 2 \in S
    BY <1>0, <2>2
  <2>3. CASE 3 \notin S /\ 2 \notin S /\ 1 \in S
    BY <1>0, <2>3
  <2>4. CASE 3 \notin S /\ 2 \notin S /\ 1 \notin S /\ 0 \in S
    BY <1>0, <2>4
  <2>5. CASE 3 \notin S /\ 2 \notin S /\ 1 \notin S /\ 0 \notin S
    <3>1. \A y \in S : y = -1
      BY <1>0, <2>5
    <3>2. PICK z \in S : TRUE
      OBVIOUS
    <3>3. \A y \in S : z = y /\ z \in Int
      BY <1>0, <3>1, <3>2
    <3>4. \A y \in S : z >= y
      BY <3>3
    <3> QED
      BY <3>2, <3>4
  <2> QED
    BY <2>1, <2>2, <2>3, <2>4, <2>5
<1> QED
  BY <1>1, <1>2 DEF Min, Max

\* A package claims no more than its critics allow, and no more than its runs support.
LEMMA ClaimFacts ==
    ASSUME NEW f \in MissionFiles
    PROVE  /\ PackageClaim(f) \in Claims /\ Ceiling(f) \in Claims
           /\ PackageClaim(f) <= Ceiling(f)
           /\ PackageClaim(f) <= SupportedBy(f.claims)
PROOF
<1>1. f.claims \in [DOMAIN f.claims -> Claims] /\ f.critiques \subseteq Claims
  BY ReleaseAssumption
<1>2. {NotReady, Exploratory, Replicated, ReleaseCandidate} \subseteq Claims
  BY DEF Claims, NotReady, Exploratory, Replicated, ReleaseCandidate
<1>3. Ceiling(f) \in Claims
  BY <1>1, <1>2, ClaimBounds DEF Ceiling
<1>4. EvidenceState(f) \in Claims /\ EvidenceState(f) <= SupportedBy(f.claims)
      /\ SupportedBy(f.claims) \in Claims
  <2> DEFINE runs == DOMAIN f.claims
             best == IF runs = {} THEN Exploratory ELSE Max({f.claims[r] : r \in runs})
  <2>1. best \in Claims
    <3>1. CASE runs = {}
      BY <3>1, <1>2
    <3>2. CASE runs # {}
      <4>1. {f.claims[r] : r \in runs} \in SUBSET Claims
        BY <1>1
      <4>2. {f.claims[r] : r \in runs} # {}
        BY <3>2
      <4> QED
        BY <3>2, <4>1, <4>2, ClaimBounds
    <3> QED
      BY <3>1, <3>2
  <2>2. Max({best, Replicated}) \in Claims /\ best <= Max({best, Replicated})
    <3> HIDE DEF best
    <3>1. {best, Replicated} \in SUBSET Claims /\ {best, Replicated} # {} /\ best \in {best, Replicated}
      BY <2>1, <1>2
    <3>2. Max({best, Replicated}) \in {best, Replicated} /\ Max({best, Replicated}) >= best
      BY <3>1, ClaimBounds
    <3>3. \A c \in Claims : c \in Int
      BY DEF Claims, NotReady, ReleaseCandidate
    <3> QED
      BY <2>1, <3>1, <3>2, <3>3
  <2>3. /\ EvidenceState(f) = IF Cardinality(runs) >= 2 /\ f.followup THEN Max({best, Replicated}) ELSE best
        /\ SupportedBy(f.claims) = IF Cardinality(runs) >= 2 THEN Max({best, Replicated}) ELSE best
    BY DEF EvidenceState, SupportedBy
  <2>4. \A c \in Claims : c \in Int /\ c <= c
    BY DEF Claims, NotReady, ReleaseCandidate
  <2> HIDE DEF best, runs
  <2> QED
    BY <2>1, <2>2, <2>3, <2>4
<1>5. PackageClaim(f) \in Claims /\ PackageClaim(f) <= Ceiling(f) /\ PackageClaim(f) <= EvidenceState(f)
  <2>1. {EvidenceState(f), Ceiling(f)} \in SUBSET Claims /\ {EvidenceState(f), Ceiling(f)} # {}
    BY <1>3, <1>4
  <2> QED
    BY <2>1, ClaimBounds DEF PackageClaim
<1>6. \A c \in Claims : c \in Int
  BY DEF Claims, NotReady, ReleaseCandidate
<1>7. PackageClaim(f) <= SupportedBy(f.claims)
  BY <1>4, <1>5, <1>6
<1> QED
  BY <1>3, <1>5, <1>7

\* So does every manifest.
LEMMA ManifestFacts ==
    ASSUME NEW m \in Manifests
    PROVE  /\ m.claim \in Claims /\ m.ceiling \in Claims /\ m.claim <= m.ceiling
           /\ m.claim \in Int
PROOF
<1>1. PICK f \in MissionFiles, digest \in Digests : m = Manifest(f, digest)
  BY DEF Manifests
<1>2. m.claim = PackageClaim(f) /\ m.ceiling = Ceiling(f)
  BY <1>1 DEF Manifest
<1>3. \A c \in Claims : c \in Int
  BY DEF Claims, NotReady, ReleaseCandidate
<1> QED
  BY <1>2, <1>3, ClaimFacts

\* What the gates of a review let through.
LEMMA PromotableFacts ==
    ASSUME NEW m \in Manifests, NEW recs, Promotable(m, recs)
    PROVE  /\ ManifestCount(m) >= 2
           /\ m.claim >= Replicated /\ m.claim <= m.ceiling
           /\ MissingReviews(recs) = {}
PROOF
<1>1. m.claim \in Int /\ m.claim <= m.ceiling
  BY ManifestFacts
<1>2. FloorPassed(m)
  BY DEF Promotable
<1>3. m.claim >= Replicated
  BY <1>1, <1>2 DEF FloorPassed, Replicated, PaperCandidate
<1> QED
  BY <1>1, <1>3 DEF Promotable

----------------------------------------------------------------------------
(* Types of the package, the packager and the reviewer.                    *)

Packages == [copies : Digests \cup {NotThere}, manifest : Manifests \cup {NotThere},
             review : Reviews \cup {NotThere}, promotion : Promotions \cup {NotThere}]
Packagers == [pc : {"idle", "remove", "register", "digest", "copy", "manifest", "review", "export"},
              by : ReleaseCallers, files : MissionFiles \cup {NotThere},
              digest : Digests \cup {NotThere}]
Reviewers == [pc : {"idle", "review", "promote", "again"}, manifest : Manifests \cup {NotThere},
              records : RecordSets, promote : BOOLEAN]

ReleaseTypes ==
    /\ files \in MissionFiles
    /\ package \in Packages
    /\ packager \in Packagers
    /\ packager.pc \notin {"idle", "remove", "register"} => packager.files \in MissionFiles
    /\ packager.pc \in {"copy", "manifest", "review"} => packager.digest \in Digests
    /\ reviewer \in Reviewers
    /\ reviewer.pc # "idle" => reviewer.manifest \in Manifests
    /\ overlapped \in BOOLEAN /\ shifted \in BOOLEAN /\ cut \in BOOLEAN
    /\ edits \in 0..MaxEdits /\ deaths \in 0..MaxDeaths

LEMMA ReleaseInitTypes == ReleaseInit => ReleaseTypes
PROOF
<1> SUFFICES ASSUME ReleaseInit PROVE ReleaseTypes
  OBVIOUS
<1>1. EmptyPackage \in Packages
  BY DEF EmptyPackage, Packages
<1>2. IdlePackager \in Packagers /\ IdlePackager.pc = "idle"
  BY DEF IdlePackager, Packagers, ReleaseCallers
<1>3. IdleReviewer \in Reviewers /\ IdleReviewer.pc = "idle"
  BY DEF IdleReviewer, Reviewers, NoRecords, RecordSets
<1>4. edits \in 0..MaxEdits /\ deaths \in 0..MaxDeaths
  BY ReleaseAssumption DEF ReleaseInit
<1> QED
  BY <1>1, <1>2, <1>3, <1>4 DEF ReleaseInit, ReleaseTypes

\* What is read from the mission's files.
LEMMA DigestType ==
    ASSUME ReleaseTypes, packager.files \in MissionFiles, Vanished = {}
    PROVE  [r \in Registered |-> files.claims[r]] \in Digests
PROOF
<1>1. Registered \subseteq DOMAIN files.claims
  BY DEF Vanished
<1>2. files.claims \in [DOMAIN files.claims -> Claims]
  BY ReleaseAssumption DEF ReleaseTypes
<1>3. Registered \in SUBSET Runs
  BY DEF Registered, Runs
<1>4. [r \in Registered |-> files.claims[r]] \in [Registered -> Claims]
  BY <1>1, <1>2
<1> QED
  BY <1>3, <1>4 DEF Digests

\* A part of the package that is removed, or a copy in it.
LEMMA RemovePartType ==
    ASSUME package \in Packages, RemovePart
    PROVE  package' \in Packages
PROOF
<1>1. CASE \E part \in DOMAIN package : package' = [package EXCEPT ![part] = NotThere]
  <2>1. PICK part \in DOMAIN package : package' = [package EXCEPT ![part] = NotThere]
    BY <1>1
  <2>2. part \in {"copies", "manifest", "review", "promotion"}
    BY <2>1 DEF Packages
  <2> QED
    BY <2>1, <2>2 DEF Packages
<1>2. CASE package.copies # NotThere /\ \E r \in DOMAIN package.copies :
             package' = [package EXCEPT !.copies =
                           [q \in DOMAIN package.copies \ {r} |-> package.copies[q]]]
  <2>1. PICK r \in DOMAIN package.copies :
             package' = [package EXCEPT !.copies =
                           [q \in DOMAIN package.copies \ {r} |-> package.copies[q]]]
    BY <1>2
  <2> DEFINE left == [q \in DOMAIN package.copies \ {r} |-> package.copies[q]]
  <2>2. PICK S \in SUBSET Runs : package.copies \in [S -> Claims]
    BY <1>2 DEF Packages, Digests
  <2>3. left \in [S \ {r} -> Claims] /\ S \ {r} \in SUBSET Runs
    BY <2>2
  <2>4. left \in Digests
    BY <2>3 DEF Digests
  <2> QED
    BY <2>1, <2>4 DEF Packages
<1> QED
  BY <1>1, <1>2 DEF RemovePart

LEMMA PackagerStepsType ==
    ASSUME ReleaseTypes,
           \/ \E by \in ReleaseCallers : StartPackaging(by)
           \/ RemovePart \/ PackageRemoved \/ RemovalFails
           \/ RegisterArtifacts \/ DigestArtifacts \/ CopyArtifacts
           \/ WriteManifest \/ WritePackageReview \/ ExportPackage
           \/ PackagingFails \/ PackagerDies
    PROVE  ReleaseTypes'
PROOF
<1>1. IdlePackager \in Packagers /\ IdlePackager.pc = "idle"
  BY DEF IdlePackager, Packagers, ReleaseCallers
<1> USE DEF ReleaseTypes
<1>2. CASE \E by \in ReleaseCallers : StartPackaging(by)
  <2>1. PICK by \in ReleaseCallers : StartPackaging(by)
    BY <1>2
  <2>2. packager' \in Packagers /\ packager'.pc = "remove"
    BY <2>1 DEF StartPackaging, IdlePackager, Packagers
  <2>3. overlapped' \in BOOLEAN
    BY <2>1 DEF StartPackaging, ReviewerIdle
  <2> QED
    BY <2>1, <2>2, <2>3 DEF StartPackaging, ghosts
<1>10. CASE RemovePart
  <2>1. package' \in Packages
    BY <1>10, RemovePartType
  <2> QED
    BY <1>10, <2>1 DEF RemovePart
<1>11. CASE PackageRemoved
  <2>1. packager' \in Packagers /\ packager'.pc = "register"
    BY <1>11 DEF PackageRemoved, Packagers
  <2>2. overlapped' \in BOOLEAN
    BY <1>11 DEF PackageRemoved, ReviewerIdle
  <2> QED
    BY <1>11, <2>1, <2>2 DEF PackageRemoved
<1>3. CASE RegisterArtifacts
  <2>1. packager' \in Packagers /\ packager'.pc = "digest" /\ packager'.files \in MissionFiles
    BY <1>3 DEF RegisterArtifacts, Packagers
  <2> QED
    BY <1>3, <2>1 DEF RegisterArtifacts
<1>4. CASE DigestArtifacts
  <2>1. packager.files \in MissionFiles
    BY <1>4 DEF DigestArtifacts
  <2>2. [r \in Registered |-> files.claims[r]] \in Digests
    BY <1>4, <2>1, DigestType DEF DigestArtifacts
  <2>3. /\ packager' \in Packagers /\ packager'.pc = "copy"
        /\ packager'.files \in MissionFiles /\ packager'.digest \in Digests
    BY <1>4, <2>1, <2>2 DEF DigestArtifacts, Packagers
  <2> QED
    BY <1>4, <2>3 DEF DigestArtifacts, ghosts
<1>5. CASE CopyArtifacts
  <2>1. packager.files \in MissionFiles /\ packager.digest \in Digests
    BY <1>5 DEF CopyArtifacts
  <2>2. [r \in Registered |-> files.claims[r]] \in Digests
    BY <1>5, <2>1, DigestType DEF CopyArtifacts
  <2>3. /\ packager' \in Packagers /\ packager'.pc = "manifest"
        /\ packager'.files \in MissionFiles /\ packager'.digest \in Digests
    BY <1>5, <2>1 DEF CopyArtifacts, Packagers
  <2>4. package' \in Packages
    BY <1>5, <2>2 DEF CopyArtifacts, Packages
  <2> QED
    BY <1>5, <2>3, <2>4 DEF CopyArtifacts, ghosts
<1>6. CASE WriteManifest
  <2>1. packager.files \in MissionFiles /\ packager.digest \in Digests
    BY <1>6 DEF WriteManifest
  <2>2. Manifest(packager.files, packager.digest) \in Manifests
    BY <2>1 DEF Manifests
  <2>3. /\ packager' \in Packagers /\ packager'.pc = "review"
        /\ packager'.files \in MissionFiles /\ packager'.digest \in Digests
    BY <1>6, <2>1 DEF WriteManifest, Packagers
  <2>4. package' \in Packages
    BY <1>6, <2>2 DEF WriteManifest, Packages
  <2> QED
    BY <1>6, <2>3, <2>4 DEF WriteManifest, ghosts
<1>7. CASE WritePackageReview
  <2>1. packager.files \in MissionFiles /\ packager.digest \in Digests
    BY <1>7 DEF WritePackageReview
  <2>2. Manifest(packager.files, packager.digest) \in Manifests /\ NoRecords \in RecordSets
    BY <2>1 DEF Manifests, NoRecords, RecordSets
  <2>3. Review(Manifest(packager.files, packager.digest), NoRecords) \in Reviews
    BY <2>2 DEF Reviews
  <2>4. package' \in Packages
    BY <1>7, <2>3 DEF WritePackageReview, Packages
  <2>5. packager' \in Packagers /\ packager'.pc \in {"export", "idle"}
        /\ (packager'.pc # "idle" => packager'.files \in MissionFiles)
    BY <1>1, <1>7, <2>1 DEF WritePackageReview, Packagers
  <2> QED
    BY <1>7, <2>4, <2>5 DEF WritePackageReview, ghosts
<1>8. CASE ExportPackage \/ PackagingFails \/ RemovalFails
  BY <1>1, <1>8 DEF ExportPackage, PackagingFails, RemovalFails, ghosts
<1>9. CASE PackagerDies
  <2>1. deaths' \in 0..MaxDeaths
    BY <1>9, ReleaseAssumption DEF PackagerDies
  <2> QED
    BY <1>1, <1>9, <2>1 DEF PackagerDies, ghosts
<1> QED
  BY <1>2, <1>3, <1>4, <1>5, <1>6, <1>7, <1>8, <1>9, <1>10, <1>11

\* A file of the package that is torn.
LEMMA TornPartType ==
    ASSUME package \in Packages
    PROVE  /\ [package EXCEPT !.promotion = NotThere] \in Packages
           /\ [package EXCEPT !.review = NotThere] \in Packages
BY DEF Packages

LEMMA ReviewerStepsType ==
    ASSUME ReleaseTypes,
           \/ EditFiles
           \/ \E recs \in RecordSets, promote \in BOOLEAN : StartReview(recs, promote)
           \/ MaterializeReview \/ Promote \/ MaterializeAgain \/ ReviewerDies
    PROVE  ReleaseTypes'
PROOF
<1>1. IdleReviewer \in Reviewers /\ IdleReviewer.pc = "idle"
  BY DEF IdleReviewer, Reviewers, NoRecords, RecordSets
<1> USE DEF ReleaseTypes
<1>2. CASE EditFiles
  <2>2. shifted' \in BOOLEAN
    BY <1>2 DEF EditFiles
  <2>1. edits' \in 0..MaxEdits
    BY <1>2, ReleaseAssumption DEF EditFiles
  <2> QED
    BY <1>2, <2>1, <2>2 DEF EditFiles
<1>3. CASE \E recs \in RecordSets, promote \in BOOLEAN : StartReview(recs, promote)
  <2>1. PICK recs \in RecordSets, promote \in BOOLEAN : StartReview(recs, promote)
    BY <1>3
  <2>2. package.manifest \in Manifests
    BY <2>1 DEF StartReview, Packages
  <2>3. reviewer' \in Reviewers /\ reviewer'.manifest \in Manifests
    BY <2>1, <2>2 DEF StartReview, Reviewers
  <2>4. overlapped' \in BOOLEAN
    BY <2>1 DEF StartReview, PackagerIdle
  <2> QED
    BY <2>1, <2>3, <2>4 DEF StartReview
<1>4. CASE MaterializeReview \/ MaterializeAgain
  <2>1. reviewer.manifest \in Manifests /\ reviewer.records \in RecordSets
    BY <1>4 DEF MaterializeReview, MaterializeAgain, Reviewers
  <2>2. Review(reviewer.manifest, reviewer.records) \in Reviews
    BY <2>1 DEF Reviews
  <2>3. package' \in Packages
    BY <1>4, <2>2 DEF MaterializeReview, MaterializeAgain, Packages
  <2>4. [reviewer EXCEPT !.pc = "promote"] \in Reviewers
        /\ [reviewer EXCEPT !.pc = "promote"].manifest = reviewer.manifest
    BY DEF Reviewers
  <2>5. reviewer' \in {[reviewer EXCEPT !.pc = "promote"], IdleReviewer}
    BY <1>4 DEF MaterializeReview, MaterializeAgain
  <2>6. reviewer' \in Reviewers /\ (reviewer'.pc # "idle" => reviewer'.manifest \in Manifests)
    BY <1>1, <2>1, <2>4, <2>5
  <2>7. UNCHANGED <<files, packager, overlapped, shifted, cut, edits, deaths>>
    BY <1>4 DEF MaterializeReview, MaterializeAgain, ghosts
  <2> QED
    BY <2>3, <2>6, <2>7
<1>5. CASE Promote
  <2>1. reviewer.manifest \in Manifests /\ reviewer.records \in RecordSets
    BY <1>5 DEF Promote, Reviewers
  <2>4. Promotion(reviewer.manifest, reviewer.records) \in Promotions
    BY <2>1 DEF Promotions
  <2>2. package' \in Packages
    BY <1>5, <2>4 DEF Promote, Packages
  <2>3. reviewer' \in Reviewers /\ reviewer'.manifest = reviewer.manifest
    BY <1>5 DEF Promote, Reviewers
  <2> QED
    BY <1>5, <2>1, <2>2, <2>3 DEF Promote, ghosts
<1>6. CASE ReviewerDies
  <2>2. package' \in Packages
    BY <1>6, Zenon, TornPartType DEF ReviewerDies
  <2>1. deaths' \in 0..MaxDeaths
    BY <1>6, ReleaseAssumption DEF ReviewerDies
  <2> QED
    BY <1>1, <1>6, <2>1, <2>2 DEF ReviewerDies, ghosts
<1> QED
  BY <1>2, <1>3, <1>4, <1>5, <1>6

LEMMA StepReleaseTypes ==
    ASSUME ReleaseTypes, [ReleaseNext]_releaseVars
    PROVE  ReleaseTypes'
PROOF
<1>1. CASE UNCHANGED releaseVars
  BY <1>1 DEF ReleaseTypes, releaseVars, ghosts
<1>2. CASE ReleaseNext
  BY <1>2, PackagerStepsType, ReviewerStepsType DEF ReleaseNext, RecordSets
<1> QED
  BY <1>1, <1>2

LEMMA ReleaseInvariance == ReleaseSpec => []ReleaseTypes
PROOF
<1> QED
  BY ReleaseInitTypes, StepReleaseTypes, PTL DEF ReleaseSpec

LEMMA ReleaseTypesImply == ReleaseTypes => ReleaseTypeOK
PROOF
<1> SUFFICES ASSUME ReleaseTypes PROVE ReleaseTypeOK
  OBVIOUS
<1>1. package.manifest = NotThere \/ package.manifest.claim \in Claims
  BY ManifestFacts DEF ReleaseTypes, Packages
<1> QED
  BY <1>1 DEF ReleaseTypes, ReleaseTypeOK, Packagers, Reviewers, ghosts

\* What lies in the package directory.
BuildHolds ==
    /\ There("manifest") =>
         /\ There("copies") => DOMAIN package.copies \subseteq package.manifest.runs
         /\ There("review") => package.review.of = package.manifest
         /\ There("promotion") => package.promotion.of = package.manifest
    /\ There("review") /\ There("promotion") => package.review.of = package.promotion.of
    /\ ~cut =>
         /\ There("manifest") => There("copies") /\ DOMAIN package.copies = package.manifest.runs
         /\ There("review") \/ There("promotion") => There("manifest")

\* Unless a review and a packaging have overlapped: they take turns, a package under way
\* has only the parts its packager has come to, and the reviewer's manifest is that of
\* the package it looks at.
BuildInv ==
    ~overlapped =>
      /\ PackagerIdle \/ ReviewerIdle
      /\ packager.pc \in {"register", "digest", "copy", "manifest"} =>
           /\ package.manifest = NotThere /\ package.review = NotThere
           /\ package.promotion = NotThere /\ ~cut
      /\ packager.pc = "manifest" =>
           package.copies # NotThere /\ DOMAIN package.copies = Registered
      /\ packager.pc = "review" =>
           /\ package.manifest = Manifest(packager.files, packager.digest)
           /\ package.promotion = NotThere /\ ~cut
      /\ ~ReviewerIdle => package.manifest = reviewer.manifest
      /\ BuildHolds

\* The parts of a package after a removal.
LEMMA RemovedParts ==
    ASSUME ReleaseTypes, RemovePart
    PROVE  /\ package'.manifest \in {package.manifest, NotThere}
           /\ package'.review \in {package.review, NotThere}
           /\ package'.promotion \in {package.promotion, NotThere}
           /\ package'.copies # NotThere =>
                /\ package.copies # NotThere
                /\ DOMAIN package'.copies \subseteq DOMAIN package.copies
PROOF
<1> USE DEF ReleaseTypes
<1>1. CASE \E part \in DOMAIN package : package' = [package EXCEPT ![part] = NotThere]
  <2>1. PICK part \in DOMAIN package : package' = [package EXCEPT ![part] = NotThere]
    BY <1>1
  <2>2. part \in {"copies", "manifest", "review", "promotion"}
    BY <2>1 DEF Packages
  <2> QED
    BY <2>1, <2>2 DEF Packages
<1>2. CASE package.copies # NotThere /\ \E r \in DOMAIN package.copies :
             package' = [package EXCEPT !.copies =
                           [q \in DOMAIN package.copies \ {r} |-> package.copies[q]]]
  <2>1. PICK r \in DOMAIN package.copies :
             package' = [package EXCEPT !.copies =
                           [q \in DOMAIN package.copies \ {r} |-> package.copies[q]]]
    BY <1>2
  <2> DEFINE left == [q \in DOMAIN package.copies \ {r} |-> package.copies[q]]
  <2>2. DOMAIN left \subseteq DOMAIN package.copies
    OBVIOUS
  <2> HIDE DEF left
  <2>3. /\ package'.copies = left /\ package'.manifest = package.manifest
        /\ package'.review = package.review /\ package'.promotion = package.promotion
    BY <2>1 DEF Packages, left
  <2> QED
    BY <1>2, <2>2, <2>3
<1> QED
  BY <1>1, <1>2 DEF RemovePart

LEMMA RemovalBuild ==
    ASSUME ReleaseTypes, BuildInv,
           \/ \E by \in ReleaseCallers : StartPackaging(by)
           \/ RemovePart \/ PackageRemoved \/ RemovalFails
    PROVE  BuildInv'
PROOF
<1>1. IdlePackager.pc = "idle"
  BY DEF IdlePackager
<1> SUFFICES ASSUME ~overlapped' PROVE BuildInv'
  BY DEF BuildInv
<1> USE DEF BuildInv, PackagerIdle, ReviewerIdle
<1>2. CASE \E by \in ReleaseCallers : StartPackaging(by)
  <2>1. /\ packager'.pc = "remove" /\ UNCHANGED <<package, cut>>
        /\ reviewer.pc = "idle" /\ reviewer' = reviewer /\ ~overlapped
    BY <1>2 DEF StartPackaging, IdlePackager
  <2> QED
    BY <2>1 DEF BuildHolds, There
<1>3. CASE RemovePart
  <2>1. /\ packager.pc = "remove" /\ reviewer.pc = "idle" /\ cut'
        /\ UNCHANGED <<packager, reviewer>> /\ ~overlapped
    BY <1>3 DEF RemovePart
  <2>2. /\ package'.manifest \in {package.manifest, NotThere}
        /\ package'.review \in {package.review, NotThere}
        /\ package'.promotion \in {package.promotion, NotThere}
        /\ package'.copies # NotThere =>
             /\ package.copies # NotThere
             /\ DOMAIN package'.copies \subseteq DOMAIN package.copies
    BY <1>3, RemovedParts
  <2>3. BuildHolds'
    BY <2>1, <2>2 DEF BuildHolds, There
  <2> QED
    BY <2>1, <2>3
<1>4. CASE PackageRemoved
  <2>1. /\ packager'.pc = "register" /\ package' = EmptyPackage
        /\ reviewer.pc = "idle" /\ reviewer' = reviewer /\ ~cut'
    BY <1>4 DEF PackageRemoved, ReleaseTypes, Packagers
  <2>2. (/\ package.manifest = NotThere /\ package.review = NotThere
         /\ package.promotion = NotThere)'
    BY <2>1 DEF EmptyPackage
  <2>3. BuildHolds'
    BY <2>1, <2>2 DEF BuildHolds, There
  <2> QED
    BY <2>1, <2>2, <2>3
<1>5. CASE RemovalFails
  <2>1. /\ packager'.pc = "idle" /\ UNCHANGED <<package, reviewer, cut>> /\ ~overlapped
    BY <1>1, <1>5 DEF RemovalFails, ghosts
  <2> QED
    BY <2>1 DEF BuildHolds, There
<1> QED
  BY <1>2, <1>3, <1>4, <1>5

LEMMA PackagerBuild ==
    ASSUME ReleaseTypes, BuildInv,
           \/ RegisterArtifacts \/ DigestArtifacts \/ CopyArtifacts
           \/ WriteManifest \/ WritePackageReview \/ ExportPackage
           \/ PackagingFails \/ PackagerDies
    PROVE  BuildInv'
PROOF
<1>1. IdlePackager.pc = "idle"
  BY DEF IdlePackager
<1> SUFFICES ASSUME ~overlapped' PROVE BuildInv'
  BY DEF BuildInv
<1> USE DEF BuildInv, PackagerIdle, ReviewerIdle
<1>3. CASE RegisterArtifacts \/ DigestArtifacts
  <2>1. /\ packager.pc \in {"register", "digest"} /\ packager'.pc \in {"digest", "copy"}
        /\ UNCHANGED <<package, reviewer, overlapped, cut>>
    BY <1>3 DEF RegisterArtifacts, DigestArtifacts, ReleaseTypes, Packagers, ghosts
  <2> QED
    BY <2>1 DEF BuildHolds, There
<1>4. CASE CopyArtifacts
  <2> DEFINE copies == [r \in Registered |-> files.claims[r]]
  <2>1. /\ packager.pc = "copy" /\ packager'.pc = "manifest" /\ packager'.files = packager.files
        /\ package' = [package EXCEPT !.copies = copies]
        /\ UNCHANGED <<reviewer, overlapped, cut>>
    BY <1>4 DEF CopyArtifacts, ReleaseTypes, Packagers, ghosts
  <2>2. copies \in Digests
    BY <1>4, DigestType DEF CopyArtifacts, ReleaseTypes
  <2>3. copies # NotThere /\ DOMAIN copies = Registered /\ Registered' = Registered
    BY <2>1, <2>2, ReleaseAssumption DEF Registered
  <2> HIDE DEF copies
  <2>4. /\ package'.copies = copies /\ package'.manifest = package.manifest
        /\ package'.review = package.review /\ package'.promotion = package.promotion
    BY <2>1 DEF ReleaseTypes, Packages
  <2>5. /\ package'.manifest = NotThere /\ package'.review = NotThere
        /\ package'.promotion = NotThere
    BY <2>1, <2>4
  <2> QED
    BY <2>1, <2>3, <2>4, <2>5 DEF BuildHolds, There
<1>5. CASE WriteManifest
  <2> DEFINE m == Manifest(packager.files, packager.digest)
  <2>1. /\ packager.pc = "manifest" /\ packager'.pc = "review"
        /\ packager'.files = packager.files /\ packager'.digest = packager.digest
        /\ package' = [package EXCEPT !.manifest = m]
        /\ UNCHANGED <<reviewer, overlapped, cut>>
    BY <1>5 DEF WriteManifest, ReleaseTypes, Packagers, ghosts
  <2>2. m.runs = Registered
    BY DEF Manifest, Registered
  <2>3. m = Manifest(packager.files, packager.digest)'
    BY <2>1 DEF Manifest
  <2> HIDE DEF m
  <2>4. /\ package'.copies = package.copies /\ package'.manifest = m
        /\ package'.review = package.review /\ package'.promotion = package.promotion
    BY <2>1 DEF ReleaseTypes, Packages
  <2>5. /\ package'.copies # NotThere /\ DOMAIN package'.copies = package'.manifest.runs
        /\ package'.review = NotThere /\ package'.promotion = NotThere
    BY <2>1, <2>2, <2>4
  <2> QED
    BY <2>1, <2>3, <2>4, <2>5 DEF BuildHolds, There
<1>6. CASE WritePackageReview
  <2> DEFINE m == Manifest(packager.files, packager.digest)
             v == Review(m, NoRecords)
  <2>1. /\ packager.pc = "review" /\ packager'.pc \in {"export", "idle"}
        /\ package' = [package EXCEPT !.review = v]
        /\ UNCHANGED <<reviewer, overlapped, cut>>
    BY <1>1, <1>6 DEF WritePackageReview, ReleaseTypes, Packagers, ghosts
  <2>2. v.of = m
    BY DEF Review
  <2>3. package.manifest = m /\ package.promotion = NotThere
    BY <2>1
  <2>5. m # NotThere
    <3>1. m \in Manifests
      BY <2>1 DEF ReleaseTypes, Manifests
    <3> QED
      BY <3>1, ReleaseAssumption
  <2> HIDE DEF v, m
  <2>4. /\ package'.copies = package.copies /\ package'.manifest = package.manifest
        /\ package'.review = v /\ package'.promotion = package.promotion
    BY <2>1 DEF ReleaseTypes, Packages
  <2> QED
    BY <2>1, <2>2, <2>3, <2>4, <2>5 DEF BuildHolds, There
<1>7. CASE ExportPackage \/ PackagingFails \/ PackagerDies
  BY <1>1, <1>7 DEF ExportPackage, PackagingFails, PackagerDies, BuildHolds, There, ghosts
<1> QED
  BY <1>3, <1>4, <1>5, <1>6, <1>7

LEMMA ReviewerBuild ==
    ASSUME ReleaseTypes, BuildInv,
           \/ EditFiles
           \/ \E recs \in RecordSets, promote \in BOOLEAN : StartReview(recs, promote)
           \/ MaterializeReview \/ Promote \/ MaterializeAgain \/ ReviewerDies
    PROVE  BuildInv'
PROOF
<1>1. IdleReviewer.pc = "idle"
  BY DEF IdleReviewer
<1> SUFFICES ASSUME ~overlapped' PROVE BuildInv'
  BY DEF BuildInv
<1> USE DEF BuildInv, PackagerIdle, ReviewerIdle
<1>2. CASE EditFiles
  BY <1>2 DEF EditFiles, BuildHolds, There, Registered
<1>3. CASE \E recs \in RecordSets, promote \in BOOLEAN : StartReview(recs, promote)
  <2>1. PICK recs \in RecordSets, promote \in BOOLEAN : StartReview(recs, promote)
    BY <1>3
  <2>2. /\ overlapped' = (overlapped \/ ~PackagerIdle) /\ packager' = packager
        /\ package' = package /\ cut' = cut
    BY <2>1 DEF StartReview
  <2>3. ~overlapped /\ packager.pc = "idle"
    BY <2>2, Zenon DEF ReleaseTypes
  <2>4. reviewer'.pc = "review" /\ reviewer'.manifest = package.manifest
    BY <2>1 DEF StartReview
  <2> QED
    BY <2>2, <2>3, <2>4 DEF BuildHolds, There
<1>4. CASE MaterializeReview \/ MaterializeAgain
  <2> DEFINE v == Review(reviewer.manifest, reviewer.records)
  <2>1. /\ reviewer.pc # "idle" /\ package' = [package EXCEPT !.review = v]
        /\ reviewer' \in {[reviewer EXCEPT !.pc = "promote"], IdleReviewer}
        /\ UNCHANGED <<packager, overlapped, cut>>
    BY <1>4 DEF MaterializeReview, MaterializeAgain, ghosts
  <2>2. v \in Reviews /\ v.of = reviewer.manifest
    BY <2>1 DEF Reviews, Review, ReleaseTypes, Reviewers
  <2>3. reviewer.manifest # NotThere
    BY <2>1, ReleaseAssumption DEF ReleaseTypes
  <2> HIDE DEF v
  <2>4. /\ package'.copies = package.copies /\ package'.manifest = package.manifest
        /\ package'.review = v /\ package'.promotion = package.promotion
    BY <2>1 DEF ReleaseTypes, Packages
  <2>5. reviewer'.pc # "idle" => reviewer'.manifest = reviewer.manifest /\ reviewer'.pc = "promote"
    BY <1>1, <2>1 DEF ReleaseTypes, Reviewers
  <2>6. packager.pc = "idle" /\ package.manifest = reviewer.manifest
    BY <2>1
  <2> QED
    BY <2>1, <2>2, <2>3, <2>4, <2>5, <2>6 DEF BuildHolds, There
<1>5. CASE Promote
  <2> DEFINE v == Promotion(reviewer.manifest, reviewer.records)
  <2>1. /\ reviewer.pc = "promote" /\ reviewer'.pc = "again" /\ reviewer'.manifest = reviewer.manifest
        /\ package' = [package EXCEPT !.promotion = v]
        /\ UNCHANGED <<packager, overlapped, cut>>
    BY <1>5 DEF Promote, ReleaseTypes, Reviewers, ghosts
  <2>2. v.of = reviewer.manifest
    BY DEF Promotion
  <2>3. reviewer.manifest # NotThere
    BY <2>1, ReleaseAssumption DEF ReleaseTypes
  <2> HIDE DEF v
  <2>4. /\ package'.copies = package.copies /\ package'.manifest = package.manifest
        /\ package'.review = package.review /\ package'.promotion = v
    BY <2>1 DEF ReleaseTypes, Packages
  <2>5. packager.pc = "idle" /\ package.manifest = reviewer.manifest
    BY <2>1
  <2> QED
    BY <2>1, <2>2, <2>3, <2>4, <2>5 DEF BuildHolds, There
<1>6. CASE ReviewerDies
  <2>1. /\ reviewer.pc # "idle" /\ reviewer'.pc = "idle" /\ UNCHANGED <<packager, overlapped, cut>>
    BY <1>1, <1>6 DEF ReviewerDies, ghosts
  <2>2. /\ package'.copies = package.copies /\ package'.manifest = package.manifest
        /\ package'.review \in {package.review, NotThere}
        /\ package'.promotion \in {package.promotion, NotThere}
    BY <1>6 DEF ReviewerDies, ReleaseTypes, Packages
  <2>3. packager.pc = "idle"
    BY <2>1
  <2> QED
    BY <2>1, <2>2, <2>3 DEF BuildHolds, There
<1> QED
  BY <1>2, <1>3, <1>4, <1>5, <1>6

LEMMA StepBuild ==
    ASSUME ReleaseTypes, BuildInv, [ReleaseNext]_releaseVars
    PROVE  BuildInv'
PROOF
<1>1. CASE UNCHANGED releaseVars
  BY <1>1 DEF BuildInv, BuildHolds, There, releaseVars, ghosts, PackagerIdle, ReviewerIdle, Registered
<1>2. CASE ReleaseNext
  BY <1>2, RemovalBuild, PackagerBuild, ReviewerBuild DEF ReleaseNext, RecordSets
<1> QED
  BY <1>1, <1>2

LEMMA InitBuild == ReleaseInit => BuildInv
BY DEF ReleaseInit, BuildInv, BuildHolds, There, PackagerIdle, ReviewerIdle, IdlePackager,
       IdleReviewer, EmptyPackage

\* However many builds were begun and cut off, in the removal of the package before them
\* too, and whatever changed under them: unless a review has overlapped a packaging,
\* copies, manifest, review and promotion in the package directory are of one build, and
\* unless a removal was cut short none of them is without what it rests on.
THEOREM PackagesAreOneBuild == ReleaseSpec => []PackageIsOneBuild
PROOF
<1>1. BuildInv => PackageIsOneBuild
  BY DEF BuildInv, BuildHolds, PackageIsOneBuild
<1> QED
  BY <1>1, InitBuild, StepBuild, ReleaseInvariance, PTL DEF ReleaseSpec

\* A reviewer that is about to promote, or has promoted, holds a manifest whose gates are
\* open; so was every promotion when it was written.
EarnedInv ==
    /\ reviewer.pc \in {"promote", "again"} => Promotable(reviewer.manifest, reviewer.records)
    /\ There("promotion") =>
         \E m \in Manifests, recs \in RecordSets :
           Promotable(m, recs) /\ package.promotion = Promotion(m, recs)

LEMMA StepEarned ==
    ASSUME ReleaseTypes, EarnedInv, [ReleaseNext]_releaseVars
    PROVE  EarnedInv'
PROOF
<1>1. IdleReviewer.pc = "idle"
  BY DEF IdleReviewer
<1>2. ASSUME UNCHANGED reviewer,
             package'.promotion \in {package.promotion, NotThere}
      PROVE  EarnedInv'
  BY <1>2 DEF EarnedInv, There
<1>3. CASE \/ UNCHANGED releaseVars \/ EditFiles
           \/ \E by \in ReleaseCallers : StartPackaging(by)
           \/ RemovePart \/ PackageRemoved \/ RemovalFails
           \/ RegisterArtifacts \/ DigestArtifacts \/ CopyArtifacts \/ WriteManifest
           \/ WritePackageReview \/ ExportPackage \/ PackagingFails \/ PackagerDies
  <2>1. package'.promotion \in {package.promotion, NotThere}
    <3>1. CASE RemovePart
      BY <3>1, RemovedParts
    <3>2. CASE ~RemovePart
      BY <1>3, <3>2 DEF releaseVars, ghosts, EditFiles, StartPackaging, PackageRemoved, RemovalFails,
                RegisterArtifacts, DigestArtifacts,
                CopyArtifacts, WriteManifest, WritePackageReview, ExportPackage, PackagingFails,
                PackagerDies, ReleaseTypes, Packages
    <3> QED
      BY <3>1, <3>2
  <2>2. UNCHANGED reviewer
    BY <1>3 DEF releaseVars, EditFiles, StartPackaging, RemovePart, PackageRemoved, RemovalFails,
                RegisterArtifacts, DigestArtifacts,
                CopyArtifacts, WriteManifest, WritePackageReview, ExportPackage, PackagingFails,
                PackagerDies
  <2> QED
    BY <1>2, <2>1, <2>2
<1>4. CASE \E recs \in RecordSets, promote \in BOOLEAN : StartReview(recs, promote)
  BY <1>4 DEF StartReview, EarnedInv, There
<1>5. CASE MaterializeReview
  <2>1. package'.promotion = package.promotion
    BY <1>5 DEF MaterializeReview, ReleaseTypes, Packages
  <2>2. \/ reviewer'.pc = "idle"
        \/ /\ Promotable(reviewer.manifest, reviewer.records)
           /\ reviewer'.manifest = reviewer.manifest /\ reviewer'.records = reviewer.records
    BY <1>1, <1>5 DEF MaterializeReview, Review, ReleaseTypes, Reviewers
  <2> QED
    BY <2>1, <2>2 DEF EarnedInv, There
<1>6. CASE Promote
  <2>1. /\ reviewer.pc = "promote" /\ reviewer.records \in RecordSets
        /\ reviewer.manifest \in Manifests
        /\ package'.promotion = Promotion(reviewer.manifest, reviewer.records)
        /\ reviewer'.manifest = reviewer.manifest /\ reviewer'.records = reviewer.records
    BY <1>6 DEF Promote, ReleaseTypes, Packages, Reviewers
  <2>2. Promotable(reviewer.manifest, reviewer.records)
    BY <2>1 DEF EarnedInv
  <2> QED
    BY <2>1, <2>2 DEF EarnedInv, There
<1>7. CASE MaterializeAgain \/ ReviewerDies
  <2>1. package'.promotion \in {package.promotion, NotThere} /\ reviewer'.pc = "idle"
    BY <1>1, <1>7 DEF MaterializeAgain, ReviewerDies, ReleaseTypes, Packages
  <2> QED
    BY <2>1 DEF EarnedInv, There
<1> QED
  BY <1>3, <1>4, <1>5, <1>6, <1>7 DEF ReleaseNext, RecordSets

\* What a packager has read is what it hashed and copied, unless a review overlapped it or
\* the files changed under it; and what it leaves is a manifest of its own copies, unless
\* a removal took some of them.
IsManifestOf(f) ==
    package.manifest = Manifest(f, f.claims) /\ package.copies = f.claims

ReadInv ==
    ~overlapped /\ ~shifted =>
      /\ packager.pc \in {"digest", "copy"} => files = packager.files
      /\ packager.pc \in {"copy", "manifest"} => packager.digest = packager.files.claims
      /\ packager.pc = "manifest" => package.copies = packager.files.claims
      /\ ~cut /\ There("manifest") => \E f \in MissionFiles : IsManifestOf(f)

\* A packager whose files did not change reads what is registered, whole.
LEMMA SameRead ==
    ASSUME ReleaseTypes, packager.files \in MissionFiles, files = packager.files
    PROVE  [r \in Registered |-> files.claims[r]] = packager.files.claims
PROOF
<1>1. files.claims \in [DOMAIN files.claims -> Claims]
  BY ReleaseAssumption
<1> QED
  BY <1>1 DEF Registered

LEMMA StepRead ==
    ASSUME ReleaseTypes, BuildInv, ReadInv, [ReleaseNext]_releaseVars
    PROVE  ReadInv'
PROOF
<1>0. IdlePackager.pc = "idle"
  BY DEF IdlePackager
<1> SUFFICES ASSUME ~overlapped', ~shifted' PROVE ReadInv'
  BY DEF ReadInv
<1>1. ASSUME UNCHANGED <<overlapped, shifted, packager, cut>>,
             files' = files \/ packager.pc \notin {"digest", "copy"},
             package'.copies = package.copies, package'.manifest = package.manifest
      PROVE  ReadInv'
  BY <1>1 DEF ReadInv, There, IsManifestOf
<1>2. CASE UNCHANGED releaseVars
  BY <1>1, <1>2 DEF releaseVars, ghosts
<1>3. CASE EditFiles
  <2>1. packager.pc \notin {"digest", "copy"} /\ ~shifted
    BY <1>3 DEF EditFiles
  <2>2. shifted' = shifted
    BY <1>3, <2>1 DEF EditFiles, ReleaseTypes
  <2> QED
    BY <1>1, <1>3, <2>1, <2>2 DEF EditFiles
<1>4. CASE \E by \in ReleaseCallers : StartPackaging(by)
  <2>1. /\ packager'.pc = "remove" /\ UNCHANGED <<package, cut, shifted, files>> /\ ~overlapped
    BY <1>4 DEF StartPackaging, IdlePackager
  <2> QED
    BY <2>1 DEF ReadInv, There, IsManifestOf
<1>5. CASE RemovePart
  BY <1>5 DEF RemovePart, ReadInv
<1>6. CASE PackageRemoved
  <2>1. packager'.pc = "register" /\ package' = EmptyPackage
    BY <1>6 DEF PackageRemoved, ReleaseTypes, Packagers
  <2>2. ~There("manifest")'
    BY <2>1 DEF There, EmptyPackage
  <2> QED
    BY <2>1, <2>2 DEF ReadInv
<1>7. CASE RemovalFails \/ ExportPackage \/ PackagingFails \/ PackagerDies
  <2>1. packager'.pc = "idle" /\ UNCHANGED <<package, ghosts>>
    BY <1>0, <1>7 DEF RemovalFails, ExportPackage, PackagingFails, PackagerDies
  <2> QED
    BY <2>1 DEF ReadInv, There, IsManifestOf, ghosts
<1>8. CASE RegisterArtifacts
  <2>1. /\ packager.pc = "register" /\ packager'.pc = "digest" /\ packager'.files = files
        /\ UNCHANGED <<files, package, overlapped, cut>>
    BY <1>8 DEF RegisterArtifacts, ReleaseTypes, Packagers
  <2>2. package'.manifest = NotThere
    BY <2>1 DEF BuildInv
  <2> QED
    BY <2>1, <2>2 DEF ReadInv, There
<1>9. CASE DigestArtifacts
  <2>1. /\ packager.pc = "digest" /\ packager'.pc = "copy" /\ packager'.files = packager.files
        /\ packager'.digest = [r \in Registered |-> files.claims[r]]
        /\ UNCHANGED <<files, package, overlapped, shifted, cut>>
    BY <1>9 DEF DigestArtifacts, ReleaseTypes, Packagers, ghosts
  <2>2. files = packager.files
    BY <2>1 DEF ReadInv
  <2>3. packager'.digest = packager.files.claims
    BY <2>1, <2>2, SameRead DEF ReleaseTypes
  <2>4. package'.manifest = NotThere
    BY <2>1 DEF BuildInv
  <2> QED
    BY <2>1, <2>2, <2>3, <2>4 DEF ReadInv, There
<1>10. CASE CopyArtifacts
  <2>1. /\ packager.pc = "copy" /\ packager'.pc = "manifest" /\ packager'.files = packager.files
        /\ packager'.digest = packager.digest
        /\ package' = [package EXCEPT !.copies = [r \in Registered |-> files.claims[r]]]
        /\ UNCHANGED <<files, overlapped, shifted, cut>>
    BY <1>10 DEF CopyArtifacts, ReleaseTypes, Packagers, ghosts
  <2>2. files = packager.files /\ packager.digest = packager.files.claims
    BY <2>1 DEF ReadInv
  <2>3. [r \in Registered |-> files.claims[r]] = packager.files.claims
    BY <2>1, <2>2, SameRead DEF ReleaseTypes
  <2>4. package'.copies = packager.files.claims /\ package'.manifest = package.manifest
    BY <2>1, <2>3 DEF ReleaseTypes, Packages
  <2>5. package'.manifest = NotThere
    BY <2>1, <2>4 DEF BuildInv
  <2> QED
    BY <2>1, <2>2, <2>4, <2>5 DEF ReadInv, There
<1>11. CASE WriteManifest
  <2> DEFINE f == packager.files
  <2>1. /\ packager.pc = "manifest" /\ packager'.pc = "review" /\ f \in MissionFiles
        /\ package' = [package EXCEPT !.manifest = Manifest(f, packager.digest)]
        /\ UNCHANGED <<overlapped, shifted>>
    BY <1>11 DEF WriteManifest, ReleaseTypes, Packagers, ghosts
  <2>2. packager.digest = f.claims /\ package.copies = f.claims
    BY <2>1 DEF ReadInv
  <2>3. package'.manifest = Manifest(f, f.claims) /\ package'.copies = f.claims
    BY <2>1, <2>2 DEF ReleaseTypes, Packages
  <2> HIDE DEF f
  <2>4. \E g \in MissionFiles : package'.manifest = Manifest(g, g.claims) /\ package'.copies = g.claims
    BY <2>1, <2>3
  <2>5. (\E g \in MissionFiles : IsManifestOf(g))'
    BY <2>4 DEF IsManifestOf, Manifest
  <2> QED
    BY <2>1, <2>5 DEF ReadInv
<1>12. CASE WritePackageReview
  <2>1. /\ packager'.pc \in {"export", "idle"} /\ UNCHANGED <<overlapped, shifted, cut>>
        /\ package'.copies = package.copies /\ package'.manifest = package.manifest
    BY <1>0, <1>12 DEF WritePackageReview, ReleaseTypes, Packagers, Packages, ghosts
  <2> QED
    BY <2>1 DEF ReadInv, There, IsManifestOf
<1>13. CASE \E recs \in RecordSets, promote \in BOOLEAN : StartReview(recs, promote)
  <2>1. /\ overlapped' = (overlapped \/ ~PackagerIdle)
        /\ UNCHANGED <<files, package, packager, shifted, cut>>
    BY <1>13 DEF StartReview
  <2>2. overlapped' = overlapped
    BY <2>1 DEF ReleaseTypes, PackagerIdle
  <2> QED
    BY <1>1, <2>1, <2>2
<1>14. CASE MaterializeReview \/ Promote \/ MaterializeAgain \/ ReviewerDies
  <2>1. /\ UNCHANGED <<files, packager, ghosts>>
        /\ package'.copies = package.copies /\ package'.manifest = package.manifest
    BY <1>14 DEF MaterializeReview, Promote, MaterializeAgain, ReviewerDies, ReleaseTypes, Packages
  <2> QED
    BY <1>1, <2>1 DEF ghosts
<1> QED
  BY <1>2, <1>3, <1>4, <1>5, <1>6, <1>7, <1>8, <1>9, <1>10, <1>11, <1>12, <1>13, <1>14
     DEF ReleaseNext, RecordSets

\* A promotion that is there is of a build the policy lets through, with every required
\* review satisfied; and when no command overlapped, no file changed while it was read and
\* no removal was cut short, the copies beside it are those that were hashed and support
\* its claim.
THEOREM PromotionsAreEarned == ReleaseSpec => []PromotionIsEarned
PROOF
<1>1. ReleaseInit => EarnedInv /\ ReadInv
  BY DEF ReleaseInit, EarnedInv, ReadInv, There, IdleReviewer, IdlePackager, EmptyPackage
<1>2. /\ ReleaseTypes /\ EarnedInv /\ [ReleaseNext]_releaseVars => EarnedInv'
      /\ ReleaseTypes /\ BuildInv /\ ReadInv /\ [ReleaseNext]_releaseVars => ReadInv'
  BY StepEarned, StepRead
<1>3. ReleaseTypes /\ BuildInv /\ ReadInv /\ EarnedInv => PromotionIsEarned
  <2> SUFFICES ASSUME ReleaseTypes, BuildInv, ReadInv, EarnedInv, There("promotion")
               PROVE  PromotionIsEarned
    BY DEF PromotionIsEarned
  <2>1. PICK m \in Manifests, recs \in RecordSets :
               Promotable(m, recs) /\ package.promotion = Promotion(m, recs)
    BY DEF EarnedInv
  <2>2. package.promotion.of = m /\ package.promotion.reviews = RequiredReviews \ MissingReviews(recs)
    BY <2>1 DEF Promotion
  <2>3. /\ ManifestCount(m) >= 2 /\ m.claim >= Replicated /\ m.claim <= m.ceiling
        /\ package.promotion.reviews = RequiredReviews
    BY <2>1, <2>2, PromotableFacts
  <2>4. ASSUME ~(overlapped \/ shifted \/ cut)
        PROVE  package.copies = m.digest /\ m.claim <= SupportedBy(package.copies)
    <3>1. There("manifest") /\ package.manifest = m
      BY <2>2, <2>4 DEF BuildInv, BuildHolds
    <3>2. PICK f \in MissionFiles : IsManifestOf(f)
      BY <2>4, <3>1 DEF ReadInv
    <3>3. m.digest = f.claims /\ m.claim = PackageClaim(f) /\ package.copies = f.claims
      BY <3>1, <3>2 DEF IsManifestOf, Manifest
    <3> QED
      BY <3>3, ClaimFacts
  <2> QED
    BY <2>2, <2>3, <2>4 DEF PromotionIsEarned
<1> QED
  BY <1>1, <1>2, <1>3, InitBuild, StepBuild, ReleaseInvariance, PTL DEF ReleaseSpec

----------------------------------------------------------------------------
(* The research memory: replaying the log.                                 *)

\* The indexes of a replay of the first n lines.
Replays(f, log, n) ==
    f = [k \in 0..n |-> IF k = 0 THEN EmptyIndex ELSE Recorded(f[k - 1], log[k])]

\* Two logs agree on their first n lines.
SameLines(log, other, n) == \A k \in 1..n : log[k] = other[k]

LEMMA ReplayExists ==
    ASSUME NEW log, NEW n \in Nat
    PROVE  \E f : Replays(f, log, n)
PROOF
<1> DEFINE T == {k \in Nat : ~ \E f : Replays(f, log, k)}
<1> SUFFICES ASSUME T # {} PROVE FALSE
  OBVIOUS
<1>1. PICK x \in T : \A y \in T : x <= y
  BY LeastOf
<1>2. x \in Nat /\ ~ \E f : Replays(f, log, x)
  BY <1>1
<1>3. CASE x = 0
  <2>1. Replays([k \in 0..0 |-> EmptyIndex], log, 0)
    BY DEF Replays
  <2> QED
    BY <1>2, <1>3, <2>1
<1>4. CASE x # 0
  <2>1. x - 1 \in Nat /\ x - 1 \notin T
    BY <1>1, <1>2, <1>4
  <2>2. PICK g : Replays(g, log, x - 1)
    BY <2>1
  <2> DEFINE f == [k \in 0..x |-> IF k = x THEN Recorded(g[x - 1], log[x]) ELSE g[k]]
  <2>3. ASSUME NEW k \in 0..x
        PROVE  f[k] = IF k = 0 THEN EmptyIndex ELSE Recorded(f[k - 1], log[k])
    <3>1. CASE k = x
      <4>1. k - 1 \in 0..x /\ k - 1 # x /\ k # 0
        BY <1>2, <1>4, <3>1
      <4>2. f[k - 1] = g[k - 1] /\ f[k] = Recorded(g[k - 1], log[k])
        BY <3>1, <4>1
      <4> QED
        BY <4>1, <4>2
    <3>2. CASE k # x
      <4>1. k \in 0..(x - 1)
        BY <1>2, <3>2
      <4>2. g[k] = IF k = 0 THEN EmptyIndex ELSE Recorded(g[k - 1], log[k])
        BY <2>2, <4>1 DEF Replays
      <4>3. k # 0 => k - 1 \in 0..x /\ k - 1 # x
        BY <1>2, <4>1
      <4>4. f[k] = g[k] /\ (k # 0 => f[k - 1] = g[k - 1])
        BY <3>2, <4>3
      <4> QED
        BY <4>2, <4>4
    <3> QED
      BY <3>1, <3>2
  <2>4. DOMAIN f = 0..x /\ f = [k \in 0..x |-> f[k]]
    OBVIOUS
  <2> HIDE DEF f
  <2>5. Replays(f, log, x)
    BY <2>3, <2>4 DEF Replays
  <2> QED
    BY <1>2, <2>5
<1> QED
  BY <1>3, <1>4

LEMMA ReplayUnique ==
    ASSUME NEW log, NEW other, NEW m \in Nat, SameLines(log, other, m),
           NEW f, Replays(f, log, m + 1), NEW g, Replays(g, other, m)
    PROVE  f[m] = g[m]
PROOF
<1> DEFINE T == {k \in 0..m : f[k] # g[k]}
<1>1. T \in SUBSET Nat
  OBVIOUS
<1> SUFFICES ASSUME T # {} PROVE FALSE
  <2>1. m \in 0..m
    OBVIOUS
  <2> QED
    BY <2>1
<1>2. PICK x \in T : \A y \in T : x <= y
  BY <1>1, LeastOf
<1>3. x \in 0..m /\ x \in 0..(m + 1) /\ f[x] # g[x]
  BY <1>2
<1>4. /\ f[x] = IF x = 0 THEN EmptyIndex ELSE Recorded(f[x - 1], log[x])
      /\ g[x] = IF x = 0 THEN EmptyIndex ELSE Recorded(g[x - 1], other[x])
  BY <1>3 DEF Replays
<1>5. x # 0
  BY <1>3, <1>4
<1>6. x - 1 \in 0..m /\ x - 1 \notin T /\ x \in 1..m
  BY <1>2, <1>3, <1>5
<1>7. f[x - 1] = g[x - 1] /\ log[x] = other[x]
  BY <1>6 DEF SameLines
<1> QED
  BY <1>3, <1>4, <1>5, <1>7

LEMMA RebuiltReplays ==
    ASSUME NEW log, Len(log) \in Nat
    PROVE  \E f : Replays(f, log, Len(log)) /\ Rebuilt(log) = f[Len(log)]
PROOF
<1> DEFINE f == CHOOSE f : f = [k \in 0..Len(log) |->
                   IF k = 0 THEN EmptyIndex ELSE Recorded(f[k - 1], log[k])]
<1>1. \E g : g = [k \in 0..Len(log) |-> IF k = 0 THEN EmptyIndex ELSE Recorded(g[k - 1], log[k])]
  BY ReplayExists DEF Replays
<1>2. f = [k \in 0..Len(log) |-> IF k = 0 THEN EmptyIndex ELSE Recorded(f[k - 1], log[k])]
  BY <1>1
<1>3. Rebuilt(log) = f[Len(log)]
  BY DEF Rebuilt
<1> HIDE DEF f
<1> QED
  BY <1>2, <1>3 DEF Replays

\* An empty log gives the empty index, and a line more is one entry more.
LEMMA RebuiltFacts ==
    /\ Rebuilt(<<>>) = EmptyIndex
    /\ \A X : \A log \in Seq(X), e \in X : Rebuilt(Append(log, e)) = Recorded(Rebuilt(log), e)
PROOF
<1>1. Rebuilt(<<>>) = EmptyIndex
  <2>1. PICK f : Replays(f, <<>>, 0) /\ Rebuilt(<<>>) = f[0]
    BY RebuiltReplays
  <2> QED
    BY <2>1 DEF Replays
<1>2. ASSUME NEW X, NEW log \in Seq(X), NEW e \in X
      PROVE  Rebuilt(Append(log, e)) = Recorded(Rebuilt(log), e)
  <2> DEFINE n == Len(log)
             longer == Append(log, e)
  <2>1. n \in Nat /\ Len(longer) = n + 1 /\ longer[n + 1] = e
        /\ \A k \in 1..n : longer[k] = log[k]
    OBVIOUS
  <2> HIDE DEF n, longer
  <2>2. PICK g : Replays(g, log, n) /\ Rebuilt(log) = g[n]
    BY <2>1, RebuiltReplays DEF n
  <2>3. PICK f : Replays(f, longer, n + 1) /\ Rebuilt(longer) = f[n + 1]
    BY <2>1, RebuiltReplays
  <2>4. f[n] = g[n]
    <3>1. n \in Nat /\ SameLines(longer, log, n)
      BY <2>1 DEF SameLines
    <3>2. Replays(f, longer, n + 1) /\ Replays(g, log, n)
      BY <2>2, <2>3
    <3> QED
      BY <3>1, <3>2, ReplayUnique
  <2>5. f[n + 1] = Recorded(f[(n + 1) - 1], longer[n + 1])
    BY <2>1, <2>3 DEF Replays
  <2>6. (n + 1) - 1 = n
    BY <2>1
  <2> QED
    BY <2>1, <2>2, <2>3, <2>4, <2>5, <2>6 DEF longer
<1> QED
  BY <1>1, <1>2

----------------------------------------------------------------------------
(* The research memory: each mission has its own part of an index.         *)

\* No two missions record under one key. The keys the code builds hold type and id and
\* not the mission (_entry_key).
IdsAreOwn ==
    \A e, o \in UNION {Recordable(m) : m \in MemoryMissions} :
      e.type = o.type /\ e.id = o.id => e.mission = o.mission

\* An index the retention would leave as it is.
Trimmed(ix) ==
    /\ ix \in Indexes /\ IsFiniteSet(ix.active)
    /\ ix.active \cap ix.archived = {}
    /\ \A e \in ix.active : InWindow(ix.active, e)

\* The two steps of Recorded.
Put(S, e) == {o \in S : <<o.type, o.id>> # <<e.type, e.id>>} \cup {e}
Kept(S) == {e \in S : InWindow(S, e)}

LEMMA RecordedParts ==
    ASSUME NEW ix, NEW e
    PROVE  /\ Recorded(ix, e).active = Kept(Put(ix.active, e))
           /\ Recorded(ix, e).archived =
                (ix.archived \cup (Put(ix.active, e) \ Kept(Put(ix.active, e)))) \ Kept(Put(ix.active, e))
           /\ Recorded(ix, e) = [active |-> Recorded(ix, e).active, archived |-> Recorded(ix, e).archived]
BY DEF Recorded, Retained, Put, Kept

LEMMA EntryFacts ==
    /\ \A e \in Entries : e.mission \in MemoryMissions
    /\ \A m \in MemoryMissions : \A e \in Recordable(m), t \in 1..MaxRecords :
         Stamped(e, t) \in Entries /\ Stamped(e, t).mission = m
    /\ IdsAreOwn => \A e, o \in Entries : e.type = o.type /\ e.id = o.id => e.mission = o.mission
PROOF
<1>1. \A m \in MemoryMissions : \A e \in Recordable(m) : e.mission = m
  BY DEF Recordable, Summary
<1>2. \A e \in Entries : \E m \in MemoryMissions : \E o \in Recordable(m), t \in 1..MaxRecords : e = Stamped(o, t)
  BY DEF Entries
<1>3. \A o, t : Stamped(o, t).mission = o.mission /\ Stamped(o, t).type = o.type /\ Stamped(o, t).id = o.id
  BY DEF Stamped
<1>4. \A m \in MemoryMissions : \A e \in Recordable(m), t \in 1..MaxRecords : Stamped(e, t) \in Entries
  BY DEF Entries
<1>5. \A m \in MemoryMissions : \A e \in Recordable(m), t \in 1..MaxRecords :
         Stamped(e, t) \in Entries /\ Stamped(e, t).mission = m
  BY <1>1, <1>3, <1>4
<1>6. \A e \in Entries : e.mission \in MemoryMissions
  BY <1>1, <1>2, <1>3
<1>7. ASSUME IdsAreOwn, NEW e \in Entries, NEW o \in Entries, e.type = o.type, e.id = o.id
      PROVE  e.mission = o.mission
  <2>1. PICK d \in UNION {Recordable(m) : m \in MemoryMissions} :
          e.mission = d.mission /\ e.type = d.type /\ e.id = d.id
    BY <1>2, <1>3
  <2>2. PICK p \in UNION {Recordable(m) : m \in MemoryMissions} :
          o.mission = p.mission /\ o.type = p.type /\ o.id = p.id
    BY <1>2, <1>3
  <2> QED
    BY <1>7, <2>1, <2>2 DEF IdsAreOwn
<1> QED
  BY <1>5, <1>6, <1>7

\* Whether an entry stays depends on the entries of its mission only.
LEMMA KeptIsOwn ==
    ASSUME NEW S, NEW T, NEW m, PartOf(S, m) = PartOf(T, m)
    PROVE  PartOf(Kept(S), m) = PartOf(Kept(T), m)
PROOF
<1>1. ASSUME NEW e, e.mission = m
      PROVE  InWindow(S, e) <=> InWindow(T, e)
  <2>1. Rolling(S, e) = Rolling(T, e)
    <3>1. \A o : o \in Rolling(S, e) <=> o \in PartOf(S, m) /\ o.type = e.type /\ ~o.protected
      BY <1>1 DEF Rolling, PartOf
    <3>2. \A o : o \in Rolling(T, e) <=> o \in PartOf(T, m) /\ o.type = e.type /\ ~o.protected
      BY <1>1 DEF Rolling, PartOf
    <3> QED
      BY <3>1, <3>2
  <2> QED
    BY <2>1 DEF InWindow
<1>2. \A e : e \in PartOf(Kept(S), m) <=> e \in PartOf(S, m) /\ InWindow(S, e)
  BY DEF PartOf, Kept
<1>3. \A e : e \in PartOf(Kept(T), m) <=> e \in PartOf(T, m) /\ InWindow(T, e)
  BY DEF PartOf, Kept
<1>4. \A e \in PartOf(S, m) : e.mission = m
  BY DEF PartOf
<1> QED
  BY <1>1, <1>2, <1>3, <1>4

LEMMA ArchivePart ==
    ASSUME NEW A, NEW S, NEW K, NEW m
    PROVE  PartOf((A \cup (S \ K)) \ K, m) =
             (PartOf(A, m) \cup (PartOf(S, m) \ PartOf(K, m))) \ PartOf(K, m)
BY DEF PartOf

\* What is recorded changes the same part in the same way.
LEMMA RecordedSame ==
    ASSUME NEW ix, NEW jx, NEW m, NEW e, SameFor(ix, jx, m)
    PROVE  SameFor(Recorded(ix, e), Recorded(jx, e), m)
PROOF
<1> DEFINE S == Put(ix.active, e)
           T == Put(jx.active, e)
<1>1. PartOf(S, m) = PartOf(T, m)
  <2>1. \A o : o \in PartOf(S, m) <=>
               (o \in PartOf(ix.active, m) /\ <<o.type, o.id>> # <<e.type, e.id>>) \/ (o = e /\ e.mission = m)
    BY DEF PartOf, Put
  <2>2. \A o : o \in PartOf(T, m) <=>
               (o \in PartOf(jx.active, m) /\ <<o.type, o.id>> # <<e.type, e.id>>) \/ (o = e /\ e.mission = m)
    BY DEF PartOf, Put
  <2> HIDE DEF S, T
  <2> QED
    BY <2>1, <2>2 DEF SameFor
<1>2. /\ Recorded(ix, e).active = Kept(S) /\ Recorded(ix, e).archived = (ix.archived \cup (S \ Kept(S))) \ Kept(S)
      /\ Recorded(jx, e).active = Kept(T) /\ Recorded(jx, e).archived = (jx.archived \cup (T \ Kept(T))) \ Kept(T)
  BY RecordedParts
<1> HIDE DEF S, T
<1>3. PartOf(Kept(S), m) = PartOf(Kept(T), m)
  BY <1>1, KeptIsOwn
<1>4. PartOf(ix.archived, m) = PartOf(jx.archived, m)
  BY DEF SameFor
<1>5. PartOf(Recorded(ix, e).archived, m) = PartOf(Recorded(jx, e).archived, m)
  <2>1. PartOf(Recorded(ix, e).archived, m) =
          (PartOf(ix.archived, m) \cup (PartOf(S, m) \ PartOf(Kept(S), m))) \ PartOf(Kept(S), m)
    BY <1>2, ArchivePart
  <2>2. PartOf(Recorded(jx, e).archived, m) =
          (PartOf(jx.archived, m) \cup (PartOf(T, m) \ PartOf(Kept(T), m))) \ PartOf(Kept(T), m)
    <3>1. Recorded(jx, e).archived = (jx.archived \cup (T \ Kept(T))) \ Kept(T)
      BY <1>2
    <3>2. PartOf((jx.archived \cup (T \ Kept(T))) \ Kept(T), m) =
            (PartOf(jx.archived, m) \cup (PartOf(T, m) \ PartOf(Kept(T), m))) \ PartOf(Kept(T), m)
      BY ONLY DEF PartOf
    <3> QED
      BY <3>1, <3>2
  <2> DEFINE A == PartOf(ix.archived, m)
             B == PartOf(S, m)
             K == PartOf(Kept(S), m)
  <2>3. PartOf(Recorded(ix, e).archived, m) = (A \cup (B \ K)) \ K
    BY <2>1
  <2>4. PartOf(Recorded(jx, e).archived, m) = (A \cup (B \ K)) \ K
    <3> DEFINE C == PartOf(jx.archived, m)
               D == PartOf(T, m)
               L == PartOf(Kept(T), m)
    <3>1. A = C /\ B = D /\ K = L
      BY <1>1, <1>3, <1>4
    <3>2. PartOf(Recorded(jx, e).archived, m) = (C \cup (D \ L)) \ L
      BY <2>2
    <3> HIDE DEF A, B, K, C, D, L
    <3> QED
      BY <3>1, <3>2
  <2> QED
    BY <2>3, <2>4
<1> QED
  BY <1>2, <1>3, <1>5 DEF SameFor

\* What a mission records leaves the parts of the others alone.
LEMMA RecordedOther ==
    ASSUME IdsAreOwn, NEW ix, Trimmed(ix), NEW e \in Entries, NEW m, m # e.mission
    PROVE  SameFor(Recorded(ix, e), ix, m)
PROOF
<1> DEFINE S == Put(ix.active, e)
<1>1. PartOf(S, m) = PartOf(ix.active, m)
  <2>1. \A o \in ix.active : o \in Entries
    BY DEF Trimmed, Indexes
  <2>2. \A o \in ix.active : o.mission = m => <<o.type, o.id>> # <<e.type, e.id>>
    BY <2>1, EntryFacts
  <2> QED
    BY <2>2 DEF PartOf, Put
<1>2. /\ Recorded(ix, e).active = Kept(S)
      /\ Recorded(ix, e).archived = (ix.archived \cup (S \ Kept(S))) \ Kept(S)
  BY RecordedParts
<1> HIDE DEF S
<1>3. PartOf(Kept(S), m) = PartOf(Kept(ix.active), m)
  BY <1>1, KeptIsOwn
<1>4. Kept(ix.active) = ix.active
  BY DEF Trimmed, Kept
<1>5. PartOf(ix.archived, m) \cap PartOf(Kept(S), m) = {}
  BY <1>3, <1>4 DEF Trimmed, PartOf
<1>6. PartOf(Recorded(ix, e).archived, m) =
        (PartOf(ix.archived, m) \cup (PartOf(S, m) \ PartOf(Kept(S), m))) \ PartOf(Kept(S), m)
  BY <1>2, ArchivePart
<1>7. PartOf(Recorded(ix, e).archived, m) = PartOf(ix.archived, m)
  BY <1>1, <1>3, <1>4, <1>5, <1>6
<1> QED
  BY <1>2, <1>3, <1>4, <1>7 DEF SameFor

\* Nothing that is kept leaves the window when others are dropped.
LEMMA KeptStays ==
    ASSUME NEW S, IsFiniteSet(S), NEW e \in Kept(S)
    PROVE  InWindow(Kept(S), e)
PROOF
<1> DEFINE A == {o \in Rolling(Kept(S), e) : o.at > e.at}
           B == {o \in Rolling(S, e) : o.at > e.at}
<1>1. A \subseteq B /\ B \subseteq S
  BY DEF Kept, Rolling
<1>2. IsFiniteSet(B)
  BY <1>1, FS_Subset
<1>3. Cardinality(A) \in Nat /\ Cardinality(B) \in Nat /\ Cardinality(A) <= Cardinality(B)
  BY <1>1, <1>2, FS_Subset, FS_CardinalityType
<1>4. e.protected \/ Cardinality(B) < WindowSize
  BY DEF Kept, InWindow
<1>5. InWindow(Kept(S), e) <=> e.protected \/ Cardinality(A) < WindowSize
  BY DEF InWindow
<1> HIDE DEF A, B
<1>6. Cardinality(B) < WindowSize => Cardinality(A) < WindowSize
  BY <1>3, WindowIsPositive
<1> QED
  BY <1>4, <1>5, <1>6

LEMMA RecordedTrimmed ==
    ASSUME NEW ix, Trimmed(ix), NEW e \in Entries
    PROVE  Trimmed(Recorded(ix, e))
PROOF
<1> DEFINE S == Put(ix.active, e)
           jx == Recorded(ix, e)
<1>1. S \subseteq Entries /\ IsFiniteSet(S)
  <2>1. ix.active \subseteq Entries /\ IsFiniteSet(ix.active)
    BY DEF Trimmed, Indexes
  <2>2. {o \in ix.active : <<o.type, o.id>> # <<e.type, e.id>>} \subseteq ix.active
    OBVIOUS
  <2>3. IsFiniteSet({o \in ix.active : <<o.type, o.id>> # <<e.type, e.id>>})
    BY <2>1, <2>2, FS_Subset
  <2>4. IsFiniteSet({o \in ix.active : <<o.type, o.id>> # <<e.type, e.id>>} \cup {e})
    BY <2>3, FS_AddElement
  <2> QED
    BY <2>1, <2>4 DEF Put
<1>2. /\ jx.active = Kept(S) /\ jx.archived = (ix.archived \cup (S \ Kept(S))) \ Kept(S)
      /\ jx = [active |-> jx.active, archived |-> jx.archived]
  BY RecordedParts
<1> HIDE DEF S, jx
<1>3. Kept(S) \subseteq S
  BY DEF Kept
<1>4. jx.active \subseteq Entries /\ jx.archived \subseteq Entries /\ jx.active \cap jx.archived = {}
  BY <1>1, <1>2, <1>3 DEF Trimmed, Indexes
<1>5. jx \in Indexes
  BY <1>2, <1>4 DEF Indexes
<1>6. IsFiniteSet(jx.active)
  BY <1>1, <1>2, <1>3, FS_Subset
<1>7. \A o \in jx.active : InWindow(jx.active, o)
  BY <1>1, <1>2, KeptStays
<1> QED
  BY <1>4, <1>5, <1>6, <1>7 DEF Trimmed, jx


----------------------------------------------------------------------------
(* The research memory: the index and the log agree, mission by mission.   *)

Recorders == [pc : {"idle", "save", "append", "retrieve"}, entry : Entries \cup {NoEntry},
              read : Indexes, unseen : SUBSET MemoryMissions]

\* Every part of the state has its type, and every index is one that retention has been
\* applied to.
MemoryTypes ==
    /\ index \in Indexes /\ damage \in Damages \cup {"none"}
    /\ memoryLog \in Seq(Entries)
    /\ recorder \in [MemoryMissions -> Recorders]
    /\ retrieved \in [MemoryMissions -> SUBSET Entries]
    /\ lost \subseteq MemoryMissions
    /\ records \in 0..MaxRecords /\ tears \in 0..MaxTears
    /\ \A m \in MemoryMissions : recorder[m].pc \in {"save", "append"} =>
         recorder[m].entry \in Entries /\ recorder[m].entry.mission = m
    /\ Trimmed(Rebuilt(memoryLog))
    /\ Trimmed(index)
    /\ \A m \in MemoryMissions : Trimmed(recorder[m].read)

\* What the log will say of a mission once its recorder has appended what is in the index.
Owed(m) ==
    IF recorder[m].pc = "append" THEN Recorded(Rebuilt(memoryLog), recorder[m].entry)
    ELSE Rebuilt(memoryLog)

\* Of a mission that is not lost the index holds what the log holds, the line its recorder
\* still owes included; and so does what a recorder has loaded, but for what it has not
\* seen.
PartsAgree ==
    /\ damage = "none" => \A m \in MemoryMissions \ lost : SameFor(index, Owed(m), m)
    /\ \A m, o \in MemoryMissions :
         recorder[m].pc = "save" /\ o \notin recorder[m].unseen \cup lost =>
           SameFor(recorder[m].read, Owed(o), o)

LEMMA EmptyTrimmed == Trimmed(EmptyIndex) /\ EmptyIndex \in Indexes
PROOF
<1>1. EmptyIndex.active = {} /\ EmptyIndex.archived = {} /\ EmptyIndex \in Indexes
  BY DEF EmptyIndex, Indexes
<1> QED
  BY <1>1, FS_EmptySet DEF Trimmed

LEMMA IdleRecorderType ==
    IdleRecorder \in Recorders /\ IdleRecorder.pc = "idle" /\ IdleRecorder.read = EmptyIndex
BY EmptyTrimmed DEF IdleRecorder, Recorders

LEMMA MemoryInitTypes == MemoryInit => MemoryTypes /\ PartsAgree
PROOF
<1> SUFFICES ASSUME MemoryInit PROVE MemoryTypes /\ PartsAgree
  OBVIOUS
<1> USE MemoryAssumption
<1>1. Trimmed(Rebuilt(memoryLog)) /\ Rebuilt(memoryLog) = index /\ index = EmptyIndex
  BY RebuiltFacts, EmptyTrimmed DEF MemoryInit
<1>2. memoryLog \in Seq(Entries)
  BY DEF MemoryInit
<1>4. recorder = [m \in MemoryMissions |-> IdleRecorder]
      /\ \A m \in MemoryMissions : recorder[m].pc = "idle" /\ recorder[m].read = EmptyIndex
  BY IdleRecorderType DEF MemoryInit
<1>5. MemoryTypes
  <2>1. recorder \in [MemoryMissions -> Recorders]
    BY <1>4, IdleRecorderType
  <2>2. retrieved \in [MemoryMissions -> SUBSET Entries] /\ lost \subseteq MemoryMissions
    BY DEF MemoryInit
  <2>3. records \in 0..MaxRecords /\ tears \in 0..MaxTears
    <3>1. records = 0 /\ tears = 0 /\ MaxRecords \in Nat /\ MaxTears \in Nat
      BY DEF MemoryInit
    <3> QED
      BY <3>1
  <2>4. index \in Indexes /\ Trimmed(index) /\ damage \in Damages \cup {"none"}
    BY <1>1, EmptyTrimmed DEF MemoryInit
  <2> QED
    BY <1>1, <1>2, <1>4, <2>1, <2>2, <2>3, <2>4, EmptyTrimmed DEF MemoryTypes
<1>6. PartsAgree
  BY <1>1, <1>4 DEF PartsAgree, Owed, SameFor
<1> QED
  BY <1>5, <1>6

LEMMA LoadedTypes ==
    ASSUME MemoryTypes
    PROVE  LoadedIndex \in Indexes /\ Trimmed(LoadedIndex)
BY EmptyTrimmed DEF MemoryTypes, LoadedIndex, Trimmed

\* A recorder that learns of missions it has not seen.
LEMMA UnseenType ==
    ASSUME MemoryTypes, NEW m \in MemoryMissions, NEW X \in SUBSET MemoryMissions
    PROVE  /\ Unseen(m, X) \in Recorders
           /\ Unseen(m, X).pc = recorder[m].pc /\ Unseen(m, X).entry = recorder[m].entry
           /\ Unseen(m, X).read = recorder[m].read
           /\ recorder[m].pc = "save" => Unseen(m, X).unseen = recorder[m].unseen \cup X
PROOF
<1>1. recorder[m] \in Recorders
  BY DEF MemoryTypes
<1>2. CASE recorder[m].pc = "save"
  BY <1>1, <1>2 DEF Unseen, Recorders
<1>3. CASE recorder[m].pc # "save"
  BY <1>1, <1>3 DEF Unseen
<1> QED
  BY <1>2, <1>3

\* What a load or a retrieval leaves of the recorders and of the index.
LEMMA RepairingTypes ==
    ASSUME MemoryTypes, NEW m \in MemoryMissions, NEW mine \in Recorders, Repairing(m, mine)
    PROVE  /\ recorder' \in [MemoryMissions -> Recorders]
           /\ recorder'[m] = mine
           /\ \A o \in MemoryMissions : o # m =>
                /\ recorder'[o].pc = recorder[o].pc /\ recorder'[o].entry = recorder[o].entry
                /\ recorder'[o].read = recorder[o].read
                /\ recorder[o].pc = "save" => recorder'[o].unseen =
                     recorder[o].unseen \cup (IF damage = "torn" THEN lost ELSE {})
           /\ index' = LoadedIndex /\ index' \in Indexes /\ Trimmed(index')
           /\ damage' \in Damages \cup {"none"} /\ lost' \subseteq MemoryMissions
PROOF
<1> DEFINE X == IF damage = "torn" THEN lost ELSE {}
<1>1. X \in SUBSET MemoryMissions
  BY DEF MemoryTypes
<1>2. recorder' = [o \in MemoryMissions |-> IF o = m THEN mine ELSE Unseen(o, X)]
  BY DEF Repairing
<1> HIDE DEF X
<1>3. \A o \in MemoryMissions : Unseen(o, X) \in Recorders
  BY <1>1, UnseenType
<1>4. recorder' \in [MemoryMissions -> Recorders] /\ recorder'[m] = mine
  BY <1>2, <1>3
<1>5. ASSUME NEW o \in MemoryMissions, o # m
      PROVE  /\ recorder'[o].pc = recorder[o].pc /\ recorder'[o].entry = recorder[o].entry
             /\ recorder'[o].read = recorder[o].read
             /\ recorder[o].pc = "save" => recorder'[o].unseen = recorder[o].unseen \cup X
  BY <1>1, <1>2, <1>5, UnseenType
<1>6. /\ index' = LoadedIndex /\ damage' \in Damages \cup {"none"}
      /\ lost' \subseteq MemoryMissions
  <2>1. index' = LoadedIndex
    BY DEF Repairing, IndexRepaired
  <2>2. damage' \in Damages \cup {"none"}
    BY DEF Repairing, IndexRepaired, Damages
  <2>3. lost' \subseteq MemoryMissions
    BY DEF Repairing, IndexRepaired, MemoryTypes
  <2> QED
    BY <2>1, <2>2, <2>3
<1> QED
  BY <1>4, <1>5, <1>6, LoadedTypes DEF X

LEMMA LoadTypes ==
    ASSUME MemoryTypes, NEW m \in MemoryMissions, NEW e \in Recordable(m), Load(m, e)
    PROVE  /\ MemoryTypes'
           /\ \E mine \in Recorders :
                /\ Repairing(m, mine) /\ mine.pc = "save" /\ mine.read = LoadedIndex
                /\ mine.unseen = IF damage = "blank" THEN MemoryMissions ELSE {}
PROOF
<1> DEFINE n == Stamped(e, records + 1)
           u == IF damage = "blank" THEN MemoryMissions ELSE {}
           r == [pc |-> "save", entry |-> n, read |-> LoadedIndex, unseen |-> u]
<1>1. records + 1 \in 1..MaxRecords /\ records' \in 0..MaxRecords
  BY MemoryAssumption DEF MemoryTypes, Load
<1>2. n \in Entries /\ n.mission = m
  BY <1>1, EntryFacts
<1>3. Repairing(m, r)
  BY DEF Load
<1>4. LoadedIndex \in Indexes /\ Trimmed(LoadedIndex) /\ u \in SUBSET MemoryMissions
  BY LoadedTypes
<1>5. UNCHANGED <<memoryLog, retrieved, tears>>
  BY DEF Load
<1> HIDE DEF n, u
<1>6. r \in Recorders
      /\ r.pc = "save" /\ r.entry = n /\ r.read = LoadedIndex /\ r.unseen = u
  BY <1>2, <1>4 DEF Recorders
<1> HIDE DEF r
<1>7. MemoryTypes'
  BY <1>1, <1>2, <1>3, <1>4, <1>5, <1>6, RepairingTypes DEF MemoryTypes
<1> QED
  BY <1>3, <1>6, <1>7 DEF u

\* What a save leaves of the recorders.
LEMMA SavedRecorders ==
    ASSUME MemoryTypes, NEW m \in MemoryMissions, Save(m)
    PROVE  /\ recorder' \in [MemoryMissions -> Recorders]
           /\ recorder'[m].pc = "append" /\ recorder'[m].entry = recorder[m].entry
           /\ recorder'[m].read = recorder[m].read
           /\ \A o \in MemoryMissions : o # m =>
                /\ recorder'[o].pc = recorder[o].pc /\ recorder'[o].entry = recorder[o].entry
                /\ recorder'[o].read = recorder[o].read
                /\ recorder[o].pc = "save" => recorder'[o].unseen = recorder[o].unseen \cup {m}
PROOF
<1> DEFINE r == [recorder[m] EXCEPT !.pc = "append"]
<1>1. recorder' = [o \in MemoryMissions |-> IF o = m THEN r ELSE Unseen(o, {m})]
  BY DEF Save
<1>2. r \in Recorders /\ r.pc = "append" /\ r.entry = recorder[m].entry /\ r.read = recorder[m].read
  <2>1. recorder[m] \in Recorders
    BY DEF MemoryTypes
  <2> QED
    BY <2>1 DEF Recorders
<1> HIDE DEF r
<1>3. {m} \in SUBSET MemoryMissions
  OBVIOUS
<1>4. \A o \in MemoryMissions : Unseen(o, {m}) \in Recorders
  BY <1>3, UnseenType
<1>5. ASSUME NEW o \in MemoryMissions, o # m
      PROVE  /\ recorder'[o].pc = recorder[o].pc /\ recorder'[o].entry = recorder[o].entry
             /\ recorder'[o].read = recorder[o].read
             /\ recorder[o].pc = "save" => recorder'[o].unseen = recorder[o].unseen \cup {m}
  BY <1>1, <1>3, <1>5, UnseenType
<1>6. recorder' \in [MemoryMissions -> Recorders] /\ recorder'[m] = r
  BY <1>1, <1>2, <1>4
<1> QED
  BY <1>2, <1>5, <1>6

LEMMA SaveTypes ==
    ASSUME MemoryTypes, NEW m \in MemoryMissions, Save(m)
    PROVE  MemoryTypes'
PROOF
<1>1. Trimmed(Recorded(recorder[m].read, recorder[m].entry))
  BY RecordedTrimmed DEF Save, MemoryTypes
<1>2. index' \in Indexes /\ Trimmed(index')
  BY <1>1 DEF Save, Trimmed
<1>3. damage' = "none" /\ lost' = lost \cup recorder[m].unseen
      /\ recorder[m].pc = "save" /\ UNCHANGED <<memoryLog, retrieved, records, tears>>
  BY DEF Save
<1>4. lost' \subseteq MemoryMissions
  BY <1>3 DEF MemoryTypes, Recorders
<1> QED
  BY <1>2, <1>3, <1>4, SavedRecorders DEF MemoryTypes

LEMMA AppendTypes ==
    ASSUME MemoryTypes, NEW m \in MemoryMissions, AppendEvent(m)
    PROVE  MemoryTypes'
PROOF
<1>1. recorder[m].entry \in Entries /\ memoryLog' = Append(memoryLog, recorder[m].entry)
  BY DEF MemoryTypes, AppendEvent
<1>2. memoryLog' \in Seq(Entries)
  BY <1>1 DEF MemoryTypes
<1>3. Rebuilt(memoryLog') = Recorded(Rebuilt(memoryLog), recorder[m].entry)
  BY <1>1, RebuiltFacts DEF MemoryTypes
<1>4. Trimmed(Rebuilt(memoryLog'))
  BY <1>1, <1>3, RecordedTrimmed DEF MemoryTypes
<1>5. /\ recorder' \in [MemoryMissions -> Recorders]
      /\ recorder'[m].pc \in {"idle", "retrieve"} /\ recorder'[m].read = recorder[m].read
      /\ \A o \in MemoryMissions : o # m => recorder'[o] = recorder[o]
  <2> DEFINE p == IF recorder[m].entry.type = "mission" THEN "retrieve" ELSE "idle"
  <2>1. p \in {"idle", "retrieve"}
    OBVIOUS
  <2>2. recorder' = [recorder EXCEPT ![m].pc = p]
    BY DEF AppendEvent
  <2> HIDE DEF p
  <2> QED
    BY <2>1, <2>2 DEF MemoryTypes, Recorders
<1>6. UNCHANGED <<index, damage, retrieved, lost, records, tears>>
  BY DEF AppendEvent
<1> QED
  BY <1>2, <1>4, <1>5, <1>6 DEF MemoryTypes

\* A recorder that is done, or dies, is idle.
LEMMA RetrieveTypes ==
    ASSUME MemoryTypes, NEW m \in MemoryMissions, Retrieve(m)
    PROVE  MemoryTypes'
PROOF
<1>1. Matches(m) \subseteq Entries
  BY LoadedTypes DEF Matches, Indexes
<1>2. retrieved' \in [MemoryMissions -> SUBSET Entries]
  BY <1>1 DEF MemoryTypes, Retrieve
<1>3. Repairing(m, IdleRecorder) /\ UNCHANGED <<memoryLog, records, tears>>
  BY DEF Retrieve
<1> QED
  BY <1>2, <1>3, IdleRecorderType, RepairingTypes, EmptyTrimmed DEF MemoryTypes

LEMMA DeathTypes ==
    ASSUME MemoryTypes, NEW m \in MemoryMissions, RecorderDies(m)
    PROVE  MemoryTypes'
PROOF
<1>1. recorder' = [recorder EXCEPT ![m] = IdleRecorder]
  BY DEF RecorderDies
<1>2. tears' \in 0..MaxTears /\ lost' \subseteq MemoryMissions
  BY MemoryAssumption DEF MemoryTypes, RecorderDies
<1>3. UNCHANGED <<index, damage, memoryLog, retrieved, records>>
  BY DEF RecorderDies
<1>4. /\ recorder' \in [MemoryMissions -> Recorders]
      /\ recorder'[m].pc = "idle" /\ recorder'[m].read = EmptyIndex
      /\ \A o \in MemoryMissions : o # m => recorder'[o] = recorder[o]
  BY <1>1, IdleRecorderType DEF MemoryTypes
<1> QED
  BY <1>2, <1>3, <1>4, EmptyTrimmed DEF MemoryTypes

LEMMA DamageTypes == MemoryTypes /\ DamageIndex => MemoryTypes'
PROOF
<1> SUFFICES ASSUME MemoryTypes, DamageIndex PROVE MemoryTypes'
  OBVIOUS
<1>1. tears' \in 0..MaxTears /\ damage' \in Damages \cup {"none"}
  BY MemoryAssumption DEF MemoryTypes, DamageIndex, Damages
<1>2. index' = EmptyIndex \/ \E m \in MemoryMissions : index' = recorder[m].read
  BY DEF DamageIndex
<1>3. index' \in Indexes /\ Trimmed(index')
  BY <1>2, EmptyTrimmed DEF MemoryTypes, Trimmed
<1> QED
  BY <1>1, <1>3 DEF DamageIndex, MemoryTypes

LEMMA StepMemoryTypes == MemoryTypes /\ [MemoryNext]_memoryVars => MemoryTypes'
PROOF
<1> SUFFICES ASSUME MemoryTypes, [MemoryNext]_memoryVars PROVE MemoryTypes'
  OBVIOUS
<1>1. ASSUME NEW m \in MemoryMissions, NEW e \in Recordable(m), Load(m, e) PROVE MemoryTypes'
  BY <1>1, LoadTypes
<1>2. ASSUME NEW m \in MemoryMissions, Save(m) PROVE MemoryTypes'
  BY <1>2, SaveTypes
<1>3. ASSUME NEW m \in MemoryMissions, AppendEvent(m) PROVE MemoryTypes'
  BY <1>3, AppendTypes
<1>4. ASSUME NEW m \in MemoryMissions, Retrieve(m) PROVE MemoryTypes'
  BY <1>4, RetrieveTypes
<1>5. ASSUME NEW m \in MemoryMissions, RecorderDies(m) PROVE MemoryTypes'
  BY <1>5, DeathTypes
<1>6. CASE UNCHANGED memoryVars
  BY <1>6 DEF memoryVars, MemoryTypes
<1> QED
  BY <1>1, <1>2, <1>3, <1>4, <1>5, <1>6, DamageTypes DEF MemoryNext

LEMMA MemoryInvariance == MemorySpec => []MemoryTypes
PROOF
<1>1. MemoryInit => MemoryTypes
  BY MemoryInitTypes
<1> QED
  BY <1>1, StepMemoryTypes, PTL DEF MemorySpec

LEMMA MemoryTypesImply == MemoryTypes => MemoryTypeOK
BY DEF MemoryTypes, MemoryTypeOK, Indexes, Recorders

LEMMA SameForChains ==
    /\ \A ix, m : SameFor(ix, ix, m)
    /\ \A ix, jx, kx, m : SameFor(ix, jx, m) /\ SameFor(jx, kx, m) => SameFor(ix, kx, m)
    /\ \A ix, jx, m : SameFor(ix, jx, m) => SameFor(jx, ix, m)
BY DEF SameFor

\* A load or a retrieval takes from nobody but whom it counts as lost, and gives nobody
\* back that a recorder still has an older copy of.
LEMMA RepairParts ==
    ASSUME MemoryTypes, PartsAgree, NEW m \in MemoryMissions, NEW mine \in Recorders,
           Repairing(m, mine), memoryLog' = memoryLog,
           recorder[m].pc # "append", mine.pc # "append",
           mine.pc = "save" =>
             /\ mine.read = LoadedIndex
             /\ mine.unseen = IF damage = "blank" THEN MemoryMissions ELSE {}
    PROVE  PartsAgree'
PROOF
<1>1. /\ recorder'[m] = mine
      /\ \A o \in MemoryMissions : o # m =>
           /\ recorder'[o].pc = recorder[o].pc /\ recorder'[o].entry = recorder[o].entry
           /\ recorder'[o].read = recorder[o].read
           /\ recorder[o].pc = "save" => recorder'[o].unseen =
                recorder[o].unseen \cup (IF damage = "torn" THEN lost ELSE {})
      /\ index' = LoadedIndex
  BY RepairingTypes
<1>2. \A o \in MemoryMissions : Owed(o)' = Owed(o)
  BY <1>1 DEF Owed
<1>3. /\ damage' = IF damage = "blank" THEN "blank" ELSE "none"
      /\ lost' = CASE damage = "torn" -> {o \in MemoryMissions : recorder[o].pc = "append"}
                   [] damage \in {"gone", "older"} -> MemoryMissions
                   [] OTHER -> lost
  BY DEF Repairing, IndexRepaired
<1>4. damage \in {"none", "gone", "blank", "torn", "older"}
  BY DEF MemoryTypes, Damages
<1>5. ASSUME NEW o \in MemoryMissions \ lost', damage # "blank"
      PROVE  SameFor(LoadedIndex, Owed(o), o)
  <2>1. CASE damage = "torn"
    <3>1. LoadedIndex = Rebuilt(memoryLog) /\ recorder[o].pc # "append"
      BY <1>3, <1>5, <2>1 DEF LoadedIndex
    <3> QED
      BY <3>1, SameForChains DEF Owed
  <2>2. CASE damage \in {"gone", "older"}
    BY <1>3, <1>5, <2>2
  <2>3. CASE damage = "none"
    <3>1. LoadedIndex = index /\ lost' = lost
      BY <1>3, <2>3 DEF LoadedIndex
    <3> QED
      BY <1>5, <2>3, <3>1 DEF PartsAgree
  <2> QED
    BY <1>4, <1>5, <2>1, <2>2, <2>3
<1>6. damage' = "none" => \A o \in MemoryMissions \ lost' : SameFor(index', Owed(o)', o)
  BY <1>1, <1>2, <1>3, <1>5
<1>7. ASSUME NEW k \in MemoryMissions, NEW o \in MemoryMissions,
             recorder'[k].pc = "save", o \notin recorder'[k].unseen \cup lost'
      PROVE  SameFor(recorder'[k].read, Owed(o)', o)
  <2>1. CASE k = m
    <3>1. mine.pc = "save" /\ o \notin mine.unseen
      BY <1>1, <1>7, <2>1
    <3>2. damage # "blank"
      BY <3>1
    <3> QED
      BY <1>1, <1>2, <1>5, <1>7, <2>1, <3>1, <3>2
  <2>2. CASE k # m
    <3>1. recorder[k].pc = "save" /\ o \notin recorder[k].unseen /\ recorder'[k].read = recorder[k].read
      BY <1>1, <1>7, <2>2
    <3>2. o \notin lost
      BY <1>1, <1>3, <1>4, <1>7, <2>2, <3>1
    <3> QED
      BY <1>2, <3>1, <3>2 DEF PartsAgree
  <2> QED
    BY <2>1, <2>2
<1> QED
  BY <1>6, <1>7 DEF PartsAgree

LEMMA LoadParts ==
    ASSUME MemoryTypes, PartsAgree, NEW m \in MemoryMissions, NEW e \in Recordable(m), Load(m, e)
    PROVE  PartsAgree'
PROOF
<1>1. recorder[m].pc # "append" /\ memoryLog' = memoryLog
  BY DEF Load
<1> QED
  BY <1>1, LoadTypes, RepairParts

LEMMA RetrieveParts ==
    ASSUME MemoryTypes, PartsAgree, NEW m \in MemoryMissions, Retrieve(m)
    PROVE  PartsAgree'
PROOF
<1>1. recorder[m].pc # "append" /\ memoryLog' = memoryLog /\ Repairing(m, IdleRecorder)
  BY DEF Retrieve
<1> QED
  BY <1>1, IdleRecorderType, RepairParts

LEMMA SaveParts ==
    ASSUME IdsAreOwn, MemoryTypes, PartsAgree, NEW m \in MemoryMissions, Save(m)
    PROVE  PartsAgree'
PROOF
<1> DEFINE e == recorder[m].entry
           ix == recorder[m].read
<1>1. /\ index' = Recorded(ix, e) /\ memoryLog' = memoryLog
      /\ lost' = lost \cup recorder[m].unseen /\ recorder[m].pc = "save"
  BY DEF Save
<1>2. e \in Entries /\ e.mission = m /\ Trimmed(ix)
  BY <1>1 DEF MemoryTypes
<1>3. /\ recorder'[m].pc = "append" /\ recorder'[m].entry = e
      /\ \A o \in MemoryMissions : o # m =>
           /\ recorder'[o].pc = recorder[o].pc /\ recorder'[o].entry = recorder[o].entry
           /\ recorder'[o].read = recorder[o].read
           /\ recorder[o].pc = "save" => recorder'[o].unseen = recorder[o].unseen \cup {m}
  BY SavedRecorders
<1> HIDE DEF e
<1>4. \A o \in MemoryMissions : o # m => Owed(o)' = Owed(o)
  BY <1>1, <1>3 DEF Owed
<1>5. ASSUME NEW o \in MemoryMissions \ lost'
      PROVE  SameFor(index', Owed(o)', o)
  <2>1. SameFor(ix, Owed(o), o)
    BY <1>1, <1>5 DEF PartsAgree
  <2> HIDE DEF ix
  <2>2. CASE o = m
    <3>1. Owed(m) = Rebuilt(memoryLog) /\ Owed(m)' = Recorded(Rebuilt(memoryLog), e)
      BY <1>1, <1>3 DEF Owed
    <3>2. SameFor(Recorded(ix, e), Recorded(Rebuilt(memoryLog), e), m)
      BY <2>1, <2>2, <3>1, RecordedSame
    <3> QED
      BY <1>1, <2>2, <3>1, <3>2
  <2>3. CASE o # m
    <3>1. SameFor(Recorded(ix, e), ix, o)
      BY <1>2, <2>3, RecordedOther
    <3>2. SameFor(Recorded(ix, e), Owed(o), o)
      BY <2>1, <3>1, SameForChains
    <3> QED
      BY <1>1, <1>4, <2>3, <3>2
  <2> QED
    BY <2>2, <2>3
<1>6. ASSUME NEW k \in MemoryMissions, NEW o \in MemoryMissions,
             recorder'[k].pc = "save", o \notin recorder'[k].unseen \cup lost'
      PROVE  SameFor(recorder'[k].read, Owed(o)', o)
  <2>1. k # m /\ recorder[k].pc = "save" /\ recorder'[k].read = recorder[k].read
        /\ o # m /\ o \notin recorder[k].unseen \cup lost
    BY <1>1, <1>3, <1>6
  <2> QED
    BY <1>4, <2>1 DEF PartsAgree
<1> QED
  BY <1>5, <1>6 DEF PartsAgree

LEMMA AppendParts ==
    ASSUME IdsAreOwn, MemoryTypes, PartsAgree, NEW m \in MemoryMissions, AppendEvent(m)
    PROVE  PartsAgree'
PROOF
<1> DEFINE e == recorder[m].entry
           R == Rebuilt(memoryLog)
<1>1. e \in Entries /\ e.mission = m /\ recorder[m].pc = "append"
  BY DEF MemoryTypes, AppendEvent
<1>2. memoryLog \in Seq(Entries) /\ memoryLog' = Append(memoryLog, e) /\ Trimmed(R)
  BY DEF MemoryTypes, AppendEvent
<1>3. Rebuilt(memoryLog') = Recorded(R, e)
  BY <1>1, <1>2, RebuiltFacts
<1>4. /\ recorder'[m].pc \in {"idle", "retrieve"}
      /\ \A o \in MemoryMissions : o # m => recorder'[o] = recorder[o]
      /\ UNCHANGED <<index, damage, lost>>
  BY DEF MemoryTypes, AppendEvent
<1>5. ASSUME NEW o \in MemoryMissions
      PROVE  SameFor(Owed(o), Owed(o)', o)
  <2>1. CASE o = m
    <3>1. Owed(m) = Recorded(R, e)
      BY <1>1 DEF Owed
    <3>2. Owed(m)' = Recorded(R, e)
      BY <1>3, <1>4 DEF Owed
    <3> QED
      BY <2>1, <3>1, <3>2, SameForChains
  <2>2. CASE o # m
    <3> DEFINE f == recorder[o].entry
    <3>1. SameFor(R, Recorded(R, e), o)
      BY <1>1, <1>2, <2>2, RecordedOther, SameForChains
    <3>2. SameFor(Recorded(R, f), Recorded(Recorded(R, e), f), o)
      BY <3>1, RecordedSame
    <3>3. Owed(o) = IF recorder[o].pc = "append" THEN Recorded(R, f) ELSE R
      BY DEF Owed
    <3>4. Owed(o)' = IF recorder[o].pc = "append" THEN Recorded(Recorded(R, e), f) ELSE Recorded(R, e)
      BY <1>3, <1>4, <2>2 DEF Owed
    <3> HIDE DEF e, R, f
    <3> QED
      BY <3>1, <3>2, <3>3, <3>4
  <2> QED
    BY <2>1, <2>2
<1> HIDE DEF e, R
<1>6. ASSUME damage' = "none", NEW o \in MemoryMissions \ lost'
      PROVE  SameFor(index', Owed(o)', o)
  <2>1. SameFor(index, Owed(o), o)
    BY <1>4, <1>6 DEF PartsAgree
  <2> QED
    BY <1>4, <1>5, <2>1, SameForChains
<1>7. ASSUME NEW k \in MemoryMissions, NEW o \in MemoryMissions,
             recorder'[k].pc = "save", o \notin recorder'[k].unseen \cup lost'
      PROVE  SameFor(recorder'[k].read, Owed(o)', o)
  <2>1. recorder'[k] = recorder[k]
    BY <1>4, <1>7
  <2>2. SameFor(recorder[k].read, Owed(o), o)
    BY <1>4, <1>7, <2>1 DEF PartsAgree
  <2> QED
    BY <1>5, <2>1, <2>2, SameForChains
<1> QED
  BY <1>6, <1>7 DEF PartsAgree

LEMMA DeathParts ==
    ASSUME MemoryTypes, PartsAgree, NEW m \in MemoryMissions, RecorderDies(m)
    PROVE  PartsAgree'
PROOF
<1>1. /\ UNCHANGED <<index, damage, memoryLog>> /\ lost \subseteq lost'
      /\ recorder[m].pc = "append" => m \in lost'
  BY DEF RecorderDies
<1>2. recorder'[m].pc = "idle" /\ \A o \in MemoryMissions : o # m => recorder'[o] = recorder[o]
  BY IdleRecorderType DEF RecorderDies, MemoryTypes
<1>3. \A o \in MemoryMissions \ lost' : Owed(o)' = Owed(o)
  BY <1>1, <1>2 DEF Owed
<1>4. \A k \in MemoryMissions : recorder'[k].pc = "save" => recorder'[k] = recorder[k]
  BY <1>2
<1> QED
  BY <1>1, <1>3, <1>4 DEF PartsAgree

LEMMA StepParts ==
    IdsAreOwn /\ MemoryTypes /\ PartsAgree /\ [MemoryNext]_memoryVars => PartsAgree'
PROOF
<1> SUFFICES ASSUME IdsAreOwn, MemoryTypes, PartsAgree, [MemoryNext]_memoryVars PROVE PartsAgree'
  OBVIOUS
<1>1. ASSUME NEW m \in MemoryMissions, NEW e \in Recordable(m), Load(m, e) PROVE PartsAgree'
  BY <1>1, LoadParts
<1>2. ASSUME NEW m \in MemoryMissions, Save(m) PROVE PartsAgree'
  BY <1>2, SaveParts
<1>3. ASSUME NEW m \in MemoryMissions, AppendEvent(m) PROVE PartsAgree'
  BY <1>3, AppendParts
<1>4. ASSUME NEW m \in MemoryMissions, Retrieve(m) PROVE PartsAgree'
  BY <1>4, RetrieveParts
<1>5. ASSUME NEW m \in MemoryMissions, RecorderDies(m) PROVE PartsAgree'
  BY <1>5, DeathParts
<1>6. CASE DamageIndex
  <2>1. damage' # "none" /\ UNCHANGED <<memoryLog, recorder, lost>>
    BY <1>6 DEF DamageIndex, Damages
  <2> QED
    BY <2>1 DEF PartsAgree, Owed
<1>7. CASE UNCHANGED memoryVars
  BY <1>7 DEF memoryVars, PartsAgree, Owed
<1> QED
  BY <1>1, <1>2, <1>3, <1>4, <1>5, <1>6, <1>7 DEF MemoryNext

\* Whatever overlaps and whoever dies: of every mission that nobody wrote over, and that
\* did not die between its two files, replaying the log gives the index's part back; where
\* no two missions record under one key (record_research_memory_entry,
\* load_research_memory_index, _rebuild_index_from_entries).
THEOREM RebuildsAreFaithful ==
    ASSUME IdsAreOwn
    PROVE  MemorySpec => []RebuildIsFaithful
PROOF
<1>1. MemoryInit => PartsAgree
  BY MemoryInitTypes
<1>2. MemoryTypes /\ PartsAgree /\ [MemoryNext]_memoryVars => PartsAgree'
  BY StepParts
<1>3. PartsAgree => RebuildIsFaithful
  BY DEF PartsAgree, RebuildIsFaithful, Owed
<1> QED
  BY <1>1, <1>2, <1>3, MemoryInvariance, PTL DEF MemorySpec

----------------------------------------------------------------------------
(* The guard in front of a job: what its report says still holds.          *)

FollowUps == {"mechanistic-localization", "causal-intervention"}

NoBlock(checks) == \A k \in checks : k[2] # "block"

\* A manifest that a follow-up may rest on.
Strong(m) == Parsed(m) /\ m.status = "completed" /\ ~IsAnalysisPrep(m) /\ m.metrics

\* Every manifest a configuration refers to is strong and names no other model; two of them
\* do not differ on an axis.
Grounded(c) ==
    /\ \A r \in RefersTo(c.kind) :
         /\ Strong(manifests[r]) /\ r \notin c.unset
         /\ c.model = Unset \/ manifests[r].model \in {c.model, Unset}
    /\ c.kind = "causal-intervention" =>
         \A axis \in Axes : manifests["baseline"][axis] = manifests["localization"][axis]
                            \/ Unset \in {manifests["baseline"][axis], manifests["localization"][axis]}

GateTypes ==
    /\ proposal \in Proposals \cup {Gone, Broken} /\ guarded \in Proposals \cup {Gone, Broken}
    /\ manifests \in [References -> ManifestValues \cup {Gone, Broken}]
    /\ gate = [pc |-> gate.pc, seen |-> gate.seen, read |-> gate.read, content |-> gate.content,
                own |-> gate.own, found |-> gate.found]
    /\ gate.pc \in {"idle", "guard", "references", "guard report", "verdict", "gate report", "decide"}
    /\ gate.read \in Proposals \cup {Gone, Broken}
    /\ gateReport \in {"none", "torn", "pass", "warn", "block"}
    /\ guardReport \in {"none", "torn", "pass", "warn", "block"}
    /\ gatedJob \in {"queued", "blocked", "started"}
    /\ redrafts \in 0..MaxProposalEdits

\* A strong manifest that was read is the one that is there; findings without a block, and a
\* report without one, are grounded in what is there.
GateInv ==
    /\ gate.pc = "guard" => gate.content = <<>>
    /\ gate.pc = "references" =>
         \A r \in DOMAIN gate.content :
           /\ Examined(gate.read) /\ r \in RefersTo(gate.read.kind)
           /\ Strong(gate.content[r]) => gate.content[r] = manifests[r] /\ r \notin gate.read.unset
    /\ gate.pc = "guard report" /\ NoBlock(gate.found) =>
         Parsed(gate.read) /\ (gate.read.kind \in FollowUps => Grounded(gate.read))
    /\ guardReport \in {"pass", "warn"} =>
         Parsed(guarded) /\ (guarded.kind \in FollowUps => Grounded(guarded))

LEMMA EmptyContent == DOMAIN <<>> = {}
OBVIOUS

LEMMA GateInitHolds == GateInit => GateTypes /\ GateInv
PROOF
<1> SUFFICES ASSUME GateInit PROVE GateTypes /\ GateInv
  OBVIOUS
<1>1. 0 \in 0..MaxProposalEdits
  BY GateAssumption
<1>2. GateTypes
  BY <1>1 DEF GateInit, GateTypes, IdleGate
<1>3. gate.pc = "idle" /\ guardReport = "none"
  BY DEF GateInit, IdleGate
<1> QED
  BY <1>2, <1>3 DEF GateInv

LEMMA Blocks == \A checks : Verdict(checks) # "block" => NoBlock(checks)
BY DEF Verdict, NoBlock

LEMMA VerdictType == \A checks : Verdict(checks) \in {"pass", "warn", "block"}
BY DEF Verdict

\* Two values and no gap between them.
LEMMA OneValue ==
    ASSUME NEW a, NEW b, NEW S, a \in S, b \in S, Cardinality(S) <= 1, IsFiniteSet(S)
    PROVE  a = b
PROOF
<1> SUFFICES ASSUME a # b PROVE FALSE
  OBVIOUS
<1>1. Cardinality({a}) = 1 /\ IsFiniteSet({a})
  BY FS_Singleton
<1>2. Cardinality({a} \cup {b}) = 2 /\ IsFiniteSet({a} \cup {b})
  <2>1. b \notin {a}
    OBVIOUS
  <2>2. IsFiniteSet({a} \cup {b}) /\ Cardinality({a} \cup {b}) = Cardinality({a}) + 1
    BY <1>1, <2>1, FS_AddElement
  <2> QED
    BY <1>1, <2>2
<1>3. {a} \cup {b} \subseteq S
  OBVIOUS
<1>4. Cardinality({a} \cup {b}) <= Cardinality(S) /\ Cardinality(S) \in Nat
  BY <1>3, FS_Subset, FS_CardinalityType
<1> QED
  BY <1>2, <1>4


\* Two references that agree on an axis.
LEMMA AgreeFacts ==
    ASSUME NEW content, NEW axis, AgreeOn(content, axis),
           DOMAIN content = {"baseline", "localization"},
           Parsed(content["baseline"]), Parsed(content["localization"])
    PROVE  content["baseline"][axis] = content["localization"][axis]
           \/ Unset \in {content["baseline"][axis], content["localization"][axis]}
PROOF
<1> DEFINE a == content["baseline"][axis]
           b == content["localization"][axis]
           S == {content[r][axis] : r \in {q \in DOMAIN content : Parsed(content[q])}} \ {Unset}
<1> SUFFICES ASSUME a # Unset, b # Unset PROVE a = b
  OBVIOUS
<1>1. a \in S /\ b \in S
  OBVIOUS
<1>2. S \subseteq {a} \cup {b}
  OBVIOUS
<1>3. IsFiniteSet({a} \cup {b})
  BY FS_Singleton, FS_AddElement
<1>4. IsFiniteSet(S)
  BY <1>2, <1>3, FS_Subset
<1>5. Cardinality(S) <= 1
  BY DEF AgreeOn
<1> HIDE DEF a, b, S
<1> QED
  BY <1>1, <1>4, <1>5, OneValue

\* Findings without a block are about references a follow-up can stand on.
LEMMA GuardFacts ==
    ASSUME NEW c, NEW content, NoBlock(GuardChecks(c, content)), c.kind \in FollowUps, Parsed(c),
           DOMAIN content = RefersTo(c.kind),
           \A r \in DOMAIN content : Strong(content[r]) => content[r] = manifests[r] /\ r \notin c.unset
    PROVE  Grounded(c)
PROOF
<1> DEFINE k == c.kind
<1>1. /\ StrengthChecks(content) \subseteq GuardChecks(c, content)
      /\ RuntimeChecks(c, content) \subseteq GuardChecks(c, content)
      /\ PromptAlignment(c, content) \in GuardChecks(c, content)
      /\ ManifestComparability(c, content) \in GuardChecks(c, content)
  BY DEF GuardChecks, FollowUps
<1>2. ASSUME NEW r \in RefersTo(k)
      PROVE  Strong(content[r])
  <2> DEFINE strong == /\ Parsed(content[r]) /\ content[r].status = "completed"
                       /\ ~IsAnalysisPrep(content[r]) /\ content[r].metrics
  <2>1. <<"reference-strength", IF strong THEN "pass" ELSE "block">> \in StrengthChecks(content)
    BY DEF StrengthChecks
  <2>2. <<"reference-strength", IF strong THEN "pass" ELSE "block">>[2] # "block"
    BY <1>1, <2>1 DEF NoBlock
  <2> QED
    BY <2>2 DEF Strong
<1>3. ASSUME NEW r \in RefersTo(k)
      PROVE  r \notin c.unset /\ content[r] = manifests[r] /\ Strong(manifests[r])
  BY <1>2, <1>3
<1>4. ManifestComparability(c, content)[2] # "block"
  BY <1>1 DEF NoBlock
<1>5. ASSUME NEW r \in RefersTo(k)
      PROVE  c.model = Unset \/ manifests[r].model \in {Unset, c.model}
  <2>1. \A q \in DOMAIN content :
          Parsed(content[q]) => c.model = Unset \/ content[q].model \in {Unset, c.model}
    BY <1>4 DEF ManifestComparability, FollowUps
  <2> QED
    BY <1>3, <1>5, <2>1 DEF Strong
<1>6. ASSUME k = "causal-intervention", NEW axis \in Axes
      PROVE  AgreeOn(content, axis)
  <2>1. CASE axis \in {"name", "slice", "model"}
    BY <1>4, <1>6, <2>1 DEF ManifestComparability
  <2>2. CASE axis = "prompt"
    <3>1. PromptAlignment(c, content)[2] # "block"
      BY <1>1 DEF NoBlock
    <3> QED
      BY <1>6, <2>2, <3>1 DEF PromptAlignment
  <2>3. CASE axis = "runtime"
    <3>1. <<"runtime-comparability", IF AgreeOn(content, "runtime") THEN "pass" ELSE "block">>
            \in RuntimeChecks(c, content)
      BY <1>6 DEF RuntimeChecks
    <3>2. <<"runtime-comparability", IF AgreeOn(content, "runtime") THEN "pass" ELSE "block">>[2] # "block"
      BY <1>1, <3>1 DEF NoBlock
    <3> QED
      BY <2>3, <3>2
  <2> QED
    BY <1>6, <2>1, <2>2, <2>3 DEF Axes
<1>7. ASSUME k = "causal-intervention", NEW axis \in Axes
      PROVE  manifests["baseline"][axis] = manifests["localization"][axis]
             \/ Unset \in {manifests["baseline"][axis], manifests["localization"][axis]}
  <2>1. RefersTo(k) = {"baseline", "localization"} /\ DOMAIN content = {"baseline", "localization"}
    BY <1>7 DEF RefersTo
  <2>2. /\ Parsed(content["baseline"]) /\ Parsed(content["localization"])
        /\ content["baseline"] = manifests["baseline"] /\ content["localization"] = manifests["localization"]
    BY <1>3, <2>1 DEF Strong
  <2> QED
    BY <1>6, <1>7, <2>1, <2>2, AgreeFacts
<1> QED
  BY <1>3, <1>5, <1>7 DEF Grounded

LEMMA StepGateTypes == ASSUME GateTypes, GateNext PROVE GateTypes'
PROOF
<1> USE DEF SetGate, KeepWorld, KeepVerdicts
<1>1. CASE UnresolvedConfig
  BY <1>1 DEF UnresolvedConfig, GateTypes
<1>2. CASE GateReadsConfig
  BY <1>2 DEF GateReadsConfig, GateTypes, IdleGate
<1>3. CASE GuardReadsConfig
  BY <1>3 DEF GuardReadsConfig, GateTypes
<1>4. CASE \E r \in References : GuardReadsReference(r)
  <2>1. PICK r \in References : GuardReadsReference(r)
    BY <1>4
  <2>2. PICK content : gate' = [[gate EXCEPT !.content = content] EXCEPT !.pc = "references"]
    BY <2>1 DEF GuardReadsReference
  <2>3. UNCHANGED <<proposal, manifests, redrafts, gateReport, guardReport, guarded, gatedJob>>
    BY <2>1 DEF GuardReadsReference
  <2>4. gate'.pc = "references" /\ gate'.read = gate.read
        /\ gate' = [pc |-> gate'.pc, seen |-> gate'.seen, read |-> gate'.read, content |-> gate'.content,
                    own |-> gate'.own, found |-> gate'.found]
    BY <2>2 DEF GateTypes
  <2> QED
    BY <2>3, <2>4 DEF GateTypes
<1>5. CASE GuardDecides
  <2>1. PICK found : gate' = [[gate EXCEPT !.found = found] EXCEPT !.pc = "guard report"]
    BY <1>5 DEF GuardDecides
  <2>2. guardReport' = "torn" /\ UNCHANGED <<proposal, manifests, redrafts, gateReport, guarded, gatedJob>>
    BY <1>5 DEF GuardDecides
  <2>3. gate'.pc = "guard report" /\ gate'.read = gate.read
        /\ gate' = [pc |-> gate'.pc, seen |-> gate'.seen, read |-> gate'.read, content |-> gate'.content,
                    own |-> gate'.own, found |-> gate'.found]
    BY <2>1 DEF GateTypes
  <2> QED
    BY <2>2, <2>3 DEF GateTypes
<1>6. CASE GuardReports
  BY <1>6, VerdictType DEF GuardReports, GateTypes
<1>7. CASE GateDecides
  BY <1>7 DEF GateDecides, GateTypes
<1>8. CASE GateReports
  BY <1>8, VerdictType DEF GateReports, GateTypes
<1>9. CASE StartGatedJob
  BY <1>9 DEF StartGatedJob, GateTypes, IdleGate
<1>10. CASE GateDies
  BY <1>10 DEF GateDies, GateTypes, IdleGate
<1>11. CASE \E r \in References : ManifestWritten(r)
  BY <1>11 DEF ManifestWritten, GateTypes
<1>12. CASE EditProposal
  <2>1. redrafts \in 0..MaxProposalEdits /\ MaxProposalEdits \in Nat
        /\ redrafts < MaxProposalEdits /\ redrafts' = redrafts + 1
    BY <1>12, GateAssumption DEF EditProposal, GateTypes
  <2>2. redrafts' \in 0..MaxProposalEdits
    BY <2>1
  <2>3. /\ proposal' \in Proposals
        /\ UNCHANGED <<manifests, gate, gateReport, guardReport, guarded, gatedJob>>
    BY <1>12 DEF EditProposal
  <2> QED
    BY <2>2, <2>3 DEF GateTypes
<1> QED
  BY <1>1, <1>2, <1>3, <1>4, <1>5, <1>6, <1>7, <1>8, <1>9, <1>10, <1>11, <1>12 DEF GateNext

\* The guard reads, and writes what it found.
LEMMA GuardInv ==
    ASSUME GateTypes, GateInv,
           GuardReadsConfig \/ (\E r \in References : GuardReadsReference(r)) \/ GuardDecides \/ GuardReports
    PROVE  GateInv'
PROOF
<1> USE DEF SetGate, KeepWorld, KeepVerdicts
<1> DEFINE Reported == guardReport \in {"pass", "warn"} =>
                         Parsed(guarded) /\ (guarded.kind \in FollowUps => Grounded(guarded))
<1>1. CASE GuardReadsConfig
  <2>1. gate.pc = "guard" /\ gate'.pc = "references" /\ gate'.content = gate.content
        /\ UNCHANGED <<manifests, guardReport, guarded>>
    BY <1>1 DEF GuardReadsConfig, GateTypes
  <2>2. gate'.content = <<>> /\ Reported
    BY <2>1 DEF GateInv
  <2>3. Reported'
    BY <2>1, <2>2 DEF Grounded, Strong, Parsed
  <2> QED
    BY <2>1, <2>2, <2>3, EmptyContent DEF GateInv
<1>2. CASE \E r \in References : GuardReadsReference(r)
  <2>1. PICK r \in References : GuardReadsReference(r)
    BY <1>2
  <2> DEFINE new == [q \in DOMAIN gate.content \cup {r} |->
                       IF q = r THEN ReadReference(gate.read, r) ELSE gate.content[q]]
  <2>2. /\ gate.pc = "references" /\ gate'.pc = "references" /\ gate'.read = gate.read /\ r \in Unread
        /\ gate' = [[gate EXCEPT !.content = new] EXCEPT !.pc = "references"]
        /\ UNCHANGED <<manifests, guardReport, guarded>>
    BY <2>1 DEF GuardReadsReference, GateTypes
  <2>3. gate'.content = new
    <3> HIDE DEF new
    <3> QED
      BY <2>2 DEF GateTypes
  <2>4. Examined(gate.read) /\ r \in RefersTo(gate.read.kind)
    BY <2>2 DEF Unread
  <2>5. Examined(gate'.read) = Examined(gate.read)
    BY <2>2 DEF Examined, Parsed
  <2>6. ASSUME NEW q \in DOMAIN new
        PROVE  /\ Examined(gate.read) /\ q \in RefersTo(gate.read.kind)
               /\ Strong(new[q]) => new[q] = manifests[q] /\ q \notin gate.read.unset
    <3>1. CASE q = r
      <4>1. new[q] = ReadReference(gate.read, r)
        BY <3>1
      <4>2. ASSUME r \in gate.read.unset PROVE ~Strong(new[q])
        BY <4>1, <4>2 DEF ReadReference, Strong, Parsed
      <4> QED
        BY <2>4, <3>1, <4>1, <4>2 DEF ReadReference
    <3>2. CASE q # r
      BY <2>2, <2>6, <3>2 DEF GateInv
    <3> QED
      BY <3>1, <3>2
  <2>7. Reported'
    <3>1. Reported
      BY DEF GateInv
    <3> QED
      BY <2>2, <3>1 DEF Grounded, Strong, Parsed
  <2> HIDE DEF new
  <2> QED
    BY <2>2, <2>3, <2>5, <2>6, <2>7 DEF GateInv, Strong, Parsed
<1>3. CASE GuardDecides
  <2> DEFINE found == GuardChecks(gate.read, gate.content)
  <2>1. /\ gate.pc = "references" /\ Unread = {} /\ guardReport' = "torn"
        /\ gate' = [[gate EXCEPT !.found = found] EXCEPT !.pc = "guard report"]
        /\ UNCHANGED manifests
    BY <1>3 DEF GuardDecides
  <2>2. gate'.pc = "guard report" /\ gate'.found = found /\ gate'.read = gate.read
    <3> HIDE DEF found
    <3> QED
      BY <2>1 DEF GateTypes
  <2>3. ASSUME NoBlock(found) PROVE Parsed(gate.read)
    <3> SUFFICES ASSUME ~Parsed(gate.read) PROVE FALSE
      OBVIOUS
    <3>1. <<"guard config-parse", "block">> \in found
      BY DEF GuardChecks
    <3> QED
      BY <2>3, <3>1 DEF NoBlock
  <2>4. ASSUME NoBlock(found), gate.read.kind \in FollowUps PROVE Grounded(gate.read)
    <3>1. Examined(gate.read)
      BY <2>3, <2>4 DEF Examined, FollowUps
    <3>2. RefersTo(gate.read.kind) \subseteq DOMAIN gate.content
      BY <2>1, <3>1 DEF Unread
    <3>3. DOMAIN gate.content = RefersTo(gate.read.kind)
      BY <2>1, <3>2 DEF GateInv
    <3>4. \A r \in DOMAIN gate.content :
            Strong(gate.content[r]) => gate.content[r] = manifests[r] /\ r \notin gate.read.unset
      BY <2>1 DEF GateInv
    <3> QED
      BY <2>3, <2>4, <3>3, <3>4, GuardFacts
  <2>5. Grounded(gate.read)' = Grounded(gate.read) /\ Parsed(gate.read)' = Parsed(gate.read)
    BY <2>1, <2>2 DEF Grounded, Strong, Parsed
  <2> HIDE DEF found
  <2> QED
    BY <2>1, <2>2, <2>3, <2>4, <2>5 DEF GateInv
<1>4. CASE GuardReports
  <2>1. /\ gate.pc = "guard report" /\ gate'.pc = "verdict" /\ guarded' = gate.read
        /\ guardReport' = Verdict(gate.found) /\ UNCHANGED manifests
    BY <1>4 DEF GuardReports, GateTypes
  <2>2. guardReport' \in {"pass", "warn"} => NoBlock(gate.found)
    BY <2>1, Blocks
  <2>3. guardReport' \in {"pass", "warn"} =>
          Parsed(gate.read) /\ (gate.read.kind \in FollowUps => Grounded(gate.read))
    BY <2>1, <2>2 DEF GateInv
  <2>4. Reported'
    BY <2>1, <2>3 DEF Grounded, Strong, Parsed
  <2> QED
    BY <2>1, <2>4 DEF GateInv
<1> QED
  BY <1>1, <1>2, <1>3, <1>4

\* The gate goes on, dies, or the world does.
LEMMA OtherInv ==
    ASSUME GateTypes, GateInv,
           UnresolvedConfig \/ GateReadsConfig \/ GateDecides \/ GateReports \/ StartGatedJob \/ GateDies
           \/ (\E r \in References : ManifestWritten(r)) \/ EditProposal
    PROVE  GateInv'
PROOF
<1> USE DEF SetGate, KeepWorld, KeepVerdicts
<1>1. CASE GateReadsConfig \/ GateDecides \/ GateReports \/ StartGatedJob \/ GateDies
  <2>1. /\ gate'.pc \in {"guard", "gate report", "decide", "idle"}
        /\ gate'.pc = "guard" => gate'.content = <<>>
        /\ UNCHANGED <<manifests, guardReport, guarded>>
    <3>1. CASE GateReadsConfig
      BY <3>1 DEF GateReadsConfig, IdleGate
    <3>2. CASE GateDecides
      BY <3>2 DEF GateDecides, GateTypes
    <3>3. CASE GateReports
      BY <3>3 DEF GateReports, GateTypes
    <3>4. CASE StartGatedJob
      BY <3>4 DEF StartGatedJob, IdleGate
    <3>5. CASE GateDies
      BY <3>5 DEF GateDies, IdleGate
    <3> QED
      BY <1>1, <3>1, <3>2, <3>3, <3>4, <3>5
  <2> QED
    BY <2>1 DEF GateInv, Grounded, Strong, Parsed
<1>2. CASE UnresolvedConfig \/ EditProposal
  <2>1. UNCHANGED <<gate, manifests, guardReport, guarded>>
    BY <1>2 DEF UnresolvedConfig, EditProposal
  <2> QED
    BY <2>1 DEF GateInv, Grounded, Strong, Parsed, Examined
<1>3. ASSUME NEW r \in References, ManifestWritten(r) PROVE GateInv'
  <2>1. /\ UNCHANGED <<gate, guardReport, guarded>> /\ ~Settled(manifests[r])
        /\ \A q \in References : q # r => manifests'[q] = manifests[q]
    BY <1>3 DEF ManifestWritten, GateTypes
  <2>2. ASSUME NEW q \in References, Strong(manifests[q]) PROVE manifests'[q] = manifests[q]
    BY <2>1, <2>2 DEF Strong, Settled
  <2>3. ASSUME NEW c, Grounded(c) PROVE Grounded(c)'
    <3>1. \A q \in RefersTo(c.kind) : manifests'[q] = manifests[q]
      BY <2>2, <2>3 DEF Grounded, RefersTo, References
    <3>2. c.kind = "causal-intervention" => manifests'["baseline"] = manifests["baseline"]
                                            /\ manifests'["localization"] = manifests["localization"]
      BY <3>1 DEF RefersTo
    <3> QED
      BY <2>3, <3>1, <3>2 DEF Grounded, Strong, Parsed
  <2>4. \A q \in RefersTo(gate.read.kind) : q \in References
    BY DEF RefersTo, References
  <2>5. ASSUME gate.pc = "references", NEW q \in DOMAIN gate.content, Strong(gate.content[q])
        PROVE  gate.content[q] = manifests'[q]
    BY <2>2, <2>4, <2>5 DEF GateInv
  <2>6. gate.pc = "guard report" /\ NoBlock(gate.found) /\ gate.read.kind \in FollowUps => Grounded(gate.read)'
    BY <2>1, <2>3 DEF GateInv, Grounded, Strong
  <2>7. guardReport \in {"pass", "warn"} /\ guarded.kind \in FollowUps => Grounded(guarded)'
    BY <2>1, <2>3 DEF GateInv, Grounded, Strong
  <2> QED
    BY <2>1, <2>5, <2>6, <2>7 DEF GateInv, Parsed, Strong, Examined
<1> QED
  BY <1>1, <1>2, <1>3

LEMMA StepGate == GateTypes /\ GateInv /\ [GateNext]_gateVars => GateTypes' /\ GateInv'
PROOF
<1> SUFFICES ASSUME GateTypes, GateInv, [GateNext]_gateVars PROVE GateTypes' /\ GateInv'
  OBVIOUS
<1>1. CASE UNCHANGED gateVars
  <2>1. /\ proposal' = proposal /\ manifests' = manifests /\ gate' = gate /\ gateReport' = gateReport
        /\ guardReport' = guardReport /\ guarded' = guarded /\ gatedJob' = gatedJob /\ redrafts' = redrafts
    BY <1>1 DEF gateVars
  <2>2. GateTypes'
    <3>1. proposal' \in Proposals \cup {Gone, Broken} /\ guarded' \in Proposals \cup {Gone, Broken}
          /\ manifests' \in [References -> ManifestValues \cup {Gone, Broken}]
      BY <2>1 DEF GateTypes
    <3> QED
      BY <2>1, <3>1, Zenon DEF GateTypes
  <2>3. GateInv'
    BY <2>1 DEF GateInv, Grounded, Strong, Parsed, Examined
  <2> QED
    BY <2>2, <2>3
<1>2. CASE GateNext
  <2>1. GateTypes'
    BY <1>2, StepGateTypes
  <2>2. GateInv'
    BY <1>2, GuardInv, OtherInv DEF GateNext
  <2> QED
    BY <2>1, <2>2
<1> QED
  BY <1>1, <1>2

\* A report of the guard that does not block a follow-up stands on evidence that is still
\* there (confound_guard.evaluate_confound_guard).
THEOREM GuardReportsStand == GateSpec => []GuardHolds
PROOF
<1>1. GateInit => GateTypes /\ GateInv
  BY GateInitHolds
<1>2. GateTypes /\ GateInv /\ [GateNext]_gateVars => (GateTypes /\ GateInv)'
  BY StepGate
<1>3. GateTypes /\ GateInv => GuardHolds
  <2> SUFFICES ASSUME GateInv, guardReport \in {"pass", "warn"}, guarded.kind \in FollowUps
               PROVE  GuardHolds
    BY DEF GuardHolds, FollowUps
  <2>1. Grounded(guarded)
    BY DEF GateInv
  <2> QED
    BY <2>1 DEF Grounded, Strong, GuardHolds
<1> QED
  BY <1>1, <1>2, <1>3, PTL DEF GateSpec

LEMMA GateTypeCorrect == GateSpec => []GateTypeOK
PROOF
<1>1. GateInit => GateTypes /\ GateInv
  BY GateInitHolds
<1>2. GateTypes /\ GateInv /\ [GateNext]_gateVars => (GateTypes /\ GateInv)'
  BY StepGate
<1>3. GateTypes => GateTypeOK
  BY DEF GateTypes, GateTypeOK
<1> QED
  BY <1>1, <1>2, <1>3, PTL DEF GateSpec


----------------------------------------------------------------------------
(* The adaptation training: time, adapter and anchors.                     *)

LEMMA MinOfTwo ==
    ASSUME NEW a \in Int, NEW b \in Int
    PROVE  Min({a, b}) \in Int /\ Min({a, b}) <= a /\ Min({a, b}) <= b /\ Min({a, b}) \in {a, b}
PROOF
<1>1. \E x \in {a, b} : \A y \in {a, b} : x <= y
  <2>1. CASE a <= b
    BY <2>1
  <2>2. CASE ~(a <= b)
    BY <2>2
  <2> QED
    BY <2>1, <2>2
<1>2. Min({a, b}) \in {a, b} /\ \A y \in {a, b} : Min({a, b}) <= y
  BY <1>1 DEF Min
<1> QED
  BY <1>2

LEMMA ConfigFacts ==
    /\ trainingConfig \in TrainingConfigs =>
         /\ trainingConfig.budget \in Nat /\ trainingConfig.budget > 0
         /\ trainingConfig.trainLimit \in Nat /\ trainingConfig.trainLimit > 0
         /\ trainingConfig.evalLimit \in Nat /\ trainingConfig.evalLimit > 0
    /\ MinImprovement \in Int /\ MaxAllowedRegression \in Int
    /\ MaxTrainings \in Nat /\ MaxTrainingDeaths \in Nat
    /\ \A m \in AnchorMetrics \cup AdaptedMetrics :
         m # Unreadable /\ m.score # NoMetric => m.score \in Int
PROOF
<1>1. \A c \in TrainingConfigs : c.budget \in Nat \ {0} /\ c.trainLimit \in Nat \ {0} /\ c.evalLimit \in Nat \ {0}
  BY TrainingAssumption
<1>2. /\ MinImprovement \in Int /\ MaxAllowedRegression \in Int
      /\ MaxTrainings \in Nat /\ MaxTrainingDeaths \in Nat
  BY TrainingAssumption
<1>3. \A m \in AnchorMetrics \cup AdaptedMetrics : m = Unreadable \/ m.score \in Int \cup {NoMetric}
  BY TrainingAssumption
<1>4. trainingConfig \in TrainingConfigs =>
         /\ trainingConfig.budget \in Nat /\ trainingConfig.budget > 0
         /\ trainingConfig.trainLimit \in Nat /\ trainingConfig.trainLimit > 0
         /\ trainingConfig.evalLimit \in Nat /\ trainingConfig.evalLimit > 0
  BY <1>1
<1> QED
  BY <1>2, <1>3, <1>4

\* The anchors a started training has; nothing adds to them.
AnchorsReady ==
    anchors["baseline"] # Absent /\ (trainingConfig.intervention => anchors["intervention"] # Absent)

Ends == {"none", "deferred", "failed", "completed"}
TrainingPcs == {"idle", "train", "trained", "evaluate", "evaluated", "report", "comparison"}

TrainingTypes ==
    /\ trainingConfig \in TrainingConfigs
    /\ trainer = [pc |-> trainer.pc, spent |-> trainer.spent, ending |-> trainer.ending]
    /\ trainer.pc \in TrainingPcs
    /\ trainer.ending.by \in 0..trainings /\ trainer.ending.status \in Ends
    /\ jobs \in [Steps -> [by : 0..trainings, status : {"none", "running", "completed", "failed"}]]
    /\ anchors \in [{"baseline", "intervention"} -> AnchorMetrics \cup {Absent}]
    /\ ~trainingConfig.intervention => anchors["intervention"] = Absent
    /\ adapter \in 0..trainings /\ comparison \in 0..trainings
    /\ report.by \in 0..trainings /\ report.status \in Ends
    /\ outliving \subseteq Steps \X (1..trainings)
    /\ trainings \in 0..MaxTrainings /\ trainingDeaths \in 0..MaxTrainingDeaths
    /\ trainer.pc # "idle" => trainings # 0

\* How much of the budget an attempt has used when.
WithinBudget ==
    /\ trainer.spent \in Nat /\ trainer.spent <= 2 * trainingConfig.budget + 1
    /\ trainer.pc = "train" => trainer.spent = 0
    /\ trainer.pc = "trained" => trainer.spent <= 2 * trainingConfig.budget
    /\ trainer.pc = "evaluate" => RemainingBudget(trainingConfig, trainer.spent) > 0

\* What may be evaluated has an adapter behind it.
AdapterIsThere ==
    /\ trainer.pc \in {"evaluate", "evaluated"} => adapter # 0
    /\ \A o \in outliving : o[1] = "evaluate" => adapter # 0
    /\ evaluation # Absent => evaluation.of # 0 /\ evaluation.metrics \in AdaptedMetrics

Sound(end) ==
    end.status = "completed" =>
      /\ AnchorsReady /\ end.judged.of # 0
      /\ end.decision = "keep" => KeepIsEarned(trainingConfig, end.judged.metrics)

\* What is reported, or is about to be, rests on anchors nobody replaces.
ReportsAreSound ==
    /\ trainer.pc \in {"train", "trained", "evaluate", "evaluated"} => AnchorsReady
    /\ Sound(trainer.ending) /\ Sound(report)

TrainingInv == TrainingTypes /\ WithinBudget /\ AdapterIsThere /\ ReportsAreSound

LEMMA TrainingInitHolds == TrainingInit => TrainingInv
PROOF
<1> SUFFICES ASSUME TrainingInit PROVE TrainingInv
  OBVIOUS
<1>1. trainer = [pc |-> "idle", spent |-> 0, ending |-> NoReport] /\ report = NoReport
      /\ NoReport.status = "none" /\ NoReport.by = 0
  BY DEF TrainingInit, IdleTrainer, NoReport
<1>2. trainings = 0 /\ adapter = 0 /\ comparison = 0 /\ trainingDeaths = 0 /\ outliving = {} /\ evaluation = Absent
      /\ trainingConfig \in TrainingConfigs
  BY DEF TrainingInit
<1>3. jobs \in [Steps -> [by : 0..trainings, status : {"none", "running", "completed", "failed"}]]
  BY <1>2 DEF TrainingInit
<1>4. anchors \in [{"baseline", "intervention"} -> AnchorMetrics \cup {Absent}]
      /\ (~trainingConfig.intervention => anchors["intervention"] = Absent)
  BY DEF TrainingInit
<1>5. trainings \in 0..MaxTrainings /\ trainingDeaths \in 0..MaxTrainingDeaths
  BY <1>2, ConfigFacts
<1>6. TrainingTypes
  <2>1. trainer = [pc |-> trainer.pc, spent |-> trainer.spent, ending |-> trainer.ending]
        /\ trainer.pc = "idle" /\ trainer.ending = NoReport
    BY <1>1
  <2> QED
    BY <1>1, <1>2, <1>3, <1>4, <1>5, <2>1 DEF TrainingTypes, TrainingPcs, Ends
<1>7. WithinBudget
  BY <1>1, <1>2, ConfigFacts DEF WithinBudget
<1>8. AdapterIsThere /\ ReportsAreSound
  BY <1>1, <1>2 DEF AdapterIsThere, ReportsAreSound, Sound
<1> QED
  BY <1>6, <1>7, <1>8 DEF TrainingInv


LEMMA SoundFrame ==
    ASSUME UNCHANGED <<trainingConfig, anchors>>, NEW e
    PROVE  (Sound(e)' <=> Sound(e)) /\ AnchorsReady' = AnchorsReady
PROOF
<1>1. AnchorsReady' = AnchorsReady
  BY DEF AnchorsReady
<1>2. Scored' = Scored
  BY DEF Scored
<1>3. KeepIsEarned(trainingConfig, e.judged.metrics)' <=> KeepIsEarned(trainingConfig, e.judged.metrics)
  BY <1>2 DEF KeepIsEarned
<1> QED
  BY <1>1, <1>3 DEF Sound

\* Only a judgement makes a completed ending.
LEMMA EndingsStay ==
    ASSUME ReportsAreSound, UNCHANGED <<trainingConfig, anchors>>,
           trainer'.ending = trainer.ending \/ trainer'.ending.status # "completed" \/ Sound(trainer'.ending),
           report' = report \/ report' = trainer.ending,
           trainer'.pc \in {"train", "trained", "evaluate", "evaluated"} =>
             trainer.pc \in {"train", "trained", "evaluate", "evaluated"} \/ AnchorsReady
    PROVE  ReportsAreSound'
PROOF
<1>1. AnchorsReady' = AnchorsReady /\ \A e : Sound(e)' <=> Sound(e)
  BY SoundFrame
<1>2. Sound(trainer'.ending)
  BY DEF ReportsAreSound, Sound
<1>3. Sound(report')
  BY DEF ReportsAreSound
<1> HIDE DEF AnchorsReady, Sound
<1> QED
  BY <1>1, <1>2, <1>3 DEF ReportsAreSound

LEMMA EarnedByRatchet ==
    ASSUME TrainingTypes, NEW m \in AdaptedMetrics, m # Unreadable, m.score # NoMetric,
           "baseline" \in Scored, Ratchet(trainingConfig, m) = "keep"
    PROVE  KeepIsEarned(trainingConfig, m)
PROOF
<1> DEFINE c == trainingConfig
           higher == trainingConfig.higher
           top == BestAnchor(trainingConfig)
           best == {a \in Scored : \A b \in Scored : Gain(c, anchors[a].score, anchors[b].score) >= 0}
<1>1. m.score \in Int /\ \A a \in Scored : anchors[a].score \in Int
  <2>1. \A a \in Scored : anchors[a] \in AnchorMetrics /\ anchors[a] # Unreadable /\ anchors[a].score # NoMetric
    BY DEF Scored, TrainingTypes
  <2> QED
    BY <2>1, ConfigFacts
<1>2. Scored \subseteq {"baseline", "intervention"}
  BY DEF Scored, TrainingTypes
<1>3. \A x, y \in Int : Gain(c, x, y) \in Int /\ Gain(c, x, x) = 0
        /\ (Gain(c, x, y) < 0 => Gain(c, y, x) >= 0)
  BY DEF Gain
<1>4. \A x, y, z \in Int : Gain(c, x, y) + Gain(c, y, z) = Gain(c, x, z)
  BY DEF Gain
<1>5. top \in best
  <2>1. CASE "baseline" \in best
    BY <2>1 DEF BestAnchor
  <2>2. CASE "baseline" \notin best
    <3>1. PICK b \in Scored : ~(Gain(c, anchors["baseline"].score, anchors[b].score) >= 0)
      BY <2>2
    <3>2. anchors["baseline"].score \in Int /\ anchors[b].score \in Int
      BY <1>1
    <3> DEFINE x == anchors["baseline"].score
               y == anchors[b].score
    <3> HIDE DEF x, y
    <3>6. x \in Int /\ y \in Int /\ ~(Gain(c, x, y) >= 0)
      BY <3>1, <3>2 DEF x, y
    <3>7. Gain(c, x, x) = 0 /\ Gain(c, x, y) \in Int /\ Gain(c, y, y) = 0
      BY <1>3, <3>6
    <3>8. Gain(c, y, x) >= 0
      BY <1>3, <3>6, <3>7
    <3>3. b = "intervention"
      <4>1. b # "baseline"
        BY <3>6, <3>7 DEF x, y
      <4> QED
        BY <1>2, <4>1
    <3>4. Gain(c, anchors["intervention"].score, anchors["baseline"].score) >= 0
          /\ Gain(c, anchors["intervention"].score, anchors["intervention"].score) >= 0
      BY <3>3, <3>7, <3>8 DEF x, y
    <3>5. "intervention" \in best
      BY <1>2, <3>3, <3>4
    <3> QED
      BY <2>2, <3>5 DEF BestAnchor
  <2> QED
    BY <2>1, <2>2
<1>6. Gain(c, m.score, anchors[top].score) >= MinImprovement
  BY DEF Ratchet
<1>7. c.guard # "none" /\ m.guard # NoMetric /\ anchors[top].guard # NoMetric =>
        Regression(c, m.guard, anchors[top].guard) <= MaxAllowedRegression
  BY DEF Ratchet
<1>8. top \in Scored /\ \A b \in Scored : Gain(c, anchors[top].score, anchors[b].score) >= 0
  BY <1>5
<1> HIDE DEF top, best
<1>9. \A a \in Scored : Gain(c, m.score, anchors[a].score) >= MinImprovement
  <2> TAKE a \in Scored
  <2>1. /\ m.score \in Int /\ anchors[top].score \in Int /\ anchors[a].score \in Int
        /\ MinImprovement \in Int
    BY <1>1, <1>8, ConfigFacts
  <2>2. Gain(c, m.score, anchors[top].score) + Gain(c, anchors[top].score, anchors[a].score)
          = Gain(c, m.score, anchors[a].score)
    BY <1>4, <2>1
  <2>3. Gain(c, anchors[top].score, anchors[a].score) >= 0
    BY <1>8
  <2>4. Gain(c, m.score, anchors[top].score) \in Int /\ Gain(c, anchors[top].score, anchors[a].score) \in Int
    BY <1>3, <2>1
  <2> QED
    BY <1>6, <2>1, <2>2, <2>3, <2>4
<1> QED
  BY <1>7, <1>8, <1>9 DEF KeepIsEarned

\* What a time limit leaves of the budget.
LEMMA LimitFacts ==
    ASSUME TrainingTypes, WithinBudget, NEW s \in Steps, trainer.pc = s
    PROVE  /\ TimeLimit(trainingConfig, s) \in Int /\ TimeLimit(trainingConfig, s) > 0
           /\ trainer.spent + 2 * TimeLimit(trainingConfig, s) <= 2 * trainingConfig.budget + 1
           /\ s = "train" => trainer.spent + 2 * TimeLimit(trainingConfig, s) <= 2 * trainingConfig.budget
PROOF
<1> DEFINE b == trainingConfig.budget
           n == trainer.spent
<1>1. b \in Nat /\ b > 0 /\ trainingConfig.trainLimit \in Nat /\ trainingConfig.trainLimit > 0
      /\ trainingConfig.evalLimit \in Nat /\ trainingConfig.evalLimit > 0 /\ n \in Nat
  BY ConfigFacts DEF TrainingTypes, WithinBudget
<1>2. CASE s = "train"
  <2>1. n = 0 /\ TimeLimit(trainingConfig, s) = Min({trainingConfig.trainLimit, b})
    BY <1>2 DEF WithinBudget, TimeLimit
  <2>2. Min({trainingConfig.trainLimit, b}) \in Int /\ Min({trainingConfig.trainLimit, b}) <= b
        /\ Min({trainingConfig.trainLimit, b}) \in {trainingConfig.trainLimit, b}
    <3>1. trainingConfig.trainLimit \in Int /\ b \in Int
      BY <1>1
    <3> QED
      BY <3>1, MinOfTwo, Zenon
  <2> QED
    BY <1>1, <2>1, <2>2
<1>3. CASE s = "evaluate"
  <2> DEFINE left == b - n \div 2
  <2>1. TimeLimit(trainingConfig, s) = Min({trainingConfig.evalLimit, left}) /\ left > 0
    BY <1>3 DEF WithinBudget, TimeLimit, RemainingBudget
  <2>2. left \in Int /\ n + 2 * left <= 2 * b + 1
    BY <1>1
  <2> HIDE DEF left
  <2>3. Min({trainingConfig.evalLimit, left}) \in Int /\ Min({trainingConfig.evalLimit, left}) <= left
        /\ Min({trainingConfig.evalLimit, left}) \in {trainingConfig.evalLimit, left}
    <3>1. trainingConfig.evalLimit \in Int /\ left \in Int
      BY <1>1, <2>2
    <3> QED
      BY <3>1, MinOfTwo, Zenon
  <2> QED
    BY <1>1, <1>3, <2>1, <2>2, <2>3
<1> QED
  BY <1>2, <1>3 DEF Steps


\* A new attempt starts, or is deferred.
LEMMA StartKeeps == TrainingInv /\ StartTraining => TrainingInv'
PROOF
<1> SUFFICES ASSUME TrainingInv, StartTraining PROVE TrainingInv'
  OBVIOUS
<1> DEFINE deferred == TrainingGate(trainingConfig) # "none"
           n == trainings + 1
<1>1. n \in 1..MaxTrainings /\ trainings \in Nat /\ trainings' = n /\ n # 0
  <2>1. trainings \in 0..MaxTrainings /\ trainings < MaxTrainings /\ trainings' = n
    BY DEF StartTraining, TrainingInv, TrainingTypes
  <2> QED
    BY <2>1, ConfigFacts
<1>2. UNCHANGED <<trainingConfig, anchors, adapter, evaluation, report, comparison, outliving, trainingDeaths>>
  BY DEF StartTraining
<1>3. CASE deferred
  <2>1. trainer' = [pc |-> "report", spent |-> 0, ending |-> [by |-> n, status |-> "deferred", decision |-> "none"]]
        /\ jobs' = jobs
    BY <1>3 DEF StartTraining, IdleTrainer, NoReport
  <2>2. /\ trainer' = [pc |-> trainer'.pc, spent |-> trainer'.spent, ending |-> trainer'.ending]
        /\ trainer'.pc = "report" /\ trainer'.spent = 0
        /\ trainer'.ending.by = n /\ trainer'.ending.status = "deferred"
    BY <2>1
  <2> HIDE DEF n
  <2>3. TrainingTypes'
    <3>2. 0..trainings \subseteq 0..n /\ 1..trainings \subseteq 1..n /\ n \in 0..n /\ n \in 0..MaxTrainings
      BY <1>1 DEF n
    <3>1. jobs' \in [Steps -> [by : 0..n, status : {"none", "running", "completed", "failed"}]]
      BY <2>1, <3>2 DEF TrainingInv, TrainingTypes, Steps
    <3> QED
      BY <1>1, <1>2, <2>2, <3>1, <3>2 DEF TrainingInv, TrainingTypes, TrainingPcs, Ends
  <2>4. WithinBudget'
    <3>1. trainingConfig.budget \in Nat
      BY ConfigFacts DEF TrainingInv, TrainingTypes
    <3> QED
      BY <1>2, <2>2, <3>1 DEF WithinBudget
  <2>5. AdapterIsThere'
    BY <1>2, <2>2 DEF AdapterIsThere, TrainingInv
  <2>6. ReportsAreSound'
    BY <1>2, <2>2, EndingsStay DEF TrainingInv
  <2> QED
    BY <2>3, <2>4, <2>5, <2>6 DEF TrainingInv
<1>4. CASE ~deferred
  <2>1. trainer' = [pc |-> "train", spent |-> 0, ending |-> NoReport]
        /\ jobs' = [jobs EXCEPT !["train"] = [by |-> n, status |-> "running"]]
        /\ NoReport.status = "none" /\ NoReport.by = 0
    BY <1>4 DEF StartTraining, IdleTrainer, NoReport
  <2>2. /\ trainer' = [pc |-> trainer'.pc, spent |-> trainer'.spent, ending |-> trainer'.ending]
        /\ trainer'.pc = "train" /\ trainer'.spent = 0
        /\ trainer'.ending.by = 0 /\ trainer'.ending.status = "none"
    BY <2>1
  <2>7. AnchorsReady
    BY <1>4 DEF TrainingGate, AnchorsReady
  <2> HIDE DEF n
  <2>3. TrainingTypes'
    <3>2. 0..trainings \subseteq 0..n /\ 1..trainings \subseteq 1..n /\ n \in 0..n /\ n \in 0..MaxTrainings /\ 0 \in 0..n
      BY <1>1 DEF n
    <3>1. jobs' \in [Steps -> [by : 0..n, status : {"none", "running", "completed", "failed"}]]
      BY <2>1, <3>2 DEF TrainingInv, TrainingTypes, Steps
    <3> QED
      BY <1>1, <1>2, <2>2, <3>1, <3>2 DEF TrainingInv, TrainingTypes, TrainingPcs, Ends
  <2>4. WithinBudget'
    <3>1. trainingConfig.budget \in Nat
      BY ConfigFacts DEF TrainingInv, TrainingTypes
    <3> QED
      BY <1>2, <2>2, <3>1 DEF WithinBudget
  <2>5. AdapterIsThere'
    BY <1>2, <2>2 DEF AdapterIsThere, TrainingInv
  <2>6. ReportsAreSound'
    BY <1>2, <2>2, <2>7, EndingsStay DEF TrainingInv
  <2> QED
    BY <2>3, <2>4, <2>5, <2>6 DEF TrainingInv
<1> QED
  BY <1>3, <1>4


Jobs == [Steps -> [by : 0..trainings, status : {"none", "running", "completed", "failed"}]]

\* What the steps of an attempt have in common.
LEMMA AttemptKeeps ==
    ASSUME TrainingInv, trainings # 0, UNCHANGED <<trainingConfig, anchors, trainings>>,
           trainer' = [pc |-> trainer'.pc, spent |-> trainer'.spent, ending |-> trainer'.ending],
           trainer'.pc \in TrainingPcs,
           \/ trainer'.ending = trainer.ending
           \/ /\ trainer'.ending.by \in {0, trainings} /\ trainer'.ending.status \in Ends
              /\ trainer'.ending.status = "completed" => Sound(trainer'.ending),
           jobs' \in Jobs, comparison' \in {comparison, trainings}, report' \in {report, trainer.ending},
           adapter' \in 0..trainings, adapter # 0 => adapter' # 0,
           evaluation' # Absent => evaluation'.of # 0 /\ evaluation'.metrics \in AdaptedMetrics,
           outliving' \subseteq Steps \X (1..trainings),
           \A o \in outliving' : o[1] = "evaluate" => adapter # 0,
           trainingDeaths' \in 0..MaxTrainingDeaths,
           WithinBudget',
           trainer'.pc \in {"evaluate", "evaluated"} => adapter # 0,
           trainer'.pc \in {"train", "trained", "evaluate", "evaluated"} =>
             trainer.pc \in {"train", "trained", "evaluate", "evaluated"}
    PROVE  TrainingInv'
PROOF
<1>1. trainer'.ending.by \in 0..trainings /\ trainer'.ending.status \in Ends
  BY DEF TrainingInv, TrainingTypes
<1>2. comparison' \in 0..trainings /\ report'.by \in 0..trainings /\ report'.status \in Ends
  BY DEF TrainingInv, TrainingTypes
<1>3. TrainingTypes'
  BY <1>1, <1>2 DEF TrainingInv, TrainingTypes, Jobs
<1>4. AdapterIsThere'
  BY DEF AdapterIsThere
<1>5. ReportsAreSound'
  BY EndingsStay DEF TrainingInv
<1> QED
  BY <1>3, <1>4, <1>5 DEF TrainingInv

LEMMA CommandWrites ==
    ASSUME TrainingInv, NEW s \in Steps, trainer.pc = s, MayWrite(s)
    PROVE  /\ adapter' \in 0..trainings /\ (adapter # 0 => adapter' # 0)
           /\ evaluation' # Absent => evaluation'.of # 0 /\ evaluation'.metrics \in AdaptedMetrics
           /\ trainings # 0 /\ trainings \in Nat
PROOF
<1>1. trainings # 0 /\ trainings \in Nat /\ adapter \in 0..trainings
  <2>1. trainings \in 0..MaxTrainings /\ trainings # 0 /\ adapter \in 0..trainings
    BY DEF TrainingInv, TrainingTypes, Steps
  <2> QED
    BY <2>1, ConfigFacts
<1>2. evaluation # Absent => evaluation.of # 0 /\ evaluation.metrics \in AdaptedMetrics
  BY DEF TrainingInv, AdapterIsThere
<1>3. s = "evaluate" => adapter # 0
  BY DEF TrainingInv, AdapterIsThere
<1> QED
  BY <1>1, <1>2, <1>3 DEF MayWrite

LEMMA JobTypes ==
    ASSUME TrainingInv, NEW s \in Steps, NEW status \in {"none", "running", "completed", "failed"},
           jobs' = jobs \/ JobEnds(s, status)
    PROVE  jobs' \in Jobs
PROOF
<1>1. trainings \in 0..trainings
  <2>1. trainings \in 0..MaxTrainings
    BY DEF TrainingInv, TrainingTypes
  <2> QED
    BY <2>1, ConfigFacts
<1> QED
  BY <1>1 DEF TrainingInv, TrainingTypes, Jobs, JobEnds

\* An attempt that ends without a judgement.
LEMMA EndsFacts ==
    EndsWith("failed") = [trainer EXCEPT !.pc = "report",
                             !.ending = [by |-> trainings, status |-> "failed", decision |-> "none"]]
PROOF
<1>1. [NoReport EXCEPT !.by = trainings] = [by |-> trainings, status |-> "none", decision |-> "none"]
  BY DEF NoReport
<1>2. [[by |-> trainings, status |-> "none", decision |-> "none"] EXCEPT !.status = "failed"] =
        [by |-> trainings, status |-> "failed", decision |-> "none"]
  OBVIOUS
<1>3. [NoReport EXCEPT !.by = trainings, !.status = "failed"] =
        [by |-> trainings, status |-> "failed", decision |-> "none"]
  BY <1>1, <1>2, Zenon
<1> QED
  BY <1>3 DEF EndsWith

\* The same, over the fields of the process.
LEMMA EndsRecord ==
    ASSUME trainer = [pc |-> trainer.pc, spent |-> trainer.spent, ending |-> trainer.ending]
    PROVE  EndsWith("failed") =
             [pc |-> "report", spent |-> trainer.spent,
              ending |-> [by |-> trainings, status |-> "failed", decision |-> "none"]]
PROOF
<1> DEFINE E == [by |-> trainings, status |-> "failed", decision |-> "none"]
           Reporting == [pc |-> "report", spent |-> trainer.spent, ending |-> trainer.ending]
<1>1. [trainer EXCEPT !.pc = "report"] = Reporting
  OBVIOUS
<1>2. [Reporting EXCEPT !.ending = E] = [pc |-> "report", spent |-> trainer.spent, ending |-> E]
  OBVIOUS
<1>3. EndsWith("failed") = [trainer EXCEPT !.pc = "report", !.ending = E]
  BY EndsFacts
<1> HIDE DEF Reporting, E
<1>4. EndsWith("failed") = [Reporting EXCEPT !.ending = E]
  BY <1>1, <1>3, Zenon
<1> QED
  BY <1>2, <1>4 DEF E

LEMMA CommandExitsKeeps ==
    ASSUME TrainingInv, NEW s \in Steps, CommandExits(s)
    PROVE  TrainingInv'
PROOF
<1>1. trainer.pc = s /\ MayWrite(s)
  BY DEF CommandExits
<1>2. PICK t \in 0..2 * TimeLimit(trainingConfig, s) - 1, ok \in BOOLEAN :
        /\ JobEnds(s, IF ok THEN "completed" ELSE "failed")
        /\ LET after == [trainer EXCEPT !.spent = @ + t] IN
           trainer' = IF ok THEN [after EXCEPT !.pc = IF s = "train" THEN "trained" ELSE "evaluated"]
                      ELSE [EndsWith("failed") EXCEPT !.spent = after.spent]
  BY DEF CommandExits
<1>3. trainer = [pc |-> trainer.pc, spent |-> trainer.spent, ending |-> trainer.ending]
  BY DEF TrainingInv, TrainingTypes
<1>4. UNCHANGED <<trainingConfig, anchors, trainings, trainingDeaths, report, comparison, outliving>>
  BY DEF CommandExits, KeepTrainingEnv
<1>5. /\ t \in Nat /\ trainer.spent + t \in Nat
      /\ trainer.spent + t <= 2 * trainingConfig.budget + 1
      /\ (s = "train" => trainer.spent + t <= 2 * trainingConfig.budget)
  <2>1. /\ TimeLimit(trainingConfig, s) \in Int /\ TimeLimit(trainingConfig, s) > 0
        /\ trainer.spent + 2 * TimeLimit(trainingConfig, s) <= 2 * trainingConfig.budget + 1
        /\ s = "train" => trainer.spent + 2 * TimeLimit(trainingConfig, s) <= 2 * trainingConfig.budget
    BY <1>1, LimitFacts DEF TrainingInv
  <2>2. trainer.spent \in Nat /\ trainingConfig.budget \in Nat
    BY ConfigFacts DEF TrainingInv, TrainingTypes, WithinBudget
  <2> QED
    BY <2>1, <2>2
<1>6. jobs' \in Jobs
  BY <1>2, JobTypes
<1>7. /\ trainer' = [pc |-> trainer'.pc, spent |-> trainer'.spent, ending |-> trainer'.ending]
      /\ trainer'.spent = trainer.spent + t
      /\ \/ /\ trainer'.ending = trainer.ending
            /\ trainer'.pc = IF s = "train" THEN "trained" ELSE "evaluated"
         \/ /\ trainer'.ending.by = trainings /\ trainer'.ending.status = "failed"
            /\ trainer'.pc = "report"
  <2>1. CASE ok
    BY <1>2, <1>3, <2>1
  <2>2. CASE ~ok
    <3>1. trainer' = [EndsWith("failed") EXCEPT !.spent = trainer.spent + t]
      BY <1>2, <1>3, <2>2
    <3>2. trainer' = [pc |-> "report", spent |-> trainer.spent + t,
                      ending |-> [by |-> trainings, status |-> "failed", decision |-> "none"]]
      BY <1>3, <3>1, EndsRecord
    <3> QED
      BY <3>2
  <2> QED
    BY <2>1, <2>2
<1>8. WithinBudget'
  <2>1. trainer'.pc \notin {"train", "evaluate"} /\ (trainer'.pc = "trained" => s = "train")
    BY <1>7
  <2> QED
    <3>1. trainer'.spent \in Nat /\ trainer'.spent <= 2 * trainingConfig.budget + 1
          /\ (s = "train" => trainer'.spent <= 2 * trainingConfig.budget)
      BY <1>5, <1>7
    <3>2. trainingConfig' = trainingConfig
      BY <1>4
    <3> QED
      BY <2>1, <3>1, <3>2 DEF WithinBudget
<1>9. /\ adapter' \in 0..trainings /\ (adapter # 0 => adapter' # 0)
      /\ evaluation' # Absent => evaluation'.of # 0 /\ evaluation'.metrics \in AdaptedMetrics
      /\ trainings # 0
  BY <1>1, CommandWrites
<1>10. /\ outliving' \subseteq Steps \X (1..trainings) /\ trainingDeaths' \in 0..MaxTrainingDeaths
       /\ \A o \in outliving' : o[1] = "evaluate" => adapter # 0
  BY <1>4 DEF TrainingInv, TrainingTypes, AdapterIsThere
<1>11. s = "evaluate" => adapter # 0
  BY <1>1 DEF TrainingInv, AdapterIsThere
<1>12. trainer'.pc \in TrainingPcs /\ "failed" \in Ends
       /\ (trainer'.pc \in {"evaluate", "evaluated"} => adapter # 0)
       /\ trainer.pc \in {"train", "trained", "evaluate", "evaluated"}
  BY <1>1, <1>7, <1>11 DEF TrainingPcs, Ends, Steps
<1> QED
  BY <1>4, <1>6, <1>7, <1>8, <1>9, <1>10, <1>12, AttemptKeeps


\* Where an attempt stands: what the steps below need of the invariant.
LEMMA AttemptFacts ==
    ASSUME TrainingInv
    PROVE  /\ trainer = [pc |-> trainer.pc, spent |-> trainer.spent, ending |-> trainer.ending]
           /\ trainer.pc \in TrainingPcs /\ trainer.spent \in Nat /\ trainer.ending.status \in Ends
           /\ trainings \in Nat /\ (trainer.pc # "idle" => trainings # 0)
           /\ trainings # 0 => trainings \in 1..trainings
           /\ trainer.spent <= 2 * trainingConfig.budget + 1 /\ trainingConfig.budget \in Nat
           /\ adapter \in 0..trainings /\ jobs \in Jobs
           /\ outliving \subseteq Steps \X (1..trainings)
           /\ trainingDeaths \in 0..MaxTrainingDeaths
           /\ \A o \in outliving : o[1] = "evaluate" => adapter # 0
           /\ trainer.pc \in {"evaluate", "evaluated"} => adapter # 0
           /\ evaluation # Absent => evaluation.of # 0 /\ evaluation.metrics \in AdaptedMetrics
PROOF
<1>1. trainings \in 0..MaxTrainings /\ MaxTrainings \in Nat
  BY ConfigFacts DEF TrainingInv, TrainingTypes
<1>2. trainings \in Nat /\ (trainings # 0 => trainings \in 1..trainings)
  BY <1>1
<1>3. trainingConfig.budget \in Nat
  BY ConfigFacts DEF TrainingInv, TrainingTypes
<1> QED
  BY <1>2, <1>3 DEF TrainingInv, TrainingTypes, WithinBudget, AdapterIsThere, Jobs

\* A trainer that stops, or that only writes.
LEMMA IdleFacts == IdleTrainer.pc = "idle" /\ IdleTrainer.spent = 0 /\ IdleTrainer.ending.by = 0
                   /\ IdleTrainer.ending.status = "none"
                   /\ IdleTrainer = [pc |-> IdleTrainer.pc, spent |-> IdleTrainer.spent, ending |-> IdleTrainer.ending]
                   /\ "idle" \in TrainingPcs /\ "report" \in TrainingPcs /\ "comparison" \in TrainingPcs
                   /\ {"none", "failed", "completed", "deferred"} = Ends
BY DEF IdleTrainer, NoReport, TrainingPcs, Ends

\* The attempt is over, or about to report; what it has used may have grown.
LEMMA OverFacts ==
    ASSUME TrainingInv, UNCHANGED trainingConfig, trainer'.pc \in {"idle", "report", "comparison"},
           trainer'.spent \in Nat, trainer'.spent <= 2 * trainingConfig.budget + 1
    PROVE  /\ WithinBudget'
           /\ trainer'.pc \in TrainingPcs /\ trainer'.pc \notin {"train", "trained", "evaluate", "evaluated"}
BY DEF WithinBudget, TrainingPcs

LEMMA CannotStartKeeps ==
    ASSUME TrainingInv, NEW s \in Steps, CommandCannotStart(s)
    PROVE  TrainingInv'
PROOF
<1>1. /\ trainer.pc = s /\ trainer' = EndsWith("failed") /\ trainer.pc # "idle"
      /\ UNCHANGED <<trainingConfig, anchors, trainings, trainingDeaths, adapter, evaluation, report, comparison, outliving>>
  BY DEF CommandCannotStart, KeepTrainingEnv, Steps
<1>2. jobs' \in Jobs
  BY JobTypes DEF CommandCannotStart
<1>3. /\ trainer' = [pc |-> "report", spent |-> trainer.spent,
                     ending |-> [by |-> trainings, status |-> "failed", decision |-> "none"]]
  BY <1>1, AttemptFacts, EndsFacts
<1>4. /\ trainer' = [pc |-> trainer'.pc, spent |-> trainer'.spent, ending |-> trainer'.ending]
      /\ trainer'.pc = "report" /\ trainer'.spent = trainer.spent
      /\ trainer'.ending.by = trainings /\ trainer'.ending.status = "failed"
  BY <1>3
<1>5. WithinBudget' /\ trainer'.pc \in TrainingPcs
      /\ trainer'.pc \notin {"train", "trained", "evaluate", "evaluated"} /\ "failed" \in Ends
  BY <1>1, <1>4, AttemptFacts, IdleFacts, OverFacts
<1> QED
  BY <1>1, <1>2, <1>4, <1>5, AttemptFacts, AttemptKeeps

LEMMA TimesOutKeeps ==
    ASSUME TrainingInv, NEW s \in Steps, CommandTimesOut(s)
    PROVE  TrainingInv'
PROOF
<1> DEFINE spent == trainer.spent + 2 * TimeLimit(trainingConfig, s)
<1>1. /\ trainer.pc = s /\ trainer.pc # "idle" /\ MayWrite(s)
      /\ UNCHANGED <<trainingConfig, anchors, trainings, trainingDeaths, report, comparison>>
      /\ outliving' \subseteq outliving \cup {<<s, trainings>>}
      /\ \/ JobEnds(s, "failed") /\ trainer' = [EndsWith("failed") EXCEPT !.spent = spent]
         \/ trainer' = IdleTrainer /\ UNCHANGED jobs
  BY DEF CommandTimesOut, KeepTrainingEnv, Steps
<1>2. jobs' \in Jobs
  BY <1>1, JobTypes
<1>3. spent \in Nat /\ spent <= 2 * trainingConfig.budget + 1
  <2>1. /\ TimeLimit(trainingConfig, s) \in Int /\ TimeLimit(trainingConfig, s) > 0
        /\ spent <= 2 * trainingConfig.budget + 1
    BY <1>1, LimitFacts DEF TrainingInv
  <2> QED
    BY <2>1, AttemptFacts
<1> HIDE DEF spent
<1>4. /\ trainer' = [pc |-> trainer'.pc, spent |-> trainer'.spent, ending |-> trainer'.ending]
      /\ trainer'.pc \in {"idle", "report"} /\ trainer'.spent \in {0, spent}
      /\ trainer'.ending.by \in {0, trainings} /\ trainer'.ending.status \in {"none", "failed"}
  <2>1. CASE trainer' = IdleTrainer
    BY <2>1, IdleFacts
  <2>2. CASE trainer' = [EndsWith("failed") EXCEPT !.spent = spent]
    <3>1. trainer' = [pc |-> "report", spent |-> spent,
                      ending |-> [by |-> trainings, status |-> "failed", decision |-> "none"]]
      BY <2>2, AttemptFacts, EndsFacts
    <3> QED
      BY <3>1
  <2> QED
    BY <1>1, <2>1, <2>2
<1>5. WithinBudget' /\ trainer'.pc \in TrainingPcs
      /\ trainer'.pc \notin {"train", "trained", "evaluate", "evaluated"}
  <2>1. trainer'.spent \in Nat /\ trainer'.spent <= 2 * trainingConfig.budget + 1
    BY <1>3, <1>4, AttemptFacts
  <2> QED
    BY <1>1, <1>4, <2>1, OverFacts
<1>6. /\ adapter' \in 0..trainings /\ (adapter # 0 => adapter' # 0)
      /\ evaluation' # Absent => evaluation'.of # 0 /\ evaluation'.metrics \in AdaptedMetrics
  BY <1>1, CommandWrites
<1>7. outliving' \subseteq Steps \X (1..trainings)
      /\ \A o \in outliving' : o[1] = "evaluate" => adapter # 0
  <2>1. <<s, trainings>> \in Steps \X (1..trainings) /\ (s = "evaluate" => adapter # 0)
    BY <1>1, AttemptFacts
  <2> QED
    BY <1>1, <2>1, AttemptFacts
<1>8. trainer'.ending.status \in Ends /\ trainer'.ending.status # "completed"
  BY <1>4, IdleFacts
<1> QED
  BY <1>1, <1>2, <1>4, <1>5, <1>6, <1>7, <1>8, AttemptFacts, AttemptKeeps

LEMMA CheckKeeps == TrainingInv /\ CheckTrained => TrainingInv'
PROOF
<1> SUFFICES ASSUME TrainingInv, CheckTrained PROVE TrainingInv'
  OBVIOUS
<1> DEFINE ready == adapter # 0 /\ RemainingBudget(trainingConfig, trainer.spent) > 0
<1>1. /\ trainer.pc = "trained"
      /\ UNCHANGED <<trainingConfig, anchors, trainings, trainingDeaths, adapter, evaluation, report, comparison, outliving>>
      /\ trainer' = IF ready THEN [trainer EXCEPT !.pc = "evaluate"] ELSE EndsWith("failed")
      /\ jobs' = jobs \/ JobEnds("evaluate", "running")
  BY DEF CheckTrained, KeepTrainingEnv, JobEnds
<1>2. jobs' \in Jobs
  BY <1>1, JobTypes DEF Steps
<1>3. CASE ready
  <2>1. trainer' = [pc |-> "evaluate", spent |-> trainer.spent, ending |-> trainer.ending]
    BY <1>1, <1>3, AttemptFacts
  <2>2. /\ trainer' = [pc |-> trainer'.pc, spent |-> trainer'.spent, ending |-> trainer'.ending]
        /\ trainer'.pc = "evaluate" /\ trainer'.spent = trainer.spent /\ trainer'.ending = trainer.ending
    BY <2>1
  <2>3. WithinBudget'
    BY <1>1, <1>3, <2>2 DEF WithinBudget, TrainingInv, RemainingBudget
  <2>4. trainer'.pc \in TrainingPcs /\ adapter # 0
    BY <1>3, <2>2 DEF TrainingPcs
  <2> QED
    BY <1>1, <1>2, <2>2, <2>3, <2>4, AttemptFacts, AttemptKeeps
<1>4. CASE ~ready
  <2>1. trainer' = [pc |-> "report", spent |-> trainer.spent,
                    ending |-> [by |-> trainings, status |-> "failed", decision |-> "none"]]
    BY <1>1, <1>4, AttemptFacts, EndsFacts
  <2>2. /\ trainer' = [pc |-> trainer'.pc, spent |-> trainer'.spent, ending |-> trainer'.ending]
        /\ trainer'.pc = "report" /\ trainer'.spent = trainer.spent
        /\ trainer'.ending.by = trainings /\ trainer'.ending.status = "failed"
    BY <2>1
  <2>3. WithinBudget' /\ trainer'.pc \in TrainingPcs
        /\ trainer'.pc \notin {"train", "trained", "evaluate", "evaluated"} /\ "failed" \in Ends
    BY <1>1, <2>2, AttemptFacts, IdleFacts, OverFacts
  <2> QED
    BY <1>1, <1>2, <2>2, <2>3, AttemptFacts, AttemptKeeps
<1> QED
  BY <1>3, <1>4


LEMMA JudgeKeeps == TrainingInv /\ JudgeAdaptation => TrainingInv'
PROOF
<1> SUFFICES ASSUME TrainingInv, JudgeAdaptation PROVE TrainingInv'
  OBVIOUS
<1> DEFINE m == evaluation.metrics
           judgement == [by |-> trainings, status |-> "completed",
                         decision |-> Ratchet(trainingConfig, m), judged |-> evaluation]
<1>1. /\ trainer.pc = "evaluated" /\ trainer.pc # "idle"
      /\ UNCHANGED <<trainingConfig, anchors, trainings, trainingDeaths, jobs, adapter, evaluation, report,
                     comparison, outliving>>
  BY DEF JudgeAdaptation, KeepTrainingEnv, KeepTrainingFiles
<1>2. \/ trainer' = IdleTrainer
      \/ trainer' = EndsWith("failed")
      \/ /\ evaluation # Absent /\ m # Unreadable /\ m.score # NoMetric /\ "baseline" \in Scored
         /\ trainer' = [trainer EXCEPT !.pc = "report", !.ending = judgement]
  BY DEF JudgeAdaptation
<1>3. Sound(judgement) \/ evaluation = Absent \/ m = Unreadable \/ m.score = NoMetric \/ "baseline" \notin Scored
  <2> SUFFICES ASSUME evaluation # Absent, m # Unreadable, m.score # NoMetric, "baseline" \in Scored
               PROVE  Sound(judgement)
    OBVIOUS
  <2>1. m \in AdaptedMetrics /\ evaluation.of # 0
    BY DEF TrainingInv, AdapterIsThere
  <2>2. AnchorsReady
    BY <1>1 DEF TrainingInv, ReportsAreSound
  <2>3. judgement.decision = Ratchet(trainingConfig, m) /\ judgement.judged = evaluation
    OBVIOUS
  <2>4. Ratchet(trainingConfig, m) = "keep" => KeepIsEarned(trainingConfig, m)
    BY <2>1, EarnedByRatchet DEF TrainingInv
  <2> HIDE DEF judgement
  <2> QED
    BY <2>1, <2>2, <2>3, <2>4 DEF Sound
<1>4. /\ trainer' = [pc |-> trainer'.pc, spent |-> trainer'.spent, ending |-> trainer'.ending]
      /\ trainer'.pc \in {"idle", "report"} /\ trainer'.spent \in {0, trainer.spent}
      /\ trainer'.ending.by \in {0, trainings} /\ trainer'.ending.status \in Ends
      /\ trainer'.ending.status = "completed" => Sound(trainer'.ending)
  <2>1. CASE trainer' = IdleTrainer
    BY <2>1, IdleFacts
  <2>2. CASE trainer' = EndsWith("failed")
    <3>1. trainer' = [pc |-> "report", spent |-> trainer.spent,
                      ending |-> [by |-> trainings, status |-> "failed", decision |-> "none"]]
      BY <2>2, AttemptFacts, EndsFacts
    <3> QED
      BY <3>1, IdleFacts
  <2>3. CASE Sound(judgement) /\ trainer' = [trainer EXCEPT !.pc = "report", !.ending = judgement]
    <3>1. judgement.by = trainings /\ judgement.status = "completed"
      OBVIOUS
    <3> HIDE DEF judgement
    <3>2. trainer' = [pc |-> "report", spent |-> trainer.spent, ending |-> judgement]
      BY <2>3, AttemptFacts
    <3>3. trainer'.ending = judgement /\ trainer'.pc = "report" /\ trainer'.spent = trainer.spent
          /\ trainer' = [pc |-> trainer'.pc, spent |-> trainer'.spent, ending |-> trainer'.ending]
      BY <3>2
    <3> QED
      BY <2>3, <3>1, <3>3, IdleFacts
  <2> QED
    BY <1>2, <1>3, <2>1, <2>2, <2>3
<1>5. WithinBudget' /\ trainer'.pc \in TrainingPcs
      /\ trainer'.pc \notin {"train", "trained", "evaluate", "evaluated"}
  <2>1. trainer'.spent \in Nat /\ trainer'.spent <= 2 * trainingConfig.budget + 1
    BY <1>4, AttemptFacts
  <2> QED
    BY <1>1, <1>4, <2>1, OverFacts
<1>6. jobs' \in Jobs
  BY <1>1, AttemptFacts
<1> QED
  BY <1>1, <1>4, <1>5, <1>6, AttemptFacts, AttemptKeeps

LEMMA WritesKeep == TrainingInv /\ (WriteReport \/ WriteComparison) => TrainingInv'
PROOF
<1> SUFFICES ASSUME TrainingInv, WriteReport \/ WriteComparison PROVE TrainingInv'
  OBVIOUS
<1>1. /\ trainer.pc # "idle" /\ jobs' = jobs
      /\ UNCHANGED <<trainingConfig, anchors, trainings, trainingDeaths, adapter, evaluation, outliving>>
      /\ report' \in {report, trainer.ending} /\ comparison' \in {comparison, trainings}
      /\ trainer' = IdleTrainer \/ trainer' = [trainer EXCEPT !.pc = "comparison"]
  BY DEF WriteReport, WriteComparison, KeepTrainingEnv
<1>2. /\ trainer' = [pc |-> trainer'.pc, spent |-> trainer'.spent, ending |-> trainer'.ending]
      /\ trainer'.pc \in {"idle", "comparison"} /\ trainer'.spent \in {0, trainer.spent}
      /\ \/ trainer'.ending = trainer.ending
         \/ trainer'.ending.by = 0 /\ trainer'.ending.status = "none"
  <2>1. CASE trainer' = IdleTrainer
    BY <2>1, IdleFacts
  <2>2. CASE trainer' = [trainer EXCEPT !.pc = "comparison"]
    <3>1. trainer' = [pc |-> "comparison", spent |-> trainer.spent, ending |-> trainer.ending]
      BY <2>2, AttemptFacts
    <3> QED
      BY <3>1
  <2> QED
    BY <1>1, <2>1, <2>2
<1>3. WithinBudget' /\ trainer'.pc \in TrainingPcs
      /\ trainer'.pc \notin {"train", "trained", "evaluate", "evaluated"} /\ "none" \in Ends
  <2>1. trainer'.spent \in Nat /\ trainer'.spent <= 2 * trainingConfig.budget + 1
    BY <1>2, AttemptFacts
  <2> QED
    BY <1>1, <1>2, <2>1, OverFacts, IdleFacts
<1> QED
  BY <1>1, <1>2, <1>3, AttemptFacts, AttemptKeeps

LEMMA DiesKeeps == TrainingInv /\ TrainingDies => TrainingInv'
PROOF
<1> SUFFICES ASSUME TrainingInv, TrainingDies PROVE TrainingInv'
  OBVIOUS
<1>1. /\ trainer.pc # "idle" /\ trainer' = IdleTrainer
      /\ UNCHANGED <<trainingConfig, anchors, trainings, jobs, adapter, evaluation, report, comparison>>
      /\ outliving' \subseteq outliving \cup {<<trainer.pc, trainings>>}
      /\ outliving' # outliving => trainer.pc \in Steps
  BY DEF TrainingDies
<1>2. trainingDeaths' \in 0..MaxTrainingDeaths
  <2>1. trainingDeaths \in 0..MaxTrainingDeaths /\ MaxTrainingDeaths \in Nat
    BY AttemptFacts, ConfigFacts
  <2> QED
    BY <2>1 DEF TrainingDies
<1>3. WithinBudget' /\ trainer'.pc \in TrainingPcs
      /\ trainer'.pc \notin {"train", "trained", "evaluate", "evaluated"} /\ "none" \in Ends
  <2>1. trainer'.pc = "idle" /\ trainer'.spent = 0
    BY <1>1, IdleFacts
  <2>2. trainer'.spent \in Nat /\ trainer'.spent <= 2 * trainingConfig.budget + 1
    BY <2>1, AttemptFacts
  <2> QED
    BY <1>1, <2>1, <2>2, OverFacts, IdleFacts
<1>4. outliving' \subseteq Steps \X (1..trainings)
      /\ \A o \in outliving' : o[1] = "evaluate" => adapter # 0
  <2>1. CASE outliving' = outliving
    BY <2>1, AttemptFacts
  <2>2. CASE outliving' # outliving
    <3>1. <<trainer.pc, trainings>> \in Steps \X (1..trainings) /\ (trainer.pc = "evaluate" => adapter # 0)
      BY <1>1, <2>2, AttemptFacts
    <3> QED
      BY <1>1, <3>1, AttemptFacts
  <2> QED
    BY <2>1, <2>2
<1>5. /\ trainer' = [pc |-> trainer'.pc, spent |-> trainer'.spent, ending |-> trainer'.ending]
      /\ trainer'.ending.by = 0 /\ trainer'.ending.status = "none"
  BY <1>1, IdleFacts
<1>6. jobs' \in Jobs /\ trainings # 0 /\ adapter' \in 0..trainings
      /\ (evaluation' # Absent => evaluation'.of # 0 /\ evaluation'.metrics \in AdaptedMetrics)
  BY <1>1, AttemptFacts
<1> QED
  BY <1>1, <1>2, <1>3, <1>4, <1>5, <1>6, AttemptKeeps

LEMMA OutlivingKeeps ==
    ASSUME TrainingInv, NEW o \in outliving, OutlivingWrites(o)
    PROVE  TrainingInv'
PROOF
<1>1. /\ outliving' \subseteq outliving
      /\ UNCHANGED <<trainingConfig, anchors, trainings, trainingDeaths, trainer, jobs, report, comparison>>
  BY DEF OutlivingWrites, KeepTrainingEnv
<1>2. o \in Steps \X (1..trainings) /\ o[2] \in 1..trainings /\ trainings \in Nat /\ trainings # 0
  <2>1. o \in Steps \X (1..trainings) /\ trainings \in Nat
    BY AttemptFacts
  <2>2. o[2] \in 1..trainings
    BY <2>1
  <2> QED
    BY <2>1, <2>2
<1>3. adapter' \in 0..trainings /\ (adapter # 0 => adapter' # 0)
  BY <1>2, AttemptFacts DEF OutlivingWrites
<1>4. evaluation' # Absent => evaluation'.of # 0 /\ evaluation'.metrics \in AdaptedMetrics
  BY AttemptFacts DEF OutlivingWrites
<1>5. WithinBudget'
  BY <1>1 DEF TrainingInv, WithinBudget
<1>6. /\ outliving' \subseteq Steps \X (1..trainings)
      /\ \A p \in outliving' : p[1] = "evaluate" => adapter # 0
      /\ trainer'.pc \in TrainingPcs
      /\ trainer' = [pc |-> trainer'.pc, spent |-> trainer'.spent, ending |-> trainer'.ending]
      /\ jobs' \in Jobs /\ trainingDeaths' \in 0..MaxTrainingDeaths
      /\ (trainer'.pc \in {"evaluate", "evaluated"} => adapter # 0)
  BY <1>1, AttemptFacts
<1> QED
  BY <1>1, <1>2, <1>3, <1>4, <1>5, <1>6, AttemptKeeps

\* A metrics file arrives: never once an attempt has passed its gate.
LEMMA ArrivesKeeps ==
    ASSUME TrainingInv, NEW a \in DOMAIN anchors, AnchorArrives(a)
    PROVE  TrainingInv'
PROOF
<1>1. /\ UNCHANGED <<trainingConfig, trainer, jobs, adapter, evaluation, report, comparison, outliving,
                     trainings, trainingDeaths>>
      /\ trainer.pc = "idle"
  BY DEF AnchorArrives
<1>2. ~AnchorsReady
  BY DEF AnchorArrives, AnchorsReady, TrainingInv, TrainingTypes
<1>3. anchors' \in [{"baseline", "intervention"} -> AnchorMetrics \cup {Absent}]
      /\ (~trainingConfig.intervention => anchors'["intervention"] = Absent)
  BY DEF AnchorArrives, TrainingInv, TrainingTypes
<1>4. trainer.ending.status # "completed" /\ report.status # "completed"
  BY <1>2 DEF TrainingInv, ReportsAreSound, Sound
<1>5. ReportsAreSound'
  BY <1>1, <1>4 DEF ReportsAreSound, Sound
<1>6. TrainingTypes'
  BY <1>1, <1>3 DEF TrainingInv, TrainingTypes
<1>7. WithinBudget' /\ AdapterIsThere'
  BY <1>1 DEF TrainingInv, WithinBudget, AdapterIsThere
<1> QED
  BY <1>5, <1>6, <1>7 DEF TrainingInv

LEMMA StepTraining == TrainingInv /\ [TrainingNext]_trainingVars => TrainingInv'
PROOF
<1> SUFFICES ASSUME TrainingInv, [TrainingNext]_trainingVars PROVE TrainingInv'
  OBVIOUS
<1>1. ASSUME NEW s \in Steps, CommandExits(s) \/ CommandCannotStart(s) \/ CommandTimesOut(s)
      PROVE  TrainingInv'
  BY <1>1, CommandExitsKeeps, CannotStartKeeps, TimesOutKeeps
<1>2. ASSUME NEW o \in outliving, OutlivingWrites(o) PROVE TrainingInv'
  BY <1>2, OutlivingKeeps
<1>3. ASSUME NEW a \in DOMAIN anchors, AnchorArrives(a) PROVE TrainingInv'
  BY <1>3, ArrivesKeeps
<1>4. CASE UNCHANGED trainingVars
  <2>1. UNCHANGED <<trainingConfig, trainer, jobs, anchors, adapter, evaluation, report, comparison, outliving,
                    trainings, trainingDeaths>>
    BY <1>4 DEF trainingVars
  <2>2. ReportsAreSound'
    BY <2>1, EndingsStay DEF TrainingInv
  <2>3. TrainingTypes' /\ WithinBudget' /\ AdapterIsThere'
    BY <2>1 DEF TrainingInv, TrainingTypes, WithinBudget, AdapterIsThere
  <2> QED
    BY <2>2, <2>3 DEF TrainingInv
<1> QED
  BY <1>1, <1>2, <1>3, <1>4, StartKeeps, CheckKeeps, JudgeKeeps, WritesKeep, DiesKeeps DEF TrainingNext

\* What a completed training promises (adaptation_training_runtime, metric_ratchets).
THEOREM TrainingsHold == TrainingSpec => []TrainingHolds
PROOF
<1>1. TrainingInv => TrainingHolds
  <2> SUFFICES ASSUME TrainingInv PROVE TrainingHolds
    OBVIOUS
  <2>1. trainer.spent <= 2 * trainingConfig.budget + 1 /\ Sound(report)
    BY DEF TrainingInv, WithinBudget, ReportsAreSound
  <2> QED
    BY <2>1 DEF TrainingHolds, Sound
<1> QED
  BY <1>1, TrainingInitHolds, StepTraining, PTL DEF TrainingSpec

LEMMA TrainingTypeCorrect == TrainingSpec => []TrainingTypeOK
PROOF
<1>1. TrainingInv => TrainingTypeOK
  <2> SUFFICES ASSUME TrainingInv PROVE TrainingTypeOK
    OBVIOUS
  <2>1. \A s \in Steps : jobs[s].by \in 0..trainings /\ jobs[s].status \in {"none", "running", "completed", "failed"}
    BY DEF TrainingInv, TrainingTypes
  <2>2. outliving \subseteq Steps \X (1..MaxTrainings)
    <3>1. trainings \in 0..MaxTrainings /\ MaxTrainings \in Nat
      BY ConfigFacts DEF TrainingInv, TrainingTypes
    <3>2. 1..trainings \subseteq 1..MaxTrainings
      BY <3>1
    <3> QED
      BY <3>2, AttemptFacts
  <2> QED
    BY <2>1, <2>2 DEF TrainingInv, TrainingTypes, TrainingTypeOK, TrainingPcs, Ends
<1> QED
  BY <1>1, TrainingInitHolds, StepTraining, PTL DEF TrainingSpec

----------------------------------------------------------------------------
(* The acceptance criteria. *)

\* What the criteria find fulfilled stays so until a record changes.
CompletedMet ==
    campaign = "complete" /\ ~touched /\ criteria.gated /\ criteria.requested => CriteriaMet
Named == [of : Methods, name : Names]
EvidenceIs == evidence \in [Kinds \cup {"artifacts"} -> SUBSET (Named \cup Artifacts)]
Line == [by : {"agent"}, of : Methods, name : Names, kinds : SUBSET Kinds, status : {"completed", "failed"}]
        \cup [by : {"loop"}, of : Actions, name : Actions, kinds : SUBSET {"novel"}, status : {"completed", "failed"}]
AcceptanceInv == AcceptanceTypeOK /\ EvidenceIs /\ criteria \in CriteriaValues /\ touched \in BOOLEAN /\ CompletedMet

LEMMA AcceptanceInitHolds == AcceptanceInit => AcceptanceInv
PROOF
<1> SUFFICES ASSUME AcceptanceInit PROVE AcceptanceInv
  OBVIOUS
<1>1. AcceptanceTypeOK
  <2>1. \A k \in Kinds : evidence[k] \subseteq [of : Methods, name : Names]
    BY DEF AcceptanceInit, Kinds
  <2>2. campaignWrites \in 0..MaxCampaignWrites
    BY AcceptanceAssumption DEF AcceptanceInit
  <2>3. coverage \in [Methods -> CoverageStatus] /\ experiments = {} /\ artifacts \subseteq Artifacts
    BY DEF AcceptanceInit, CoverageStatus
  <2>4. acceptance.status = "none" /\ acceptance.executed = {} /\ campaign = "research"
    BY DEF AcceptanceInit, NoTables
  <2> QED
    BY <2>1, <2>2, <2>3, <2>4 DEF AcceptanceTypeOK
<1>2. EvidenceIs
  BY DEF AcceptanceInit, EvidenceIs, Kinds
<1> QED
  BY <1>1, <1>2 DEF AcceptanceInit, AcceptanceInv, CompletedMet

LEMMA TablesTypes ==
    ASSUME AcceptanceTypeOK, PackageTables
    PROVE  AcceptanceTypeOK'
PROOF
<1>1. acceptance'.status \in {"not-requested", "met", "unmet"}
  BY DEF PackageTables
<1>2. acceptance'.executed \subseteq Methods
  BY DEF PackageTables
<1> QED
  BY <1>1, <1>2 DEF AcceptanceTypeOK, PackageTables, KeepRecords

\* The records keep their types.
LEMMA RecordTypes ==
    ASSUME AcceptanceTypeOK, EvidenceIs, Writes,
           \/ \E a \in Actions, kinds \in SUBSET {"novel"}, status \in {"completed", "failed"} : RecordExecution(a, kinds, status)
           \/ \E line \in LineValues, status \in {"completed", "failed"} : RecordExperiment(line, status)
           \/ \E m \in Methods, status \in CoverageStatus \ {"none"} : UpdateCoverage(m, status)
           \/ \E k \in Kinds, m \in Methods : \E name \in NamesOf[m] : ClaimMethod(k, m, name)
           \/ \E a \in Artifacts : ClaimArtifact(a) \/ ArtifactChanges(a)
    PROVE  AcceptanceTypeOK' /\ EvidenceIs'
PROOF
<1>1. campaignWrites' \in 0..MaxCampaignWrites /\ UNCHANGED <<criteria, campaign, acceptance>>
  BY AcceptanceAssumption DEF Writes, AcceptanceTypeOK
<1> DEFINE EvidenceFits(e) ==
             /\ \A k \in Kinds : e[k] \subseteq Named
             /\ e \in [Kinds \cup {"artifacts"} -> SUBSET (Named \cup Artifacts)]
<1>2. /\ EvidenceFits(evidence') /\ coverage' \in [Methods -> CoverageStatus]
      /\ experiments' \subseteq Line
      /\ artifacts' \subseteq Artifacts
  <2> USE DEF AcceptanceTypeOK, EvidenceIs
  <2>0. /\ EvidenceFits(evidence) /\ experiments \subseteq Line
    BY DEF Named, Line
  <2>1. CASE \E a \in Actions, kinds \in SUBSET {"novel"}, status \in {"completed", "failed"} :
               RecordExecution(a, kinds, status)
    <3>1. PICK a \in Actions, kinds \in SUBSET {"novel"}, status \in {"completed", "failed"} :
                 RecordExecution(a, kinds, status)
      BY <2>1
    <3>2. [by |-> "loop", of |-> a, name |-> a, kinds |-> kinds, status |-> status] \in Line
      BY DEF Line
    <3> QED
      BY <2>0, <3>1, <3>2 DEF RecordExecution
  <2>2. CASE \E line \in LineValues, status \in {"completed", "failed"} : RecordExperiment(line, status)
    <3>1. PICK line \in LineValues, status \in {"completed", "failed"} : RecordExperiment(line, status)
      BY <2>2
    <3>2. line.of \in Methods /\ line.name \in Names /\ line.kinds \subseteq Kinds
      BY AcceptanceAssumption DEF Names
    <3>3. [by |-> "agent", of |-> line.of, name |-> line.name, kinds |-> line.kinds, status |-> status] \in Line
      BY <3>2 DEF Line
    <3> QED
      BY <2>0, <3>1, <3>3 DEF RecordExperiment
  <2>3. CASE \E m \in Methods, status \in CoverageStatus \ {"none"} : UpdateCoverage(m, status)
    BY <2>0, <2>3 DEF UpdateCoverage
  <2>4. CASE \E k \in Kinds, m \in Methods : \E name \in NamesOf[m] : ClaimMethod(k, m, name)
    <3>1. PICK k \in Kinds, m \in Methods, name \in Names : ClaimMethod(k, m, name)
      BY <2>4 DEF Names
    <3> DEFINE item == [of |-> m, name |-> name]
    <3>2. item \in Named
      BY DEF Named
    <3>3. evidence' = [evidence EXCEPT ![k] = evidence[k] \cup {item}] /\ UNCHANGED <<coverage, experiments, artifacts>>
      BY <3>1 DEF ClaimMethod
    <3> HIDE DEF item
    <3>4. \A j \in Kinds : evidence'[j] = evidence[j] \/ (j = k /\ evidence'[j] = evidence[j] \cup {item})
      BY <3>3
    <3>5. evidence' \in [Kinds \cup {"artifacts"} -> SUBSET (Named \cup Artifacts)]
      BY <3>2, <3>3
    <3> QED
      BY <2>0, <3>2, <3>3, <3>4, <3>5
  <2>5. CASE \E a \in Artifacts : ClaimArtifact(a) \/ ArtifactChanges(a)
    <3>1. PICK a \in Artifacts : ClaimArtifact(a) \/ ArtifactChanges(a)
      BY <2>5
    <3>2. CASE ClaimArtifact(a)
      <4>1. evidence' = [evidence EXCEPT !.artifacts = evidence.artifacts \cup {a}] /\ UNCHANGED <<coverage, experiments, artifacts>>
        BY <3>2 DEF ClaimArtifact
      <4>2. \A j \in Kinds : evidence'[j] = evidence[j]
        BY <4>1 DEF Kinds
      <4>3. evidence' \in [Kinds \cup {"artifacts"} -> SUBSET (Named \cup Artifacts)]
        BY <4>1
      <4> QED
        BY <2>0, <4>1, <4>2, <4>3
    <3>3. CASE ArtifactChanges(a)
      BY <2>0, <3>1, <3>3 DEF ArtifactChanges
    <3> QED
      BY <3>1, <3>2, <3>3
  <2> QED
    BY <2>1, <2>2, <2>3, <2>4, <2>5
<1> QED
  BY <1>1, <1>2 DEF AcceptanceTypeOK, EvidenceIs, Named, Line


LEMMA StepAcceptance == AcceptanceInv /\ [AcceptanceNext]_acceptanceVars => AcceptanceInv'
PROOF
<1> SUFFICES ASSUME AcceptanceInv, [AcceptanceNext]_acceptanceVars PROVE AcceptanceInv'
  OBVIOUS
<1> USE DEF AcceptanceInv
<1>1. CASE EnterFinalReport \/ AgentEntersFinalReport
  <2>1. campaign' = "final-report" /\ KeepRecords /\ UNCHANGED <<acceptance, touched>>
    BY <1>1 DEF EnterFinalReport, AgentEntersFinalReport
  <2> QED
    BY <2>1 DEF KeepRecords, AcceptanceTypeOK, EvidenceIs, CompletedMet
<1>2. CASE CompleteCampaign
  <2>1. campaign' = "complete" /\ touched' = FALSE /\ KeepRecords /\ UNCHANGED acceptance
    BY <1>2 DEF CompleteCampaign
  <2>2. CriteriaMet' = CriteriaMet
    BY <2>1 DEF KeepRecords, CriteriaMet, Observed, LedgerCounts, CoverageCounts, SkippedMethods, ArtifactShown
  <2>3. criteria.requested /\ criteria.gated => CriteriaMet
    BY <1>2 DEF CompleteCampaign, NoAcceptanceBlockers
  <2> QED
    BY <2>1, <2>2, <2>3 DEF KeepRecords, AcceptanceTypeOK, EvidenceIs, CompletedMet
<1>3. CASE PackageTables
  <2>1. AcceptanceTypeOK'
    BY <1>3, TablesTypes
  <2>2. KeepRecords /\ UNCHANGED <<campaign, touched>>
    BY <1>3 DEF PackageTables
  <2>3. CriteriaMet' = CriteriaMet
    BY <2>2 DEF KeepRecords, CriteriaMet, Observed, LedgerCounts, CoverageCounts, SkippedMethods, ArtifactShown
  <2> QED
    BY <2>1, <2>2, <2>3 DEF KeepRecords, EvidenceIs, CompletedMet
<1>4. CASE UNCHANGED acceptanceVars
  <2>1. CriteriaMet' = CriteriaMet
    BY <1>4 DEF acceptanceVars, CriteriaMet, Observed, LedgerCounts, CoverageCounts, SkippedMethods, ArtifactShown
  <2> QED
    BY <1>4, <2>1 DEF acceptanceVars, AcceptanceTypeOK, EvidenceIs, CompletedMet
<1>5. CASE \/ \E a \in Actions, kinds \in SUBSET {"novel"}, status \in {"completed", "failed"} : RecordExecution(a, kinds, status)
           \/ \E line \in LineValues, status \in {"completed", "failed"} : RecordExperiment(line, status)
           \/ \E m \in Methods, status \in CoverageStatus \ {"none"} : UpdateCoverage(m, status)
           \/ \E k \in Kinds, m \in Methods : \E name \in NamesOf[m] : ClaimMethod(k, m, name)
           \/ \E a \in Artifacts : ClaimArtifact(a) \/ ArtifactChanges(a)
  <2>1. Writes
    BY <1>5 DEF RecordExecution, RecordExperiment, UpdateCoverage, ClaimMethod, ClaimArtifact, ArtifactChanges
  <2>2. AcceptanceTypeOK' /\ EvidenceIs'
    BY <1>5, <2>1, RecordTypes
  <2>3. touched' = TRUE /\ criteria' = criteria
    BY <2>1 DEF Writes
  <2> QED
    BY <2>2, <2>3 DEF CompletedMet
<1> QED
  BY <1>1, <1>2, <1>3, <1>4, <1>5 DEF AcceptanceNext

\* What the records say, in the terms of the criteria.
LEMMA RecordsCount ==
    ASSUME NEW k
    PROVE  RecordedAs(k) = evidence[k]
             \cup {[of |-> m, name |-> m] : m \in CoverageCounts(k)}
             \cup {[of |-> e.of, name |-> e.name] : e \in {x \in LedgerCounts(k) : x.by = "agent"}}
PROOF
<1>1. CoverageCounts(k) = {x \in OfKind[k] :
        coverage[x] \in {"evaluated", "completed"} \/ (k = "novel" /\ coverage[x] # "none")}
  BY DEF CoverageCounts
<1>2. {x \in LedgerCounts(k) : x.by = "agent"} = {x \in experiments :
        x.by = "agent" /\ k \in x.kinds /\ (k = "novel" \/ x.status = "completed")}
  BY DEF LedgerCounts
<1> QED
  BY <1>1, <1>2 DEF RecordedAs

\* A name the criteria count is one that a record gives its method, or the entry of the outer loop's own line.
LEMMA ObservedNames ==
    ASSUME NEW k \in Kinds, AcceptanceInv
    PROVE  /\ RecordedMethods(k) \subseteq Methods
           /\ \A n \in Observed(k) : LoopCounted(k) \/ \E x \in RecordedAs(k) : x.name = n
PROOF
<1>1. evidence[k] \subseteq Named /\ CoverageCounts(k) \subseteq Methods /\ experiments \subseteq Line
  BY AcceptanceAssumption DEF AcceptanceInv, AcceptanceTypeOK, Named, Line, CoverageCounts
<1>2. RecordedMethods(k) \subseteq Methods
  <2> SUFFICES ASSUME NEW x \in RecordedAs(k) PROVE x.of \in Methods
    BY DEF RecordedMethods
  <2>1. CASE x \in evidence[k]
    BY <1>1, <2>1 DEF Named
  <2>2. CASE \E m \in CoverageCounts(k) : x = [of |-> m, name |-> m]
    BY <1>1, <2>2
  <2>3. CASE \E e \in LedgerCounts(k) : e.by = "agent" /\ x = [of |-> e.of, name |-> e.name]
    <3>1. PICK e \in LedgerCounts(k) : e.by = "agent" /\ x = [of |-> e.of, name |-> e.name]
      BY <2>3
    <3>2. e \in Line
      BY <1>1, <3>1 DEF LedgerCounts
    <3>3. e.of \in Methods
      BY <3>1, <3>2 DEF Line
    <3> QED
      BY <3>1, <3>3
  <2> QED
    BY <2>1, <2>2, <2>3, RecordsCount
<1>3. ASSUME NEW n \in Observed(k), ~LoopCounted(k)
      PROVE  \E x \in RecordedAs(k) : x.name = n
  <2>1. CASE \E x \in evidence[k] : x.name = n
    BY <2>1, RecordsCount
  <2>2. CASE n \in CoverageCounts(k)
    <3>1. [of |-> n, name |-> n] \in RecordedAs(k) /\ [of |-> n, name |-> n].name = n
      BY <2>2, RecordsCount
    <3> QED
      BY <3>1
  <2>3. CASE \E e \in LedgerCounts(k) : e.name = n
    <3>1. PICK e \in LedgerCounts(k) : e.name = n
      BY <2>3
    <3>2. e \in Line /\ e \in experiments /\ k \in e.kinds
      BY <1>1, <3>1 DEF LedgerCounts
    <3>3. e.by = "agent"
      BY <1>3, <3>2 DEF LoopCounted, Line
    <3>4. [of |-> e.of, name |-> e.name] \in RecordedAs(k) /\ [of |-> e.of, name |-> e.name].name = n
      BY <3>1, <3>3, RecordsCount
    <3> QED
      BY <3>4
  <2> QED
    BY <2>1, <2>2, <2>3 DEF Observed
<1> QED
  BY <1>2, <1>3

\* Where every method goes by one name, there are at least as many methods as names.
LEMMA NamesAreMethods ==
    ASSUME NEW k \in Kinds, AcceptanceInv, ~CountedTwice(k), ~LoopCounted(k)
    PROVE  /\ Cardinality(Observed(k)) <= Cardinality(RecordedMethods(k))
           /\ Cardinality(Observed(k)) \in Nat /\ Cardinality(RecordedMethods(k)) \in Nat
PROOF
<1> DEFINE S == RecordedMethods(k)
           T == Observed(k)
           N == {x.name : x \in RecordedAs(k)}
           f == [m \in S |-> CHOOSE n \in N : \E x \in RecordedAs(k) : x.of = m /\ x.name = n]
<1>1. IsFiniteSet(S) /\ T \subseteq N
  <2>1. S \in SUBSET Methods /\ T \subseteq N
    BY ObservedNames
  <2> QED
    BY <2>1, AcceptanceAssumption, FS_Subset
<1>2. ASSUME NEW x \in RecordedAs(k)
      PROVE  x.of \in S /\ f[x.of] = x.name
  <2>1. x.of \in S /\ x.name \in N
    BY DEF RecordedMethods
  <2>2. \E n \in N : \E y \in RecordedAs(k) : y.of = x.of /\ y.name = n
    BY <2>1
  <2>3. \E y \in RecordedAs(k) : y.of = x.of /\ y.name = f[x.of]
    BY <2>1, <2>2
  <2> QED
    BY <2>1, <2>3 DEF CountedTwice
<1>3. f \in Surjection(S, N)
  <2>1. ASSUME NEW m \in S PROVE f[m] \in N
    <3>1. PICK x \in RecordedAs(k) : x.of = m
      BY DEF RecordedMethods
    <3> QED
      BY <1>2, <3>1
  <2>2. ASSUME NEW n \in N PROVE \E m \in S : f[m] = n
    <3>1. PICK x \in RecordedAs(k) : x.name = n
      OBVIOUS
    <3> QED
      BY <1>2, <3>1
  <2>3. f \in [S -> N]
    BY <2>1
  <2> HIDE DEF f, S, N
  <2> QED
    BY <2>2, <2>3 DEF Surjection
<1>4. IsFiniteSet(N) /\ Cardinality(N) <= Cardinality(S)
  <2> HIDE DEF f, S, N
  <2> QED
    BY <1>1, <1>3, FS_Surjection
<1>5. IsFiniteSet(T) /\ Cardinality(T) <= Cardinality(N)
  <2> HIDE DEF N, T
  <2>1. T \in SUBSET N
    BY <1>1
  <2> QED
    BY <1>4, <2>1, FS_Subset
<1>6. Cardinality(S) \in Nat /\ Cardinality(N) \in Nat /\ Cardinality(T) \in Nat
  <2> HIDE DEF N, T, S
  <2> QED
    BY <1>1, <1>4, <1>5, FS_CardinalityType
<1> HIDE DEF N, f
<1> QED
  BY <1>4, <1>5, <1>6

\* Criteria that are met are earned.
LEMMA MetIsEarned == AcceptanceInv /\ CriteriaMet => Earned
PROOF
<1> SUFFICES ASSUME AcceptanceInv, CriteriaMet PROVE Earned
  OBVIOUS
<1>1. ASSUME NEW k \in Kinds, ~LoopCounted(k)
      PROVE  /\ CountedTwice(k) \/ Cardinality(RecordedMethods(k)) >= criteria.minimum[k]
             /\ criteria.minimum[k] > 0 => RecordedMethods(k) # {}
  <2>1. Cardinality(Observed(k)) >= criteria.minimum[k] /\ criteria.minimum[k] \in Nat
    BY AcceptanceAssumption DEF CriteriaMet, AcceptanceInv
  <2>2. CASE ~CountedTwice(k)
    <3>1. /\ Cardinality(Observed(k)) <= Cardinality(RecordedMethods(k))
          /\ Cardinality(Observed(k)) \in Nat /\ Cardinality(RecordedMethods(k)) \in Nat
      BY <1>1, <2>2, NamesAreMethods
    <3> QED
      BY <2>1, <3>1, FS_EmptySet
  <2>3. CASE CountedTwice(k)
    BY <2>3 DEF CountedTwice, RecordedMethods
  <2> QED
    BY <2>2, <2>3
<1>2. criteria.artifacts \subseteq artifacts
  BY DEF CriteriaMet, ArtifactShown
<1>3. ASSUME criteria.logSkipped, NEW e \in experiments, e.status = "failed"
      PROVE  "failure log" \in artifacts
  <2>1. e.name \in SkippedMethods
    BY <1>3 DEF SkippedMethods
  <2> QED
    BY <1>3, <2>1 DEF CriteriaMet, ArtifactShown
<1> QED
  BY <1>1, <1>2, <1>3 DEF Earned

(* A gated mission completes only on records that earn it, however it came *)
(* to its final report, and until a record changes its package says so.    *)
(* The criteria count names: what MetIsEarned adds is that they stand for  *)
(* as many methods, where no method goes by two of them and no line of the *)
(* outer loop counts.                                                      *)
THEOREM CompletionsAreEarned == AcceptanceSpec => AcceptanceHolds
PROOF
<1> DEFINE Holds ==
       /\ campaign # "complete" /\ campaign' = "complete" /\ criteria.requested /\ criteria.gated => Earned
       /\ acceptance' # acceptance =>
            /\ acceptance'.executed \subseteq RecordedMethods("methods")
            /\ campaign = "complete" /\ ~touched /\ criteria.gated => acceptance'.status # "unmet"
<1>1. ASSUME AcceptanceInv, [AcceptanceNext]_acceptanceVars
      PROVE  Holds
  <2>1. CASE CompleteCampaign
    <3>1. acceptance' = acceptance /\ (criteria.requested /\ criteria.gated => CriteriaMet)
      BY <2>1 DEF CompleteCampaign, NoAcceptanceBlockers
    <3> QED
      BY <1>1, <3>1, MetIsEarned
  <2>2. CASE PackageTables
    <3>1. campaign' = campaign
      BY <2>2 DEF PackageTables
    <3>2. acceptance'.executed = {m \in Methods : coverage[m] = "evaluated"}
      BY <2>2 DEF PackageTables
    <3>3. acceptance'.executed \subseteq RecordedMethods("methods")
      <4> SUFFICES ASSUME NEW m \in Methods, coverage[m] = "evaluated" PROVE m \in RecordedMethods("methods")
        BY <3>2
      <4>1. m \in CoverageCounts("methods")
        BY AcceptanceAssumption DEF CoverageCounts
      <4>2. [of |-> m, name |-> m] \in RecordedAs("methods") /\ [of |-> m, name |-> m].of = m
        BY <4>1, RecordsCount
      <4> QED
        BY <4>2 DEF RecordedMethods
    <3>4. acceptance'.status = "unmet" => criteria.requested /\ ~CriteriaMet
      BY <2>2 DEF PackageTables
    <3> QED
      BY <1>1, <3>1, <3>3, <3>4 DEF AcceptanceInv, CompletedMet
  <2>3. CASE EnterFinalReport \/ AgentEntersFinalReport
    BY <2>3 DEF EnterFinalReport, AgentEntersFinalReport
  <2>4. CASE UNCHANGED acceptanceVars
    BY <2>4 DEF acceptanceVars
  <2>5. CASE Writes
    BY <2>5 DEF Writes
  <2> QED
    BY <1>1, <2>1, <2>2, <2>3, <2>4, <2>5
    DEF AcceptanceNext, RecordExecution, RecordExperiment, UpdateCoverage, ClaimMethod, ClaimArtifact, ArtifactChanges
<1> QED
  BY <1>1, AcceptanceInitHolds, StepAcceptance, PTL DEF AcceptanceSpec, AcceptanceHolds

LEMMA AcceptanceTypeCorrect == AcceptanceSpec => []AcceptanceTypeOK
PROOF
<1>1. AcceptanceInv => AcceptanceTypeOK
  BY DEF AcceptanceInv
<1> QED
  BY <1>1, AcceptanceInitHolds, StepAcceptance, PTL DEF AcceptanceSpec

----------------------------------------------------------------------------
(* Self-correction. *)

CorrectorIs ==
    /\ corrector = [pc |-> corrector.pc, copy |-> corrector.copy, found |-> corrector.found, read |-> corrector.read]
    /\ corrector.pc \in {"idle", "list", "read", "report", "state", "ledger"}
    /\ corrector.copy \subseteq StateEdits
    /\ corrector.found \subseteq ExperimentRuns /\ DOMAIN corrector.read \subseteq corrector.found
    /\ \A r \in corrector.found : runManifests[r] # NotWritten
    /\ \A r \in DOMAIN corrector.read : corrector.read[r] \in RunResults[r]
    /\ corrector.pc \in {"report", "state", "ledger"} =>
         DOMAIN corrector.read # {} /\ DOMAIN corrector.read \subseteq OwnRuns

ManifestsAre ==
    /\ runManifests = [r \in ExperimentRuns |-> runManifests[r]]
    /\ \A r \in ExperimentRuns : runManifests[r] \in RunResults[r] \cup {NotWritten, Unfinished}

MissionRecordIs ==
    /\ missionCorrection = [by |-> missionCorrection.by, action |-> missionCorrection.action,
                            edits |-> missionCorrection.edits]
    /\ missionCorrection.action \in Verdicts /\ missionCorrection.edits \subseteq StateEdits

CountsAre == corrections \in Nat /\ runWrites \in 0..MaxRunWrites /\ correctorDied \in BOOLEAN

\* Which edits are in the state, and in the copy that will be written back.
EditsAre ==
    /\ editedDuring \in [StateEdits -> NotMade..corrections] /\ stateWritten \subseteq 1..corrections
    /\ \A e \in StateEdits : e \notin missionCorrection.edits =>
         editedDuring[e] = NotMade \/ Cut(missionCorrection) \/ editedDuring[e] \in stateWritten
    /\ corrector.pc \notin {"idle", "ledger"} =>
         \A e \in StateEdits : e \notin corrector.copy =>
            editedDuring[e] = NotMade \/ editedDuring[e] \in stateWritten \cup {corrections}

\* What a report says of the runs it assessed.
ReportIsSound(told) ==
    LET assessed == told.assessed
    IN  /\ DOMAIN assessed # {} /\ DOMAIN assessed \subseteq OwnRuns
        /\ \A r \in DOMAIN assessed : assessed[r] \in RunResults[r]
        /\ told.action = "continue" =>
             \A r \in DOMAIN assessed : /\ assessed[r].status # "failed" /\ ~Collapsed(assessed[r])
                                        /\ assessed[r].lacksPrerequisite => assessed[r].status = "completed"
        /\ told.action = "stop" =>
             \A r \in DOMAIN assessed : assessed[r].status = "failed" \/ Collapsed(assessed[r])
        /\ told.anchor # "none" =>
             /\ KindOf[told.anchor] = "baseline-eval" /\ assessed[told.anchor].accuracy > CollapseMax
             /\ \A r \in DOMAIN assessed :
                   KindOf[r] = "baseline-eval" => assessed[r].accuracy <= assessed[told.anchor].accuracy
        /\ \A r \in DOMAIN assessed : Collapsed(assessed[r]) => <<"stop", r>> \in told.advice

\* Report, mission state and ledger follow each other.
RecordsFollow ==
    /\ correctionReport.by \in 0..corrections /\ correctionReport.action \in Verdicts
    /\ missionCorrection.by \in 0..correctionReport.by
    /\ missionCorrection.by = correctionReport.by =>
         Cut(missionCorrection) \/ missionCorrection.action = correctionReport.action
    /\ Cut(correctionReport) \/ Cut(missionCorrection) => correctorDied
    /\ \A n \in correctionLedger : n \in 1..missionCorrection.by
    /\ corrector.pc \in {"list", "read", "report"} => correctionReport.by < corrections
    /\ corrector.pc \in {"state", "ledger"} => correctionReport.by = corrections
    /\ corrector.pc = "ledger" => missionCorrection.by = corrections
    /\ corrector.pc \in {"state", "ledger"} => corrections # 0
    /\ corrector.pc \notin {"state", "ledger"} /\ ~correctorDied =>
         /\ missionCorrection.by = correctionReport.by
         /\ correctionReport.by # 0 => correctionReport.by \in correctionLedger

CorrectionInv ==
    /\ CorrectorIs /\ ManifestsAre /\ MissionRecordIs /\ CountsAre /\ RecordsFollow
    /\ EditsAre
    /\ correctionReport.by # 0 /\ ~Cut(correctionReport) => ReportIsSound(correctionReport)

LEMMA CorrectionInitHolds == CorrectionInit => CorrectionInv
PROOF
<1> SUFFICES ASSUME CorrectionInit PROVE CorrectionInv
  OBVIOUS
<1> USE CorrectionAssumption DEF CorrectionInit
<1>1. CorrectorIs
  BY DEF IdleCorrector, CorrectorIs
<1>2. ManifestsAre
  BY DEF ManifestsAre
<1>3. MissionRecordIs /\ CountsAre
  <2>1. missionCorrection = [by |-> 0, action |-> "none", edits |-> {}]
    OBVIOUS
  <2>2. missionCorrection.by = 0 /\ missionCorrection.action = "none" /\ missionCorrection.edits = {}
    BY <2>1
  <2>3. MissionRecordIs
    BY <2>1, <2>2 DEF MissionRecordIs, Verdicts
  <2>4. CountsAre
    <3>1. runWrites = 0 /\ MaxRunWrites \in Nat /\ corrections = 0
      OBVIOUS
    <3>2. correctorDied = FALSE
      BY Zenon
    <3>3. runWrites \in 0..MaxRunWrites /\ corrections \in Nat
      BY <3>1
    <3>4. correctorDied \in BOOLEAN
      BY <3>2, Zenon
    <3> QED
      BY <3>3, <3>4, Zenon DEF CountsAre
  <2> QED
    BY <2>3, <2>4
<1>4. RecordsFollow
  <2>1. correctionReport.by = 0 /\ correctionReport.action = "none" /\ corrector.pc = "idle" /\ corrections = 0
    BY DEF NoCorrection, IdleCorrector
  <2>2. missionCorrection.by = 0 /\ missionCorrection.action = "none" /\ correctionLedger = {}
    OBVIOUS
  <2> QED
    BY <2>1, <2>2 DEF RecordsFollow, Verdicts, Cut
<1>6. EditsAre
  BY DEF EditsAre, NotMade, IdleCorrector
<1>5. correctionReport.by = 0
  BY DEF NoCorrection
<1> QED
  BY <1>1, <1>2, <1>3, <1>4, <1>5, <1>6 DEF CorrectionInv

\* What a continuing run and a stopping run are.
LEMMA BranchFacts ==
    ASSUME NEW r \in ExperimentRuns, NEW m \in RunResults[r]
    PROVE  /\ BranchAction(m) \in {"continue", "reroute", "stop"}
           /\ BranchAction(m) = "continue" =>
                /\ m.status # "failed" /\ ~Collapsed(m)
                /\ m.lacksPrerequisite => m.status = "completed"
           /\ BranchAction(m) = "stop" => m.status = "failed" \/ Collapsed(m)
PROOF
<1>1. m.status \in {"completed", "failed", "blocked", "prepared"}
  BY CorrectionAssumption
<1>2. /\ "execution-failed" \in Classes(m) <=> m.status = "failed"
      /\ "blocked-prerequisite" \in Classes(m) <=> m.status \in {"blocked", "prepared"} /\ m.lacksPrerequisite
      /\ "accuracy-collapse" \in Classes(m) <=> Collapsed(m)
  BY DEF Classes
<1> QED
  BY <1>1, <1>2 DEF BranchAction

\* The decision of the mission and those of its runs.
LEMMA VerdictFacts ==
    ASSUME NEW read, DOMAIN read \subseteq ExperimentRuns, DOMAIN read # {},
           \A r \in DOMAIN read : read[r] \in RunResults[r]
    PROVE  /\ MissionAction(read) \in {"continue", "reroute", "stop"}
           /\ MissionAction(read) = "continue" => \A r \in DOMAIN read : BranchAction(read[r]) = "continue"
           /\ MissionAction(read) = "stop" => \A r \in DOMAIN read : BranchAction(read[r]) = "stop"
PROOF
<1> DEFINE actions == {BranchAction(read[r]) : r \in DOMAIN read}
<1>1. MissionAction(read) = IF actions = {"stop"} THEN "stop"
                            ELSE IF actions = {"continue"} THEN "continue" ELSE "reroute"
  BY DEF MissionAction
<1>2. \A r \in DOMAIN read : BranchAction(read[r]) \in actions
  OBVIOUS
<1> HIDE DEF actions
<1>3. MissionAction(read) = "continue" => actions = {"continue"}
  BY <1>1
<1>4. MissionAction(read) = "stop" => actions = {"stop"}
  BY <1>1
<1>5. MissionAction(read) \in {"continue", "reroute", "stop"}
  BY <1>1
<1> QED
  BY <1>2, <1>3, <1>4, <1>5

\* The report that is written is sound.
LEMMA WrittenIsSound ==
    ASSUME NEW read, DOMAIN read \subseteq ExperimentRuns, DOMAIN read # {}, DOMAIN read \subseteq OwnRuns,
           \A r \in DOMAIN read : read[r] \in RunResults[r],
           NEW anchor \in IF Contenders(read) = {} THEN {"none"} ELSE Anchors(read),
           NEW n
    PROVE  ReportIsSound([by |-> n, action |-> MissionAction(read), anchor |-> anchor, assessed |-> read,
                          advice |-> Recommendations(read, anchor)])
PROOF
<1> DEFINE told == [by |-> n, action |-> MissionAction(read), anchor |-> anchor, assessed |-> read,
                      advice |-> Recommendations(read, anchor)]
<1>1. /\ told.action = MissionAction(read) /\ told.anchor = anchor /\ told.assessed = read
      /\ told.advice = Recommendations(read, anchor)
  OBVIOUS
<1>2. ASSUME MissionAction(read) = "continue", NEW r \in DOMAIN read
      PROVE  /\ read[r].status # "failed" /\ ~Collapsed(read[r])
             /\ read[r].lacksPrerequisite => read[r].status = "completed"
  BY <1>2, VerdictFacts, BranchFacts
<1>3. ASSUME MissionAction(read) = "stop", NEW r \in DOMAIN read
      PROVE  read[r].status = "failed" \/ Collapsed(read[r])
  BY <1>3, VerdictFacts, BranchFacts
<1>4. ASSUME anchor # "none"
      PROVE  /\ KindOf[anchor] = "baseline-eval" /\ read[anchor].accuracy > CollapseMax
             /\ \A r \in DOMAIN read : KindOf[r] = "baseline-eval" => read[r].accuracy <= read[anchor].accuracy
  <2>1. anchor \in Contenders(read) /\ \A q \in Contenders(read) : ~Outranks(read[q], read[anchor])
    BY <1>4 DEF Anchors
  <2>2. anchor \in DOMAIN read /\ KindOf[anchor] = "baseline-eval" /\ read[anchor].accuracy > CollapseMax
    BY <2>1 DEF Contenders
  <2>3. \A r \in DOMAIN read : read[r].accuracy \in Int
    BY CorrectionAssumption
  <2>4. ASSUME NEW r \in DOMAIN read, KindOf[r] = "baseline-eval"
        PROVE  read[r].accuracy <= read[anchor].accuracy
    <3>1. CASE read[r].accuracy > CollapseMax
      <4>1. r \in Contenders(read)
        BY <2>4, <3>1 DEF Contenders
      <4>2. ~(read[r].accuracy > read[anchor].accuracy)
        BY <2>1, <4>1 DEF Outranks
      <4> QED
        BY <2>2, <2>3, <2>4, <4>2
    <3>2. CASE ~(read[r].accuracy > CollapseMax)
      BY <2>2, <2>3, <2>4, <3>2, CorrectionAssumption
    <3> QED
      BY <3>1, <3>2
  <2> QED
    BY <2>2, <2>4
<1>5. ASSUME NEW r \in DOMAIN read, Collapsed(read[r])
      PROVE  <<"stop", r>> \in Recommendations(read, anchor)
  BY <1>5 DEF Recommendations, Recommends
<1> HIDE DEF told
<1> QED
  BY <1>1, <1>2, <1>3, <1>4, <1>5 DEF ReportIsSound, told


\* A correction starts.
LEMMA StartCorrectionKeeps == CorrectionInv /\ StartCorrection => CorrectionInv'
PROOF
<1> SUFFICES ASSUME CorrectionInv, StartCorrection PROVE CorrectionInv'
  OBVIOUS
<1> USE DEF CorrectionInv
<1>1. /\ corrector.pc = "idle" /\ corrections' = corrections + 1
      /\ UNCHANGED <<correctionReport, missionCorrection, correctionLedger, runManifests, runWrites, correctorDied,
                     editedDuring, stateWritten>>
  BY DEF StartCorrection, KeepCorrectionFiles, KeepEdits
<1>2. \E pc \in {"idle", "list"}, copy \in {{}, missionCorrection.edits} :
        /\ corrector' = [pc |-> pc, copy |-> copy, found |-> {}, read |-> <<>>]
        /\ pc = "list" => copy = missionCorrection.edits /\ ~Cut(missionCorrection)
  BY DEF StartCorrection, SetCorrector, IdleCorrector
<1>3. /\ corrector' = [pc |-> corrector'.pc, copy |-> corrector'.copy, found |-> {}, read |-> <<>>]
      /\ corrector'.pc \in {"idle", "list"} /\ corrector'.copy \subseteq StateEdits /\ corrector'.found = {}
      /\ corrector'.read = <<>>
      /\ corrector'.pc = "list" => corrector'.copy = missionCorrection.edits /\ ~Cut(missionCorrection)
  BY <1>2 DEF MissionRecordIs
<1>4. CorrectorIs'
  BY <1>1, <1>3 DEF CorrectorIs
<1>5. ManifestsAre' /\ MissionRecordIs' /\ CountsAre'
  BY <1>1 DEF ManifestsAre, MissionRecordIs, CountsAre
<1>6. RecordsFollow'
  BY <1>1, <1>3 DEF RecordsFollow, CountsAre, Cut
<1>7. EditsAre'
  <2>1. corrections \in Nat /\ NotMade..corrections \subseteq NotMade..(corrections + 1)
        /\ 1..corrections \subseteq 1..(corrections + 1)
    BY DEF CountsAre, NotMade
  <2>2. editedDuring' \in [StateEdits -> NotMade..corrections'] /\ stateWritten' \subseteq 1..corrections'
    BY <1>1, <2>1 DEF EditsAre
  <2> QED
    BY <1>1, <1>3, <2>2 DEF EditsAre, Cut
<1> QED
  BY <1>1, <1>4, <1>5, <1>6, <1>7 DEF Cut

\* The process is done with a correction, or never began its report.
IdleAgain == corrector' = IdleCorrector

LEMMA IdleIs ==
    /\ IdleCorrector = [pc |-> "idle", copy |-> {}, found |-> {}, read |-> <<>>]
    /\ IdleCorrector.pc = "idle" /\ IdleCorrector.copy = {} /\ IdleCorrector.found = {} /\ IdleCorrector.read = <<>>
BY DEF IdleCorrector

LEMMA IdleAgainKeeps ==
    ASSUME CorrectionInv, IdleAgain,
           UNCHANGED <<correctionReport, missionCorrection, runManifests, corrections, runWrites, editedDuring,
                       stateWritten>>,
           \/ UNCHANGED <<correctionLedger, correctorDied>> /\ corrector.pc \in {"list", "read"}
           \/ correctionLedger' = correctionLedger \cup {corrections} /\ UNCHANGED correctorDied /\ corrector.pc = "ledger"
           \/ UNCHANGED correctionLedger /\ correctorDied' = TRUE
    PROVE  CorrectionInv'
PROOF
<1> USE DEF CorrectionInv
<1>1. /\ corrector' = [pc |-> "idle", copy |-> {}, found |-> {}, read |-> <<>>]
      /\ corrector'.pc = "idle" /\ corrector'.copy = {} /\ corrector'.found = {} /\ corrector'.read = <<>>
  BY IdleIs DEF IdleAgain
<1>2. CorrectorIs'
  BY <1>1, CorrectionAssumption DEF CorrectorIs
<1>3. ManifestsAre' /\ MissionRecordIs' /\ CountsAre'
  BY DEF ManifestsAre, MissionRecordIs, CountsAre
<1>4. RecordsFollow' /\ EditsAre'
  BY <1>1 DEF RecordsFollow, EditsAre, CountsAre, Cut
<1> QED
  BY <1>2, <1>3, <1>4 DEF Cut

\* A death in a write cuts the file.
LEMMA CutKeeps ==
    ASSUME CorrectionInv, IdleAgain, correctorDied' = TRUE,
           UNCHANGED <<correctionLedger, runManifests, corrections, runWrites, editedDuring, stateWritten>>,
           \/ /\ corrector.pc = "report" /\ correctionReport' = [NoCorrection EXCEPT !.by = corrections]
              /\ UNCHANGED missionCorrection
           \/ /\ corrector.pc = "state"
              /\ missionCorrection' = [by |-> corrections, action |-> "none", edits |-> {}]
              /\ UNCHANGED correctionReport
    PROVE  CorrectionInv'
PROOF
<1> USE DEF CorrectionInv
<1>1. /\ corrector' = [pc |-> "idle", copy |-> {}, found |-> {}, read |-> <<>>]
      /\ corrector'.pc = "idle" /\ corrector'.copy = {} /\ corrector'.found = {} /\ corrector'.read = <<>>
  BY IdleIs DEF IdleAgain
<1>2. CorrectorIs' /\ ManifestsAre' /\ CountsAre'
  BY <1>1, CorrectionAssumption DEF CorrectorIs, ManifestsAre, CountsAre
<1>3. CASE /\ corrector.pc = "report" /\ correctionReport' = [NoCorrection EXCEPT !.by = corrections]
           /\ UNCHANGED missionCorrection
  <2>1. correctionReport'.by = corrections /\ correctionReport'.action = "none"
    BY <1>3 DEF NoCorrection
  <2>2. corrections \in Nat /\ correctionReport.by < corrections
    BY <1>3 DEF RecordsFollow, CountsAre
  <2>3. RecordsFollow'
    BY <1>1, <1>3, <2>1, <2>2 DEF RecordsFollow, Verdicts, Cut
  <2>4. MissionRecordIs' /\ EditsAre'
    BY <1>1, <1>3 DEF MissionRecordIs, EditsAre, Cut
  <2>5. correctionReport'.by # 0 => Cut(correctionReport)'
    BY <2>1 DEF Cut
  <2> QED
    BY <1>2, <2>3, <2>4, <2>5
<1>4. CASE /\ corrector.pc = "state"
           /\ missionCorrection' = [by |-> corrections, action |-> "none", edits |-> {}]
           /\ UNCHANGED correctionReport
  <2>1. /\ missionCorrection' = [by |-> corrections, action |-> "none", edits |-> {}]
        /\ missionCorrection'.by = corrections /\ missionCorrection'.action = "none" /\ missionCorrection'.edits = {}
    BY <1>4
  <2>2. corrections \in Nat \ {0} /\ correctionReport.by = corrections /\ Cut(missionCorrection)'
    BY <1>4, <2>1 DEF RecordsFollow, CountsAre, Cut
  <2>3. RecordsFollow'
    BY <1>1, <1>4, <2>1, <2>2 DEF RecordsFollow, Verdicts, Cut
  <2>4. MissionRecordIs'
    BY <2>1 DEF MissionRecordIs, Verdicts
  <2>5. EditsAre'
    BY <1>1, <2>1, <2>2 DEF EditsAre
  <2> QED
    BY <1>2, <1>4, <2>3, <2>4, <2>5 DEF Cut
<1> QED
  BY <1>3, <1>4

\* The manifests are looked for and read.
LEMMA DiscoverKeeps == CorrectionInv /\ DiscoverManifests => CorrectionInv'
PROOF
<1> SUFFICES ASSUME CorrectionInv, DiscoverManifests PROVE CorrectionInv'
  OBVIOUS
<1> DEFINE found == {r \in ExperimentRuns : runManifests[r] # NotWritten}
<1>1. /\ corrector.pc = "list"
      /\ UNCHANGED <<correctionReport, missionCorrection, correctionLedger, runManifests, corrections, runWrites, correctorDied,
                     editedDuring, stateWritten>>
  BY DEF DiscoverManifests, KeepCorrectionFiles, KeepCorrectionEnv, KeepEdits
<1>2. CASE corrector' = IdleCorrector
  BY <1>1, <1>2, IdleAgainKeeps DEF IdleAgain
<1>3. CASE corrector' = [[corrector EXCEPT !.found = found] EXCEPT !.pc = "read"]
  <2> USE DEF CorrectionInv
  <2>0. CorrectorIs
    OBVIOUS
  <2>1. corrector' = [pc |-> "read", copy |-> corrector.copy, found |-> found, read |-> corrector.read]
    BY <1>3, <2>0 DEF CorrectorIs
  <2>2. corrector'.pc = "read" /\ corrector'.copy = corrector.copy /\ corrector'.found = found /\ corrector'.read = corrector.read
    BY <2>1
  <2>3. DOMAIN corrector.read \subseteq found
    BY <2>0 DEF CorrectorIs
  <2>4. CorrectorIs'
    BY <1>1, <2>0, <2>1, <2>2, <2>3 DEF CorrectorIs
  <2>5. ManifestsAre' /\ MissionRecordIs' /\ CountsAre'
    BY <1>1 DEF ManifestsAre, MissionRecordIs, CountsAre
  <2>6. RecordsFollow' /\ EditsAre'
    BY <1>1, <2>2 DEF RecordsFollow, EditsAre, Cut
  <2> QED
    BY <1>1, <2>4, <2>5, <2>6 DEF Cut
<1> QED
  BY <1>2, <1>3 DEF DiscoverManifests, SetCorrector

LEMMA ReadKeeps ==
    ASSUME CorrectionInv, NEW r \in ExperimentRuns, ReadRunManifest(r)
    PROVE  CorrectionInv'
PROOF
<1>1. /\ corrector.pc = "read" /\ r \in corrector.found
      /\ UNCHANGED <<correctionReport, missionCorrection, correctionLedger, runManifests, corrections, runWrites, correctorDied,
                     editedDuring, stateWritten>>
  BY DEF ReadRunManifest, KeepCorrectionFiles, KeepCorrectionEnv, KeepEdits
<1>2. CASE corrector' = IdleCorrector
  BY <1>1, <1>2, IdleAgainKeeps DEF IdleAgain
<1> DEFINE now == [q \in DOMAIN corrector.read \cup {r} |-> IF q = r THEN runManifests[r] ELSE corrector.read[q]]
<1>3. CASE runManifests[r] # Unfinished /\ corrector' = [corrector EXCEPT !.read = now]
  <2> USE DEF CorrectionInv
  <2>0. CorrectorIs /\ ManifestsAre
    OBVIOUS
  <2>1. corrector' = [pc |-> "read", copy |-> corrector.copy, found |-> corrector.found, read |-> now]
    BY <1>1, <1>3, <2>0 DEF CorrectorIs
  <2>2. corrector'.pc = "read" /\ corrector'.copy = corrector.copy /\ corrector'.found = corrector.found /\ corrector'.read = now
    BY <2>1
  <2>3. runManifests[r] \in RunResults[r]
    BY <1>1, <1>3, <2>0 DEF CorrectorIs, ManifestsAre
  <2>4. /\ DOMAIN now \subseteq corrector.found
        /\ \A q \in DOMAIN now : now[q] \in RunResults[q]
    BY <1>1, <2>0, <2>3 DEF CorrectorIs
  <2> HIDE DEF now
  <2>5. CorrectorIs'
    BY <1>1, <2>0, <2>1, <2>2, <2>4 DEF CorrectorIs
  <2>6. ManifestsAre' /\ MissionRecordIs' /\ CountsAre'
    BY <1>1 DEF ManifestsAre, MissionRecordIs, CountsAre
  <2>7. RecordsFollow' /\ EditsAre'
    BY <1>1, <2>2 DEF RecordsFollow, EditsAre, Cut
  <2> QED
    BY <1>1, <2>5, <2>6, <2>7 DEF Cut
<1> QED
  BY <1>2, <1>3 DEF ReadRunManifest

LEMMA AssessKeeps == CorrectionInv /\ AssessRuns => CorrectionInv'
PROOF
<1> SUFFICES ASSUME CorrectionInv, AssessRuns PROVE CorrectionInv'
  OBVIOUS
<1> DEFINE own == corrector.found \cap OwnRuns
           now == [r \in own |-> corrector.read[r]]
<1>1. /\ corrector.pc = "read" /\ DOMAIN corrector.read = corrector.found
      /\ UNCHANGED <<correctionReport, missionCorrection, correctionLedger, runManifests, corrections, runWrites, correctorDied,
                     editedDuring, stateWritten>>
  BY DEF AssessRuns, KeepCorrectionFiles, KeepCorrectionEnv, KeepEdits
<1>2. CASE corrector' = IdleCorrector
  BY <1>1, <1>2, IdleAgainKeeps DEF IdleAgain
<1>3. CASE own # {} /\ corrector' = [[corrector EXCEPT !.read = now] EXCEPT !.pc = "report"]
  <2> USE DEF CorrectionInv
  <2>0. CorrectorIs
    OBVIOUS
  <2>1. corrector' = [pc |-> "report", copy |-> corrector.copy, found |-> corrector.found, read |-> now]
    BY <1>3, <2>0 DEF CorrectorIs
  <2>2. corrector'.pc = "report" /\ corrector'.copy = corrector.copy /\ corrector'.found = corrector.found /\ corrector'.read = now
    BY <2>1
  <2>3. /\ DOMAIN now \subseteq corrector.found /\ DOMAIN now # {} /\ DOMAIN now \subseteq OwnRuns
        /\ \A q \in DOMAIN now : now[q] \in RunResults[q]
    BY <1>1, <1>3, <2>0 DEF CorrectorIs
  <2> HIDE DEF now, own
  <2>4. CorrectorIs'
    BY <1>1, <2>0, <2>1, <2>2, <2>3 DEF CorrectorIs
  <2>5. ManifestsAre' /\ MissionRecordIs' /\ CountsAre'
    BY <1>1 DEF ManifestsAre, MissionRecordIs, CountsAre
  <2>6. RecordsFollow' /\ EditsAre'
    BY <1>1, <2>2 DEF RecordsFollow, EditsAre, Cut
  <2> QED
    BY <1>1, <2>4, <2>5, <2>6 DEF Cut
<1> QED
  BY <1>2, <1>3 DEF AssessRuns, SetCorrector


\* The report, the mission state and the ledger are written.
LEMMA ReportKeeps == CorrectionInv /\ WriteCorrectionReport => CorrectionInv'
PROOF
<1> SUFFICES ASSUME CorrectionInv, WriteCorrectionReport PROVE CorrectionInv'
  OBVIOUS
<1> USE DEF CorrectionInv
<1>1. /\ corrector.pc = "report" /\ corrector' = [corrector EXCEPT !.pc = "state"]
      /\ UNCHANGED <<missionCorrection, correctionLedger, runManifests, corrections, runWrites, correctorDied,
                     editedDuring, stateWritten>>
  BY DEF WriteCorrectionReport, SetCorrector, KeepCorrectionEnv, KeepEdits
<1>2. PICK anchor \in IF Contenders(corrector.read) = {} THEN {"none"} ELSE Anchors(corrector.read) :
        correctionReport' = [by |-> corrections, action |-> MissionAction(corrector.read),
                             anchor |-> anchor, assessed |-> corrector.read,
                             advice |-> Recommendations(corrector.read, anchor)]
  BY DEF WriteCorrectionReport
<1>3. /\ DOMAIN corrector.read # {} /\ DOMAIN corrector.read \subseteq OwnRuns
      /\ DOMAIN corrector.read \subseteq ExperimentRuns
      /\ \A r \in DOMAIN corrector.read : corrector.read[r] \in RunResults[r]
  BY <1>1 DEF CorrectorIs
<1>4. ReportIsSound(correctionReport')
  BY <1>2, <1>3, WrittenIsSound
<1>5. correctionReport'.by = corrections /\ correctionReport'.action = MissionAction(corrector.read)
  BY <1>2
<1>6. correctionReport'.action \in Verdicts /\ ~Cut(correctionReport)'
  BY <1>3, <1>5, VerdictFacts DEF Verdicts, Cut
<1>7. corrector' = [pc |-> "state", copy |-> corrector.copy, found |-> corrector.found, read |-> corrector.read]
  BY <1>1 DEF CorrectorIs
<1>8. corrector'.pc = "state" /\ corrector'.copy = corrector.copy /\ corrector'.found = corrector.found
      /\ corrector'.read = corrector.read
  BY <1>7
<1>9. CorrectorIs'
  BY <1>1, <1>3, <1>7, <1>8 DEF CorrectorIs
<1>10. ManifestsAre' /\ MissionRecordIs' /\ CountsAre'
  BY <1>1 DEF ManifestsAre, MissionRecordIs, CountsAre
<1>11. RecordsFollow'
  BY <1>1, <1>5, <1>6, <1>8 DEF RecordsFollow, CountsAre, Cut
<1>12. EditsAre'
  BY <1>1, <1>8 DEF EditsAre, Cut
<1> QED
  BY <1>4, <1>9, <1>10, <1>11, <1>12

LEMMA MissionKeeps == CorrectionInv /\ WriteMissionCorrection => CorrectionInv'
PROOF
<1> SUFFICES ASSUME CorrectionInv, WriteMissionCorrection PROVE CorrectionInv'
  OBVIOUS
<1> USE DEF CorrectionInv
<1>1. /\ corrector.pc = "state" /\ corrector' = [corrector EXCEPT !.pc = "ledger"]
      /\ missionCorrection' = [by |-> correctionReport.by, action |-> correctionReport.action, edits |-> corrector.copy]
      /\ stateWritten' = stateWritten \cup {corrections}
      /\ UNCHANGED <<correctionReport, correctionLedger, runManifests, corrections, runWrites, correctorDied, editedDuring>>
  BY DEF WriteMissionCorrection, SetCorrector
<1>2. /\ missionCorrection'.by = correctionReport.by /\ missionCorrection'.action = correctionReport.action
      /\ missionCorrection'.edits = corrector.copy
  BY <1>1
<1>3. corrector' = [pc |-> "ledger", copy |-> corrector.copy, found |-> corrector.found, read |-> corrector.read]
  BY <1>1 DEF CorrectorIs
<1>4. corrector'.pc = "ledger" /\ corrector'.copy = corrector.copy /\ corrector'.found = corrector.found
      /\ corrector'.read = corrector.read
  BY <1>3
<1>5. CorrectorIs'
  BY <1>1, <1>3, <1>4 DEF CorrectorIs
<1>6. MissionRecordIs'
  BY <1>1, <1>2 DEF MissionRecordIs, RecordsFollow, CorrectorIs
<1>7. ManifestsAre' /\ CountsAre'
  BY <1>1 DEF ManifestsAre, CountsAre
<1>8. RecordsFollow'
  BY <1>1, <1>2, <1>4 DEF RecordsFollow, CountsAre, Cut
<1>9. EditsAre'
  <2>1. corrections \in 1..corrections
    BY <1>1 DEF RecordsFollow, CountsAre
  <2> QED
    BY <1>1, <1>2, <1>4, <2>1 DEF EditsAre
<1> QED
  BY <1>1, <1>5, <1>6, <1>7, <1>8, <1>9 DEF Cut

\* Others write meanwhile.
LEMMA EnvironmentKeeps ==
    ASSUME CorrectionInv, (\E e \in StateEdits : EditMission(e)) \/ \E r \in ExperimentRuns : RunWrites(r)
    PROVE  CorrectionInv'
PROOF
<1> USE DEF CorrectionInv
<1>1. CASE \E e \in StateEdits : EditMission(e)
  <2>0. PICK e \in StateEdits : EditMission(e)
    BY <1>1
  <2>1. /\ missionCorrection' = [missionCorrection EXCEPT !.edits = missionCorrection.edits \cup {e}]
        /\ editedDuring' = [editedDuring EXCEPT ![e] = IF corrector.pc \in {"idle", "ledger"} THEN 0 ELSE corrections]
        /\ UNCHANGED <<correctionReport, correctionLedger, corrector, runManifests, corrections, runWrites, correctorDied,
                       stateWritten>>
    BY <2>0 DEF EditMission
  <2>2. missionCorrection' = [by |-> missionCorrection.by, action |-> missionCorrection.action,
                              edits |-> missionCorrection.edits \cup {e}]
    BY <2>1 DEF MissionRecordIs
  <2>3. /\ missionCorrection'.by = missionCorrection.by /\ missionCorrection'.action = missionCorrection.action
        /\ missionCorrection'.edits = missionCorrection.edits \cup {e}
    BY <2>2
  <2>4. MissionRecordIs'
    BY <2>1, <2>2, <2>3 DEF MissionRecordIs
  <2>5. CorrectorIs' /\ ManifestsAre' /\ CountsAre'
    BY <2>1 DEF CorrectorIs, ManifestsAre, CountsAre
  <2>6. RecordsFollow'
    BY <2>1, <2>3 DEF RecordsFollow, Cut
  <2>7. EditsAre'
    <3>1. corrections \in Nat /\ 0 \in NotMade..corrections /\ corrections \in NotMade..corrections
      BY DEF CountsAre, NotMade
    <3>2. editedDuring' \in [StateEdits -> NotMade..corrections]
      BY <2>1, <3>1 DEF EditsAre
    <3>3. \A d \in StateEdits : editedDuring'[d] = editedDuring[d]
            \/ (d = e /\ (corrector.pc \notin {"idle", "ledger"} => editedDuring'[d] = corrections))
      BY <2>1 DEF EditsAre
    <3> QED
      BY <2>1, <2>3, <3>2, <3>3 DEF EditsAre, Cut
  <2> QED
    BY <2>1, <2>4, <2>5, <2>6, <2>7 DEF Cut
<1>2. CASE \E r \in ExperimentRuns : RunWrites(r)
  <2>1. PICK r \in ExperimentRuns : RunWrites(r)
    BY <1>2
  <2>2. PICK m \in RunResults[r] \cup {Unfinished} : runManifests' = [runManifests EXCEPT ![r] = m]
    BY <2>1 DEF RunWrites
  <2>3. /\ runWrites < MaxRunWrites /\ runWrites' = runWrites + 1
        /\ UNCHANGED <<correctionReport, missionCorrection, correctionLedger, corrector, corrections, correctorDied,
                       editedDuring, stateWritten>>
    BY <2>1 DEF RunWrites, KeepCorrectionFiles, KeepEdits
  <2>4. m # NotWritten /\ m \in RunResults[r] \cup {NotWritten, Unfinished}
    BY CorrectionAssumption
  <2>5. \A q \in ExperimentRuns : runManifests'[q] = IF q = r THEN m ELSE runManifests[q]
    BY <2>2 DEF ManifestsAre
  <2>6. runManifests' = [q \in ExperimentRuns |-> runManifests'[q]]
    BY <2>2 DEF ManifestsAre
  <2>7. ManifestsAre'
    BY <2>4, <2>5, <2>6 DEF ManifestsAre
  <2>8. CorrectorIs'
    BY <2>3, <2>4, <2>5 DEF CorrectorIs
  <2>9. runWrites' \in 0..MaxRunWrites
    BY <2>3, CorrectionAssumption DEF CountsAre
  <2>10. CountsAre' /\ MissionRecordIs'
    BY <2>3, <2>9 DEF CountsAre, MissionRecordIs
  <2>11. RecordsFollow' /\ EditsAre'
    BY <2>3 DEF RecordsFollow, EditsAre, Cut
  <2> QED
    BY <2>3, <2>7, <2>8, <2>10, <2>11 DEF Cut
<1> QED
  BY <1>1, <1>2

LEMMA StepCorrection == CorrectionInv /\ [CorrectionNext]_correctionVars => CorrectionInv'
PROOF
<1> SUFFICES ASSUME CorrectionInv, [CorrectionNext]_correctionVars PROVE CorrectionInv'
  OBVIOUS
<1>1. CASE UNCHANGED correctionVars
  BY <1>1 DEF correctionVars, CorrectionInv, CorrectorIs, ManifestsAre, MissionRecordIs, CountsAre, RecordsFollow, EditsAre, Cut
<1>2. CASE LogCorrection
  BY <1>2, IdleAgainKeeps DEF LogCorrection, IdleAgain, KeepCorrectionEnv, KeepEdits
<1>3. CASE CorrectorDies
  BY <1>3, IdleAgainKeeps, CutKeeps DEF CorrectorDies, IdleAgain, KeepEdits
<1> QED
  BY <1>1, <1>2, <1>3, StartCorrectionKeeps, DiscoverKeeps, ReadKeeps, AssessKeeps, ReportKeeps, MissionKeeps,
     EnvironmentKeeps DEF CorrectionNext

(* The last report judges runs of this mission only, on what each of them  *)
(* wrote; state and ledger follow it in this order, whoever wrote or died  *)
(* meanwhile; only a death cuts a file, and only a correction that wrote   *)
(* the state loses an edit, one made since it had read it.                 *)
THEOREM CorrectionsAreSound == CorrectionSpec => []CorrectionHolds
PROOF
<1>1. CorrectionInv => CorrectionHolds
  <2> SUFFICES ASSUME CorrectionInv PROVE CorrectionHolds
    OBVIOUS
  <2>1. RecordsFollow /\ EditsAre
        /\ (correctionReport.by # 0 /\ ~Cut(correctionReport) => ReportIsSound(correctionReport))
    BY DEF CorrectionInv
  <2>2. /\ missionCorrection.by \in 0..correctionReport.by
        /\ missionCorrection.by = correctionReport.by =>
             Cut(missionCorrection) \/ missionCorrection.action = correctionReport.action
        /\ Cut(correctionReport) \/ Cut(missionCorrection) => correctorDied
        /\ corrector.pc = "idle" /\ ~correctorDied =>
             missionCorrection.by = correctionReport.by
             /\ (correctionReport.by # 0 => correctionReport.by \in correctionLedger)
    BY <2>1 DEF RecordsFollow
  <2>3. \A n \in correctionLedger : n <= missionCorrection.by
    BY <2>1 DEF RecordsFollow
  <2>4. \A e \in StateEdits : editedDuring[e] # NotMade /\ e \notin missionCorrection.edits =>
          Cut(missionCorrection) \/ editedDuring[e] \in stateWritten
    BY <2>1 DEF EditsAre
  <2> QED
    BY <2>1, <2>2, <2>3, <2>4 DEF CorrectionHolds, ReportIsSound
<1> QED
  BY <1>1, CorrectionInitHolds, StepCorrection, PTL DEF CorrectionSpec

LEMMA CorrectionTypeCorrect == CorrectionSpec => []CorrectionTypeOK
PROOF
<1>1. CorrectionInv => CorrectionTypeOK
  <2> SUFFICES ASSUME CorrectionInv PROVE CorrectionTypeOK
    OBVIOUS
  <2>1. CorrectorIs /\ ManifestsAre /\ MissionRecordIs /\ CountsAre /\ RecordsFollow /\ EditsAre
    BY DEF CorrectionInv
  <2>2. correctionLedger \subseteq 1..corrections
    BY <2>1 DEF RecordsFollow, CountsAre
  <2> QED
    BY <2>1, <2>2 DEF CorrectionTypeOK, CorrectorIs, ManifestsAre, MissionRecordIs, CountsAre, RecordsFollow, EditsAre
<1> QED
  BY <1>1, CorrectionInitHolds, StepCorrection, PTL DEF CorrectionSpec

----------------------------------------------------------------------------
(* The prompt and decode sweep: what its decisions rest on. *)

\* A result of the matrix.
SweepRow(d, x) ==
    /\ x.ran \in BOOLEAN /\ x.dev[1] \in Int /\ x.dev[2] \in Int
    /\ x.ran => x.variant.bucket = SweepConfig[d].bucket /\ x.dev[1] >= NoScore /\ x.dev[2] >= NoScore
    /\ ~x.ran => x.dev[1] < NoScore
SweepRows(d, results) ==
    /\ \E S : results \in Seq(S)
    /\ Len(results) \in Nat /\ DOMAIN results = 1..Len(results)
    /\ \A i \in DOMAIN results : SweepRow(d, results[i])

\* Among results there is one that none is above.
LEMMA BestRowExists ==
    ASSUME NEW d \in Sweeps, NEW results, SweepRows(d, results), DOMAIN results # {}
    PROVE  \E i \in DOMAIN results : \A k \in DOMAIN results : ~ScoresAbove(results[k].dev, results[i].dev)
PROOF
<1> DEFINE a(i) == results[i].dev[1]
           b(i) == results[i].dev[2]
           BestUpTo(i, n) == i \in 1..n /\ \A k \in 1..n : ~ScoresAbove(results[k].dev, results[i].dev)
           T == {n \in 1..Len(results) : \A i \in DOMAIN results : ~BestUpTo(i, n)}
<1>1. \A i \in 1..Len(results) : a(i) \in Int /\ b(i) \in Int
  BY DEF SweepRows, SweepRow
<1>2. Len(results) \in Nat /\ DOMAIN results = 1..Len(results) /\ Len(results) >= 1
  BY DEF SweepRows
<1>3. \A i, k \in 1..Len(results) : ScoresAbove(results[k].dev, results[i].dev) <=> a(k) > a(i) \/ (a(k) = a(i) /\ b(k) > b(i))
  BY DEF ScoresAbove
<1>4. T = {}
  <2> SUFFICES ASSUME T # {} PROVE FALSE
    OBVIOUS
  <2>1. T \in SUBSET Nat
    BY <1>2
  <2>2. PICK n \in T : \A m \in T : n <= m
    BY <2>1, LeastOf
  <2>3. n \in 1..Len(results) /\ \A i \in DOMAIN results : ~BestUpTo(i, n)
    OBVIOUS
  <2>4. n # 1
    <3>1. n = 1 => BestUpTo(1, 1)
      BY <1>1, <1>2, <1>3
    <3> QED
      BY <1>2, <2>3, <3>1
  <2>5. n - 1 \in 1..Len(results) /\ n - 1 \notin T
    <3> HIDE DEF T
    <3>1. n - 1 \in 1..Len(results) /\ ~(n <= n - 1)
      BY <1>2, <2>3, <2>4
    <3> QED
      BY <2>2, <3>1
  <2>6. PICK i \in DOMAIN results : BestUpTo(i, n - 1)
    BY <2>5
  <2>7. i \in 1..Len(results) /\ i < n /\ \A k \in 1..Len(results) : k < n => ~ScoresAbove(results[k].dev, results[i].dev)
    BY <1>2, <2>3, <2>6
  <2> HIDE DEF T
  <2>8. CASE ScoresAbove(results[n].dev, results[i].dev)
    <3>1. a(n) > a(i) \/ (a(n) = a(i) /\ b(n) > b(i))
      BY <1>3, <2>3, <2>7, <2>8
    <3>2. \A k \in 1..n : ~ScoresAbove(results[k].dev, results[n].dev)
      <4> SUFFICES ASSUME NEW k \in 1..n PROVE ~ScoresAbove(results[k].dev, results[n].dev)
        OBVIOUS
      <4>1. k \in 1..Len(results) /\ (k = n \/ k < n)
        BY <1>2, <2>3
      <4>2. a(k) \in Int /\ b(k) \in Int /\ a(n) \in Int /\ b(n) \in Int /\ a(i) \in Int /\ b(i) \in Int
        BY <1>1, <2>3, <2>7, <4>1
      <4>3. k < n => ~(a(k) > a(i) \/ (a(k) = a(i) /\ b(k) > b(i)))
        BY <1>3, <2>7, <4>1
      <4>4. ~(a(k) > a(n) \/ (a(k) = a(n) /\ b(k) > b(n)))
        <5> HIDE DEF a, b
        <5> QED
          BY <3>1, <4>1, <4>2, <4>3
      <4> QED
        BY <1>3, <2>3, <4>1, <4>4
    <3>3. BestUpTo(n, n)
      BY <2>3, <3>2
    <3> QED
      BY <1>2, <2>3, <3>3
  <2>9. CASE ~ScoresAbove(results[n].dev, results[i].dev)
    <3>1. \A k \in 1..n : k = n \/ (k \in 1..Len(results) /\ k < n)
      BY <1>2, <2>3
    <3>2. BestUpTo(i, n)
      BY <1>2, <2>3, <2>7, <2>9, <3>1
    <3> QED
      BY <2>3, <3>2
  <2> QED
    BY <2>8, <2>9
<1>5. Len(results) \notin T /\ Len(results) \in 1..Len(results)
  <2> HIDE DEF T
  <2> QED
    BY <1>2, <1>4
<1>6. PICK i \in DOMAIN results : BestUpTo(i, Len(results))
  BY <1>5
<1> QED
  BY <1>2, <1>6

\* The variant a sweep takes to the final test is one of the locked bucket, and the best one.
LEMMA BestVariantFacts ==
    ASSUME NEW d \in Sweeps, NEW results, SweepRows(d, results), \E i \in DOMAIN results : results[i].ran
    PROVE  /\ BestVariant(results) \in DOMAIN results
           /\ results[BestVariant(results)].variant.bucket = SweepConfig[d].bucket
           /\ \A i \in DOMAIN results : ~ScoresAbove(results[i].dev, results[BestVariant(results)].dev)
PROOF
<1> DEFINE best == {i \in DOMAIN results : ~\E k \in DOMAIN results : ScoresAbove(results[k].dev, results[i].dev)}
<1>1. DOMAIN results = 1..Len(results) /\ Len(results) \in Nat
  BY DEF SweepRows
<1>2. best # {} /\ best \in SUBSET Nat
  <2>1. DOMAIN results # {}
    OBVIOUS
  <2>2. PICK i \in DOMAIN results : \A k \in DOMAIN results : ~ScoresAbove(results[k].dev, results[i].dev)
    BY <2>1, BestRowExists
  <2>3. i \in best
    BY <2>2
  <2>4. best \in SUBSET Nat
    BY <1>1
  <2> QED
    BY <2>3, <2>4
<1>3. PICK x \in best : \A y \in best : x <= y
  BY <1>2, LeastOf
<1>4. BestVariant(results) \in best
  <2>1. BestVariant(results) = CHOOSE i \in best : \A k \in best : i <= k
    BY DEF BestVariant
  <2> HIDE DEF best
  <2> QED
    BY <1>3, <2>1
<1> DEFINE w == BestVariant(results)
<1>5. w \in DOMAIN results /\ \A i \in DOMAIN results : ~ScoresAbove(results[i].dev, results[w].dev)
  BY <1>4
<1>6. PICK i \in DOMAIN results : results[i].ran
  OBVIOUS
<1>7. SweepRow(d, results[i]) /\ SweepRow(d, results[w])
  BY <1>5 DEF SweepRows
<1> HIDE DEF w
<1>8. results[w].ran
  <2> SUFFICES ASSUME ~results[w].ran PROVE FALSE
    OBVIOUS
  <2>1. results[w].dev[1] < NoScore /\ results[w].dev[1] \in Int
    BY <1>7 DEF SweepRow
  <2>2. results[i].dev[1] >= NoScore /\ results[i].dev[1] \in Int
    BY <1>6, <1>7 DEF SweepRow
  <2>3. results[i].dev[1] > results[w].dev[1]
    BY <2>1, <2>2, SweepAssumption
  <2> QED
    BY <1>5, <2>3 DEF ScoresAbove
<1>9. results[w].variant.bucket = SweepConfig[d].bucket
  BY <1>7, <1>8 DEF SweepRow
<1> QED
  BY <1>5, <1>9 DEF w

\* A finite set has subsets of every smaller size.
LEMMA SubsetOfSize ==
    ASSUME NEW S, IsFiniteSet(S), NEW n \in Nat, n <= Cardinality(S)
    PROVE  \E T \in SUBSET S : Cardinality(T) = n
PROOF
<1>1. Cardinality(S) \in Nat /\ ExistsBijection(1..Cardinality(S), S)
  BY FS_CardinalityType
<1>2. PICK f : f \in Bijection(1..Cardinality(S), S)
  BY <1>1 DEF ExistsBijection
<1> DEFINE T == {f[i] : i \in 1..n}
           g == [i \in 1..n |-> f[i]]
<1>3. 1..n \subseteq 1..Cardinality(S)
  BY <1>1
<1>4. T \in SUBSET S
  BY <1>2, <1>3 DEF Bijection, Injection, Surjection
<1>5. g \in Bijection(1..n, T)
  <2>1. \A i, j \in 1..n : f[i] = f[j] => i = j
    BY <1>2, <1>3 DEF Bijection, Injection, IsInjective
  <2> QED
    BY <2>1 DEF Bijection, Injection, Surjection, IsInjective
<1>6. IsFiniteSet(1..n) /\ Cardinality(1..n) = n
  BY FS_Interval
<1>7. Cardinality(T) = n
  <2> HIDE DEF T, g
  <2>1. ExistsBijection(1..n, T)
    BY <1>5 DEF ExistsBijection
  <2> QED
    BY <1>6, <2>1, FS_Bijection
<1> QED
  BY <1>4, <1>7


\* What a final comparison is made of.
Comparable(d, results, anchor, final) ==
    /\ SweepRows(d, results) /\ \E i \in DOMAIN results : results[i].ran
    /\ anchor \in FinalMetrics[d] /\ final \in FinalMetrics[d]
    /\ PreflightPasses(SweepReference(SweepConfig[d], anchor), anchor)

LEMMA ReferenceFacts ==
    ASSUME NEW d \in Sweeps, NEW anchor \in FinalMetrics[d]
    PROVE  LET ref == SweepReference(SweepConfig[d], anchor)
           IN  ref.score \in Int /\ \A i \in DOMAIN ref.metrics.slices : ref.metrics.slices[i] \in Int
PROOF
<1> DEFINE c == SweepConfig[d]
           scores == <<c.file.score, c.numbers, c.starter>>
           known == {i \in 1..3 : scores[i] # NoScore}
           first == CHOOSE i \in known : \A k \in known : i <= k
           ref == SweepReference(c, anchor)
<1>1. IsMetrics(c.file) /\ IsMetrics(anchor) /\ c.numbers \in Int /\ c.starter \in Int
  BY SweepAssumption
<1>2. \A i \in 1..3 : scores[i] \in Int
  BY <1>1 DEF IsMetrics
<1>3. CASE known # {}
  <2>1. PICK i \in known : \A k \in known : i <= k
    <3>1. known \in SUBSET Nat
      OBVIOUS
    <3> HIDE DEF known
    <3> QED
      BY <1>3, <3>1, LeastOf
  <2>2. first \in known
    <3> HIDE DEF known
    <3> QED
      BY <2>1
  <2>3. scores[first] \in Int
    <3> HIDE DEF first, scores
    <3>1. first \in 1..3
      BY <2>2
    <3> QED
      BY <1>2, <3>1
  <2>4. ref = [score |-> scores[first], metrics |-> c.file, signature |-> c.signature]
    BY <1>3 DEF SweepReference
  <2> HIDE DEF first, scores, known, ref
  <2>5. ref.score = scores[first] /\ ref.metrics = c.file
    BY <2>4
  <2> QED
    BY <1>1, <2>3, <2>5 DEF IsMetrics, ref
<1>4. CASE known = {}
  <2>1. ref = [score |-> anchor.score, metrics |-> anchor, signature |-> NoSignature]
    BY <1>4 DEF SweepReference
  <2> HIDE DEF ref
  <2>2. ref.score = anchor.score /\ ref.metrics = anchor
    BY <2>1
  <2> QED
    BY <1>1, <2>2 DEF IsMetrics, ref
<1> QED
  BY <1>3, <1>4

\* A gain on enough slices is one on a set of them of the required size.
LEMMA GainFacts ==
    ASSUME NEW d \in Sweeps, NEW ref, NEW final \in FinalMetrics[d], ref.score \in Int,
           \A i \in DOMAIN ref.metrics.slices : ref.metrics.slices[i] \in Int,
           SweepDecision(SweepConfig[d], ref, final) = "promoted"
    PROVE  \/ final.score >= ref.score + GainThreshold
           \/ /\ final.score >= ref.score + MaxRegression
              /\ \E won \in SUBSET SweepConfig[d].eligible :
                   /\ Cardinality(won) = SliceCount
                   /\ won \subseteq DOMAIN ref.metrics.slices \cap DOMAIN final.slices
                   /\ \A i \in won : final.slices[i] >= ref.metrics.slices[i] + SliceGain
PROOF
<1> DEFINE c == SweepConfig[d]
           common == c.eligible \cap DOMAIN ref.metrics.slices \cap DOMAIN final.slices
           winning == {i \in common : final.slices[i] - ref.metrics.slices[i] >= SliceGain}
<1>1. IsMetrics(final) /\ IsFiniteSet(c.eligible) /\ {GainThreshold, SliceGain, MaxRegression} \subseteq Int
      /\ SliceCount \in Nat
  BY SweepAssumption
<1>2. final.score \in Int
  BY <1>1 DEF IsMetrics
<1>3. final.score - ref.score >= GainThreshold \/ SliceOverride(c, ref, final)
  BY DEF SweepDecision
<1>4. CASE final.score - ref.score >= GainThreshold
  BY <1>1, <1>2, <1>4
<1>5. CASE SliceOverride(c, ref, final)
  <2>1. final.score - ref.score >= MaxRegression /\ Cardinality(winning) >= SliceCount
    BY <1>5 DEF SliceOverride
  <2>2. winning \in SUBSET c.eligible
    OBVIOUS
  <2>3. IsFiniteSet(winning)
    BY <1>1, <2>2, FS_Subset
  <2>4. PICK won \in SUBSET winning : Cardinality(won) = SliceCount
    <3> HIDE DEF winning
    <3>1. Cardinality(winning) \in Nat
      BY <2>3, FS_CardinalityType
    <3> QED
      BY <1>1, <2>1, <2>3, <3>1, SubsetOfSize
  <2>5. ASSUME NEW i \in won
        PROVE  final.slices[i] >= ref.metrics.slices[i] + SliceGain
    <3>1. i \in winning /\ i \in DOMAIN final.slices /\ i \in DOMAIN ref.metrics.slices
      OBVIOUS
    <3>2. final.slices[i] \in Int /\ ref.metrics.slices[i] \in Int /\ SliceGain \in Int
      BY <1>1, <3>1 DEF IsMetrics
    <3>3. final.slices[i] - ref.metrics.slices[i] >= SliceGain
      BY <3>1
    <3> QED
      BY <3>2, <3>3
  <2>6. won \in SUBSET c.eligible /\ won \subseteq DOMAIN ref.metrics.slices \cap DOMAIN final.slices
    BY <2>2
  <2>7. final.score >= ref.score + MaxRegression
    BY <1>1, <1>2, <2>1
  <2> QED
    BY <2>4, <2>5, <2>6, <2>7
<1> QED
  BY <1>3, <1>4, <1>5

\* PromotionIsGrounded, of the record a manifest is written from.
GroundedBy(d, e) ==
    LET c == SweepConfig[d]
        ref == SweepReference(c, e.anchor)
        best == e.results[BestVariant(e.results)]
    IN  /\ best.variant.bucket = c.bucket
        /\ \A i \in DOMAIN e.results : e.results[i].ran => ~ScoresAbove(e.results[i].dev, best.dev)
        /\ \A sig \in {ref.signature, ref.metrics.signature} :
              sig # NoSignature /\ (sig = ref.signature \/ ref.signature = NoSignature) => e.anchor.signature = sig
        /\ \/ e.final.score >= ref.score + GainThreshold
           \/ /\ e.final.score >= ref.score + MaxRegression
              /\ \E won \in SUBSET c.eligible :
                   /\ Cardinality(won) = SliceCount
                   /\ won \subseteq DOMAIN ref.metrics.slices \cap DOMAIN e.final.slices
                   /\ \A i \in won : e.final.slices[i] >= ref.metrics.slices[i] + SliceGain
        /\ e.backend = "mock" => ~c.locked

LEMMA PromotionsAreGrounded ==
    ASSUME NEW d \in Sweeps, NEW e, Comparable(d, e.results, e.anchor, e.final),
           SweepDecision(SweepConfig[d], SweepReference(SweepConfig[d], e.anchor), e.final) = "promoted",
           e.backend = "mock" => ~SweepConfig[d].locked
    PROVE  GroundedBy(d, e)
PROOF
<1> DEFINE c == SweepConfig[d]
           ref == SweepReference(c, e.anchor)
           best == e.results[BestVariant(e.results)]
<1>1. /\ best.variant.bucket = c.bucket
      /\ \A i \in DOMAIN e.results : ~ScoresAbove(e.results[i].dev, best.dev)
  BY BestVariantFacts DEF Comparable
<1>2. ref.score \in Int /\ \A i \in DOMAIN ref.metrics.slices : ref.metrics.slices[i] \in Int
  BY ReferenceFacts DEF Comparable
<1>3. e.final \in FinalMetrics[d] /\ PreflightPasses(ref, e.anchor)
  BY DEF Comparable
<1> HIDE DEF ref, best
<1>4. \/ e.final.score >= ref.score + GainThreshold
      \/ /\ e.final.score >= ref.score + MaxRegression
         /\ \E won \in SUBSET c.eligible :
              /\ Cardinality(won) = SliceCount
              /\ won \subseteq DOMAIN ref.metrics.slices \cap DOMAIN e.final.slices
              /\ \A i \in won : e.final.slices[i] >= ref.metrics.slices[i] + SliceGain
  <2>1. SweepDecision(c, ref, e.final) = "promoted"
    BY DEF ref
  <2> QED
    BY <1>2, <1>3, <2>1, GainFacts
<1>5. \A sig \in {ref.signature, ref.metrics.signature} :
         sig # NoSignature /\ (sig = ref.signature \/ ref.signature = NoSignature) => e.anchor.signature = sig
  BY <1>3 DEF PreflightPasses
<1> QED
  BY <1>1, <1>4, <1>5 DEF GroundedBy, ref, best


\* A process of a sweep is a record; what the actions make of it.
IsSweep(s) ==
    s = [pc |-> s.pc, attempt |-> s.attempt, number |-> s.number, backend |-> s.backend, results |-> s.results,
         anchor |-> s.anchor, final |-> s.final, decision |-> s.decision, notes |-> s.notes]
\* t is s but for the fields named.
SameSweep(s, t, changed) ==
    /\ IsSweep(t)
    /\ "pc" \notin changed => t.pc = s.pc
    /\ "attempt" \notin changed => t.attempt = s.attempt
    /\ "number" \notin changed => t.number = s.number
    /\ "backend" \notin changed => t.backend = s.backend
    /\ "results" \notin changed => t.results = s.results
    /\ "anchor" \notin changed => t.anchor = s.anchor
    /\ "final" \notin changed => t.final = s.final
    /\ "decision" \notin changed => t.decision = s.decision
    /\ "notes" \notin changed => t.notes = s.notes

LEMMA SweepField ==
    ASSUME NEW s, IsSweep(s), NEW x
    PROVE  /\ SameSweep(s, [s EXCEPT !.pc = x], {"pc"}) /\ [s EXCEPT !.pc = x].pc = x
           /\ SameSweep(s, [s EXCEPT !.attempt = x], {"attempt"}) /\ [s EXCEPT !.attempt = x].attempt = x
           /\ SameSweep(s, [s EXCEPT !.number = x], {"number"}) /\ [s EXCEPT !.number = x].number = x
           /\ SameSweep(s, [s EXCEPT !.backend = x], {"backend"}) /\ [s EXCEPT !.backend = x].backend = x
           /\ SameSweep(s, [s EXCEPT !.results = x], {"results"}) /\ [s EXCEPT !.results = x].results = x
           /\ SameSweep(s, [s EXCEPT !.anchor = x], {"anchor"}) /\ [s EXCEPT !.anchor = x].anchor = x
           /\ SameSweep(s, [s EXCEPT !.final = x], {"final"}) /\ [s EXCEPT !.final = x].final = x
           /\ SameSweep(s, [s EXCEPT !.decision = x], {"decision"}) /\ [s EXCEPT !.decision = x].decision = x
           /\ SameSweep(s, [s EXCEPT !.notes = x], {"notes"}) /\ [s EXCEPT !.notes = x].notes = x
PROOF
<1>1. SameSweep(s, [s EXCEPT !.pc = x], {"pc"}) /\ [s EXCEPT !.pc = x].pc = x
  <2>1. [s EXCEPT !.pc = x] = [pc |-> x, attempt |-> s.attempt, number |-> s.number, backend |-> s.backend, results |-> s.results, anchor |-> s.anchor, final |-> s.final, decision |-> s.decision, notes |-> s.notes]
    BY DEF IsSweep
  <2> QED
    BY <2>1 DEF SameSweep, IsSweep
<1>2. SameSweep(s, [s EXCEPT !.attempt = x], {"attempt"}) /\ [s EXCEPT !.attempt = x].attempt = x
  <2>1. [s EXCEPT !.attempt = x] = [pc |-> s.pc, attempt |-> x, number |-> s.number, backend |-> s.backend, results |-> s.results, anchor |-> s.anchor, final |-> s.final, decision |-> s.decision, notes |-> s.notes]
    BY DEF IsSweep
  <2> QED
    BY <2>1 DEF SameSweep, IsSweep
<1>3. SameSweep(s, [s EXCEPT !.number = x], {"number"}) /\ [s EXCEPT !.number = x].number = x
  <2>1. [s EXCEPT !.number = x] = [pc |-> s.pc, attempt |-> s.attempt, number |-> x, backend |-> s.backend, results |-> s.results, anchor |-> s.anchor, final |-> s.final, decision |-> s.decision, notes |-> s.notes]
    BY DEF IsSweep
  <2> QED
    BY <2>1 DEF SameSweep, IsSweep
<1>4. SameSweep(s, [s EXCEPT !.backend = x], {"backend"}) /\ [s EXCEPT !.backend = x].backend = x
  <2>1. [s EXCEPT !.backend = x] = [pc |-> s.pc, attempt |-> s.attempt, number |-> s.number, backend |-> x, results |-> s.results, anchor |-> s.anchor, final |-> s.final, decision |-> s.decision, notes |-> s.notes]
    BY DEF IsSweep
  <2> QED
    BY <2>1 DEF SameSweep, IsSweep
<1>5. SameSweep(s, [s EXCEPT !.results = x], {"results"}) /\ [s EXCEPT !.results = x].results = x
  <2>1. [s EXCEPT !.results = x] = [pc |-> s.pc, attempt |-> s.attempt, number |-> s.number, backend |-> s.backend, results |-> x, anchor |-> s.anchor, final |-> s.final, decision |-> s.decision, notes |-> s.notes]
    BY DEF IsSweep
  <2> QED
    BY <2>1 DEF SameSweep, IsSweep
<1>6. SameSweep(s, [s EXCEPT !.anchor = x], {"anchor"}) /\ [s EXCEPT !.anchor = x].anchor = x
  <2>1. [s EXCEPT !.anchor = x] = [pc |-> s.pc, attempt |-> s.attempt, number |-> s.number, backend |-> s.backend, results |-> s.results, anchor |-> x, final |-> s.final, decision |-> s.decision, notes |-> s.notes]
    BY DEF IsSweep
  <2> QED
    BY <2>1 DEF SameSweep, IsSweep
<1>7. SameSweep(s, [s EXCEPT !.final = x], {"final"}) /\ [s EXCEPT !.final = x].final = x
  <2>1. [s EXCEPT !.final = x] = [pc |-> s.pc, attempt |-> s.attempt, number |-> s.number, backend |-> s.backend, results |-> s.results, anchor |-> s.anchor, final |-> x, decision |-> s.decision, notes |-> s.notes]
    BY DEF IsSweep
  <2> QED
    BY <2>1 DEF SameSweep, IsSweep
<1>8. SameSweep(s, [s EXCEPT !.decision = x], {"decision"}) /\ [s EXCEPT !.decision = x].decision = x
  <2>1. [s EXCEPT !.decision = x] = [pc |-> s.pc, attempt |-> s.attempt, number |-> s.number, backend |-> s.backend, results |-> s.results, anchor |-> s.anchor, final |-> s.final, decision |-> x, notes |-> s.notes]
    BY DEF IsSweep
  <2> QED
    BY <2>1 DEF SameSweep, IsSweep
<1>9. SameSweep(s, [s EXCEPT !.notes = x], {"notes"}) /\ [s EXCEPT !.notes = x].notes = x
  <2>1. [s EXCEPT !.notes = x] = [pc |-> s.pc, attempt |-> s.attempt, number |-> s.number, backend |-> s.backend, results |-> s.results, anchor |-> s.anchor, final |-> s.final, decision |-> s.decision, notes |-> x]
    BY DEF IsSweep
  <2> QED
    BY <2>1 DEF SameSweep, IsSweep
<1> QED
  BY <1>1, <1>2, <1>3, <1>4, <1>5, <1>6, <1>7, <1>8, <1>9

\* A result is kept and the process moves on.
WithAnchor(s, x, p) == [s EXCEPT !.anchor = x, !.pc = p]
WithFinal(s, x, p) == [s EXCEPT !.final = x, !.pc = p]
WithDecision(s, x, p) == [s EXCEPT !.decision = x, !.pc = p]
WithNotes(s, x, p) == [s EXCEPT !.notes = x, !.pc = p]

LEMMA AnchorField ==
    ASSUME NEW s, IsSweep(s), NEW x, NEW p
    PROVE  SameSweep(s, WithAnchor(s, x, p), {"anchor", "pc"}) /\ WithAnchor(s, x, p).anchor = x /\ WithAnchor(s, x, p).pc = p
PROOF
<1> DEFINE u == [s EXCEPT !.anchor = x]
           t == WithAnchor(s, x, p)
<1>1. t = [u EXCEPT !.pc = p]
  BY Zenon DEF WithAnchor
<1>2. SameSweep(s, u, {"anchor"}) /\ u.anchor = x
  BY SweepField
<1>3. IsSweep(u)
  BY <1>2 DEF SameSweep
<1> HIDE DEF u, t
<1>4. SameSweep(u, t, {"pc"}) /\ t.pc = p
  BY <1>1, <1>3, SweepField
<1>5. SameSweep(s, t, {"anchor", "pc"}) /\ t.anchor = x
  BY <1>2, <1>4 DEF SameSweep
<1> QED
  BY <1>4, <1>5 DEF t

LEMMA FinalField ==
    ASSUME NEW s, IsSweep(s), NEW x, NEW p
    PROVE  SameSweep(s, WithFinal(s, x, p), {"final", "pc"}) /\ WithFinal(s, x, p).final = x /\ WithFinal(s, x, p).pc = p
PROOF
<1> DEFINE u == [s EXCEPT !.final = x]
           t == WithFinal(s, x, p)
<1>1. t = [u EXCEPT !.pc = p]
  BY Zenon DEF WithFinal
<1>2. SameSweep(s, u, {"final"}) /\ u.final = x
  BY SweepField
<1>3. IsSweep(u)
  BY <1>2 DEF SameSweep
<1> HIDE DEF u, t
<1>4. SameSweep(u, t, {"pc"}) /\ t.pc = p
  BY <1>1, <1>3, SweepField
<1>5. SameSweep(s, t, {"final", "pc"}) /\ t.final = x
  BY <1>2, <1>4 DEF SameSweep
<1> QED
  BY <1>4, <1>5 DEF t

LEMMA DecisionField ==
    ASSUME NEW s, IsSweep(s), NEW x, NEW p
    PROVE  SameSweep(s, WithDecision(s, x, p), {"decision", "pc"}) /\ WithDecision(s, x, p).decision = x /\ WithDecision(s, x, p).pc = p
PROOF
<1> DEFINE u == [s EXCEPT !.decision = x]
           t == WithDecision(s, x, p)
<1>1. t = [u EXCEPT !.pc = p]
  BY Zenon DEF WithDecision
<1>2. SameSweep(s, u, {"decision"}) /\ u.decision = x
  BY SweepField
<1>3. IsSweep(u)
  BY <1>2 DEF SameSweep
<1> HIDE DEF u, t
<1>4. SameSweep(u, t, {"pc"}) /\ t.pc = p
  BY <1>1, <1>3, SweepField
<1>5. SameSweep(s, t, {"decision", "pc"}) /\ t.decision = x
  BY <1>2, <1>4 DEF SameSweep
<1> QED
  BY <1>4, <1>5 DEF t

LEMMA NotesField ==
    ASSUME NEW s, IsSweep(s), NEW x, NEW p
    PROVE  SameSweep(s, WithNotes(s, x, p), {"notes", "pc"}) /\ WithNotes(s, x, p).notes = x /\ WithNotes(s, x, p).pc = p
PROOF
<1> DEFINE u == [s EXCEPT !.notes = x]
           t == WithNotes(s, x, p)
<1>1. t = [u EXCEPT !.pc = p]
  BY Zenon DEF WithNotes
<1>2. SameSweep(s, u, {"notes"}) /\ u.notes = x
  BY SweepField
<1>3. IsSweep(u)
  BY <1>2 DEF SameSweep
<1> HIDE DEF u, t
<1>4. SameSweep(u, t, {"pc"}) /\ t.pc = p
  BY <1>1, <1>3, SweepField
<1>5. SameSweep(s, t, {"notes", "pc"}) /\ t.notes = x
  BY <1>2, <1>4 DEF SameSweep
<1> QED
  BY <1>4, <1>5 DEF t


Late == {"decision", "summary", "gated decision", "gated summary"}
Judging == {"read notes", "write notes", "manifest"}
SweepPlaces == {"idle", "variants", "anchor", "final", "audited"} \cup Judging \cup Late

\* What a process holds is right for the place it has come to.
ProcessIs(d, s) ==
    /\ IsSweep(s) /\ s.pc \in SweepPlaces
    /\ s.attempt \in 0..MaxAttempts + 1 /\ s.number \in 0..sweepAttempts
    /\ s.backend \in {"configured", "mock"} /\ s.decision \in Decisions /\ s.notes \subseteq Sweeps \cup {"others"}
    /\ SweepRows(d, s.results)
    /\ s.backend = "mock" => ~SweepConfig[d].locked
    /\ s.pc # "idle" => s.number # 0 /\ d \in swept
    /\ s.pc \in {"anchor", "final"} => \E i \in DOMAIN s.results : s.results[i].ran
    /\ s.pc = "final" => s.anchor \in FinalMetrics[d]
    /\ s.pc \in {"audited"} \cup Judging => Comparable(d, s.results, s.anchor, s.final)
    /\ s.pc \in Judging =>
         s.decision = SweepDecision(SweepConfig[d], SweepReference(SweepConfig[d], s.anchor), s.final)

\* The manifest and the summary of a sweep the recovery can find.
SummaryFollows(m, u, s) ==
    /\ m.by = 0 => u.by = 0
    /\ u.by \in {0, m.by} /\ (u.by # 0 => u.decision = m.decision)
    /\ u.by = 0 => ~u.gated
    /\ m.by # 0 => s.pc \in Late \cup {"idle"}
    /\ s.pc \in Late => m.by = s.number /\ m.decision = s.decision
    /\ s.pc \in {"decision", "summary"} => u.by = 0

\* The shared files, when no other sweep writes there.
SharedFollow(m, u, s) ==
    /\ m.by # 0 => reports.audit = m.by /\ reports.scoreboard = m.by
    /\ reports.decision.by \in {0, m.by}
    /\ u.by # 0 => reports.decision.by # 0
    /\ s.pc \in {"summary", "gated summary"} => reports.decision.by # 0
    /\ u.gated => reports.decision.gated
    /\ s.pc = "gated summary" => reports.decision.gated
    /\ s.pc \in {"audited"} \cup Judging => reports.audit = s.number
    /\ s.pc \in Judging => reports.scoreboard = s.number

FilesFollow(d, m, u, s) ==
    /\ m.by \in 0..sweepAttempts /\ u.decision \in Decisions
    /\ m.by # 0 /\ m.decision = "promoted" => GroundedBy(d, m.evidence)
    /\ SweepConfig[d].located => SummaryFollows(m, u, s)
    /\ SweepConfig[d].located /\ swept = {d} => SharedFollow(m, u, s)

SweepGlobals ==
    /\ sweep = [d \in Sweeps |-> sweep[d]] /\ sweepManifest = [d \in Sweeps |-> sweepManifest[d]]
    /\ sweepSummary = [d \in Sweeps |-> sweepSummary[d]]
    /\ reports = [scoreboard |-> reports.scoreboard, audit |-> reports.audit, decision |-> reports.decision]
    /\ {reports.scoreboard, reports.audit, reports.decision.by} \subseteq 0..sweepAttempts
    /\ crashNotes \subseteq Sweeps \cup {"others"}
    /\ swept \in SweptTogether
    /\ sweepAttempts \in 0..MaxSweepAttempts[swept] /\ sweepCrashes \in 0..MaxSweepCrashes

SweepInv ==
    /\ SweepGlobals
    /\ \A d \in Sweeps : ProcessIs(d, sweep[d]) /\ FilesFollow(d, sweepManifest[d], sweepSummary[d], sweep[d])

LEMMA IdleSweepIs ==
    /\ IsSweep(IdleSweep) /\ IdleSweep.pc = "idle" /\ IdleSweep.attempt = 0 /\ IdleSweep.number = 0
    /\ IdleSweep.backend = "configured" /\ IdleSweep.results = <<>> /\ IdleSweep.decision = "none"
    /\ IdleSweep.notes = {}
BY DEF IdleSweep, IsSweep

LEMMA NoRows == \A d \in Sweeps : SweepRows(d, <<>>)
PROOF
<1>1. <<>> \in Seq({})
  OBVIOUS
<1> QED
  BY <1>1 DEF SweepRows

LEMMA SweepNumbers ==
    ASSUME SweepGlobals
    PROVE  /\ MaxAttempts \in Nat /\ sweepAttempts \in Nat /\ MaxSweepAttempts[swept] \in Nat /\ MaxSweepCrashes \in Nat
           /\ swept \subseteq Sweeps
BY SweepAssumption, RecoveryAssumption DEF SweepGlobals

LEMMA SweepInitHolds == SweepInit => SweepInv
PROOF
<1> SUFFICES ASSUME SweepInit PROVE SweepInv
  OBVIOUS
<1> USE DEF SweepInit
<1>1. NoSweepFile.by = 0 /\ NoSweepFile.decision = "none" /\ NoSweepFile.gated = FALSE
  BY DEF NoSweepFile
<1>2. swept \in SweptTogether /\ MaxSweepAttempts[swept] \in Nat /\ sweepAttempts = 0 /\ sweepCrashes = 0
  BY SweepAssumption
<1>3. /\ reports = [scoreboard |-> 0, audit |-> 0, decision |-> NoSweepFile]
      /\ reports.scoreboard = 0 /\ reports.audit = 0 /\ reports.decision = NoSweepFile
  OBVIOUS
<1>4. SweepGlobals
  <2>1. sweepAttempts \in 0..MaxSweepAttempts[swept] /\ sweepCrashes \in 0..MaxSweepCrashes
    BY <1>2, SweepAssumption
  <2>2. {reports.scoreboard, reports.audit, reports.decision.by} \subseteq 0..sweepAttempts
    BY <1>1, <1>2, <1>3
  <2>3. /\ sweep = [d \in Sweeps |-> sweep[d]] /\ sweepManifest = [d \in Sweeps |-> sweepManifest[d]]
        /\ sweepSummary = [d \in Sweeps |-> sweepSummary[d]] /\ crashNotes = {}
    OBVIOUS
  <2> QED
    BY <1>2, <1>3, <2>1, <2>2, <2>3 DEF SweepGlobals
<1>5. ASSUME NEW d \in Sweeps
      PROVE  ProcessIs(d, sweep[d])
  <2>1. sweep[d] = IdleSweep
    OBVIOUS
  <2>2. "idle" \notin {"audited"} \cup Judging /\ "idle" \in SweepPlaces
    BY DEF Judging, SweepPlaces
  <2>3. MaxAttempts \in Nat
    BY RecoveryAssumption
  <2> QED
    BY <1>2, <2>1, <2>2, <2>3, IdleSweepIs, NoRows DEF ProcessIs, Decisions
<1>6. ASSUME NEW d \in Sweeps
      PROVE  FilesFollow(d, sweepManifest[d], sweepSummary[d], sweep[d])
  <2>1. sweep[d].pc = "idle" /\ sweepManifest[d] = NoSweepFile /\ sweepSummary[d] = NoSweepFile
    BY IdleSweepIs
  <2>2. SummaryFollows(sweepManifest[d], sweepSummary[d], sweep[d])
    BY <1>1, <2>1 DEF SummaryFollows, Late
  <2>3. SharedFollow(sweepManifest[d], sweepSummary[d], sweep[d])
    BY <1>1, <1>3, <2>1 DEF SharedFollow, Judging
  <2> QED
    BY <1>1, <1>2, <2>1, <2>2, <2>3 DEF FilesFollow, Decisions
<1> QED
  BY <1>4, <1>5, <1>6 DEF SweepInv

\* A step of one sweep leaves what the others hold as it was.
LEMMA SweepStepIs ==
    ASSUME SweepInv, SweepGlobals', NEW e \in swept,
           swept' = swept, sweepAttempts' >= sweepAttempts,
           \A d \in Sweeps : d # e => /\ sweep'[d] = sweep[d] /\ sweepManifest'[d] = sweepManifest[d]
                                      /\ sweepSummary'[d] = sweepSummary[d],
           ProcessIs(e, sweep[e])', FilesFollow(e, sweepManifest[e], sweepSummary[e], sweep[e])'
    PROVE  SweepInv'
PROOF
<1>0. sweepAttempts \in Nat /\ sweepAttempts' \in Nat /\ 0..sweepAttempts \subseteq 0..sweepAttempts'
  <2>1. sweepAttempts \in Nat
    BY SweepNumbers DEF SweepInv
  <2>2. sweepAttempts' \in Nat
    BY SweepAssumption DEF SweepGlobals
  <2> QED
    BY <2>1, <2>2
<1>1. ASSUME NEW d \in Sweeps, d # e
      PROVE  ProcessIs(d, sweep[d])' /\ FilesFollow(d, sweepManifest[d], sweepSummary[d], sweep[d])'
  <2>1. ProcessIs(d, sweep[d]) /\ FilesFollow(d, sweepManifest[d], sweepSummary[d], sweep[d])
    BY DEF SweepInv
  <2>2. sweep'[d] = sweep[d] /\ sweepManifest'[d] = sweepManifest[d] /\ sweepSummary'[d] = sweepSummary[d]
    BY <1>1
  <2>3. ProcessIs(d, sweep[d])'
    BY <1>0, <2>1, <2>2 DEF ProcessIs
  <2>4. swept' # {d}
    BY <1>1
  <2>5. FilesFollow(d, sweepManifest[d], sweepSummary[d], sweep[d])'
    BY <1>0, <2>1, <2>2, <2>4 DEF FilesFollow, SummaryFollows
  <2> QED
    BY <2>3, <2>5
<1> QED
  BY <1>1 DEF SweepInv


\* The process of a sweep goes on from what it holds, and writes no file.
LEMMA MoveKeeps ==
    ASSUME SweepInv, NEW e \in swept, NEW t, sweep' = [sweep EXCEPT ![e] = t],
           KeepSweepFiles, swept' = swept, sweepCrashes' \in 0..MaxSweepCrashes,
           sweepAttempts' \in 0..MaxSweepAttempts[swept], sweepAttempts' >= sweepAttempts,
           ProcessIs(e, t)',
           t.pc \notin Late, t.pc \notin {"audited"} \cup Judging,
           t.pc = "idle" \/ (SweepConfig[e].located => sweepManifest[e].by = 0)
    PROVE  SweepInv'
PROOF
<1>0. /\ sweepAttempts \in Nat /\ sweepAttempts' \in Nat /\ 0..sweepAttempts \subseteq 0..sweepAttempts'
      /\ e \in Sweeps /\ SweepGlobals
  BY SweepNumbers DEF SweepInv
<1>1. UNCHANGED <<sweepManifest, sweepSummary, reports, crashNotes>>
  BY DEF KeepSweepFiles
<1>2. sweep' = [d \in Sweeps |-> IF d = e THEN t ELSE sweep[d]]
  BY <1>0 DEF SweepGlobals
<1>3. sweep'[e] = t /\ \A d \in Sweeps : d # e => sweep'[d] = sweep[d]
  BY <1>0, <1>2
<1>4. SweepGlobals'
  <2>1. sweep' = [d \in Sweeps |-> sweep'[d]]
    BY <1>2
  <2> QED
    BY <1>0, <1>1, <2>1 DEF SweepGlobals
<1>5. FilesFollow(e, sweepManifest[e], sweepSummary[e], sweep[e])'
  <2>1. FilesFollow(e, sweepManifest[e], sweepSummary[e], sweep[e])
    BY <1>0 DEF SweepInv
  <2>2. t.pc \notin {"summary", "gated summary", "decision"}
    BY DEF Late
  <2>3. SweepConfig[e].located => SummaryFollows(sweepManifest[e], sweepSummary[e], t)
    BY <2>1, <2>2 DEF FilesFollow, SummaryFollows
  <2>4. SweepConfig[e].located /\ swept = {e} => SharedFollow(sweepManifest[e], sweepSummary[e], t)
    BY <2>1, <2>2 DEF FilesFollow, SharedFollow
  <2>5. UNCHANGED <<sweepManifest[e], sweepSummary[e]>>
    BY <1>1
  <2> QED
    BY <1>0, <1>1, <1>3, <2>1, <2>3, <2>4, <2>5 DEF FilesFollow, SummaryFollows, SharedFollow
<1>6. ProcessIs(e, sweep[e])'
  BY <1>3
<1> QED
  BY <1>0, <1>1, <1>3, <1>4, <1>5, <1>6, SweepStepIs

\* Before its manifest a sweep that can be found has none.
LEMMA NotYet ==
    ASSUME SweepInv, NEW e \in Sweeps, sweep[e].pc \notin Late, sweep[e].pc # "idle"
    PROVE  e \in swept /\ (SweepConfig[e].located => sweepManifest[e].by = 0)
BY DEF SweepInv, ProcessIs, FilesFollow, SummaryFollows

\* The places that are before the manifest.
LEMMA Early ==
    \A p : p \in {"variants", "anchor", "final", "audited"} \cup Judging => p \notin Late /\ p # "idle" /\ p \in SweepPlaces
BY DEF Late, Judging, SweepPlaces

\* The process of a sweep has ended.
LEMMA IdleKeeps ==
    ASSUME SweepInv, NEW e \in swept, SetSweep(e, IdleSweep), KeepSweepFiles,
           swept' = swept, sweepAttempts' = sweepAttempts, sweepCrashes' \in 0..MaxSweepCrashes
    PROVE  SweepInv'
PROOF
<1>0. /\ sweepAttempts \in Nat /\ MaxAttempts \in Nat /\ e \in Sweeps /\ SweepGlobals
      /\ sweepAttempts \in 0..MaxSweepAttempts[swept]
  BY SweepNumbers DEF SweepInv, SweepGlobals
<1>1. "idle" \notin {"audited"} \cup Judging /\ "idle" \in SweepPlaces /\ "idle" \notin Late
  BY DEF Judging, SweepPlaces, Late
<1>2. ProcessIs(e, IdleSweep)'
  BY <1>0, <1>1, IdleSweepIs, NoRows DEF ProcessIs, Decisions
<1>3. sweep' = [sweep EXCEPT ![e] = IdleSweep]
  BY DEF SetSweep
<1>4. sweepAttempts' >= sweepAttempts /\ sweepAttempts' \in 0..MaxSweepAttempts[swept]
  BY <1>0
<1>5. PICK t : t = IdleSweep
  OBVIOUS
<1>6. /\ sweep' = [sweep EXCEPT ![e] = t] /\ ProcessIs(e, t)' /\ t.pc \notin Late /\ t.pc = "idle"
      /\ t.pc \notin {"audited"} \cup Judging
  BY <1>1, <1>2, <1>3, <1>5, IdleSweepIs
<1> QED
  BY <1>4, <1>6, MoveKeeps

\* An attempt begins, the first one or the next.
IsBegun(t, n, k, b) ==
    /\ IsSweep(t) /\ t.pc = "variants" /\ t.attempt = n /\ t.number = k /\ t.backend = b
    /\ t.results = <<>> /\ t.decision = "none" /\ t.notes = {}
LEMMA AttemptRecord ==
    ASSUME NEW n, NEW k, NEW b
    PROVE  IsBegun([IdleSweep EXCEPT !.pc = "variants", !.attempt = n, !.number = k, !.backend = b], n, k, b)
PROOF
<1> DEFINE t == [IdleSweep EXCEPT !.pc = "variants", !.attempt = n, !.number = k, !.backend = b]
<1> DEFINE t1 == [IdleSweep EXCEPT !.pc = "variants"]
           t2 == [t1 EXCEPT !.attempt = n]
           t3 == [t2 EXCEPT !.number = k]
           t4 == [t3 EXCEPT !.backend = b]
<1>0. t = t4
  BY Zenon
<1>1. SameSweep(IdleSweep, t1, {"pc"}) /\ t1.pc = "variants"
  <2>1. IsSweep(IdleSweep)
    BY IdleSweepIs
  <2> QED
    BY <2>1, SweepField, Zenon
<1> HIDE DEF t1
<1>2. SameSweep(t1, t2, {"attempt"}) /\ t2.attempt = n
  <2>1. IsSweep(t1)
    BY <1>1 DEF SameSweep
  <2> QED
    BY <2>1, SweepField, Zenon
<1> HIDE DEF t2
<1>3. SameSweep(t2, t3, {"number"}) /\ t3.number = k
  <2>1. IsSweep(t2)
    BY <1>2 DEF SameSweep
  <2> QED
    BY <2>1, SweepField, Zenon
<1> HIDE DEF t3
<1>4. SameSweep(t3, t4, {"backend"}) /\ t4.backend = b
  <2>1. IsSweep(t3)
    BY <1>3 DEF SameSweep
  <2> QED
    BY <2>1, SweepField, Zenon
<1> HIDE DEF t, t4
<1>5. IsSweep(t4) /\ t4.pc = "variants" /\ t4.attempt = n /\ t4.number = k /\ t4.backend = b
  BY <1>1, <1>2, <1>3, <1>4 DEF SameSweep
<1>6. t4.results = <<>> /\ t4.decision = "none" /\ t4.notes = {}
  BY <1>1, <1>2, <1>3, <1>4, IdleSweepIs DEF SameSweep
<1>7. /\ IsSweep(t) /\ t.pc = "variants" /\ t.attempt = n /\ t.number = k /\ t.backend = b
      /\ t.results = <<>> /\ t.decision = "none" /\ t.notes = {}
  BY <1>0, <1>5, <1>6
<1> QED
  BY <1>7 DEF t, IsBegun

LEMMA SweepAttemptKeeps ==
    ASSUME SweepInv, NEW e \in swept, NEW n \in 0..MaxAttempts + 1, NEW b \in {"configured", "mock"},
           b = "mock" => ~SweepConfig[e].locked,
           SweepConfig[e].located => sweepManifest[e].by = 0,
           SweepAttempt(e, n, b), KeepSweepFiles, swept' = swept, sweepCrashes' = sweepCrashes
    PROVE  SweepInv'
PROOF
<1> DEFINE begun == [IdleSweep EXCEPT !.pc = "variants", !.attempt = n, !.number = sweepAttempts + 1, !.backend = b]
<1>0. /\ sweepAttempts \in Nat /\ MaxAttempts \in Nat /\ e \in Sweeps /\ SweepGlobals
      /\ MaxSweepAttempts[swept] \in Nat /\ sweepCrashes \in 0..MaxSweepCrashes
  BY SweepNumbers DEF SweepInv, SweepGlobals
<1>1. sweepAttempts < MaxSweepAttempts[swept] /\ sweepAttempts' = sweepAttempts + 1 /\ sweep' = [sweep EXCEPT ![e] = begun]
  BY DEF SweepAttempt, SetSweep
<1> HIDE DEF begun
<1>t. PICK t : t = begun
  OBVIOUS
<1>2. /\ IsSweep(t) /\ t.pc = "variants" /\ t.attempt = n /\ t.number = sweepAttempts + 1 /\ t.backend = b
      /\ t.results = <<>> /\ t.decision = "none" /\ t.notes = {}
  <2>1. /\ IsSweep(begun) /\ begun.pc = "variants" /\ begun.attempt = n /\ begun.number = sweepAttempts + 1
        /\ begun.backend = b /\ begun.results = <<>> /\ begun.decision = "none" /\ begun.notes = {}
    <3>1. IsBegun(begun, n, sweepAttempts + 1, b)
      BY AttemptRecord DEF begun
    <3> QED
      BY <3>1 DEF IsBegun
  <2> QED
    BY <1>t, <2>1
<1>3. "variants" \notin {"audited"} \cup Judging /\ "variants" \in SweepPlaces /\ "variants" \notin Late
  BY DEF Judging, SweepPlaces, Late
<1>4. t.number \in 0..sweepAttempts' /\ t.number # 0
  BY <1>0, <1>1, <1>2
<1>5. ProcessIs(e, t)'
  BY <1>0, <1>2, <1>3, <1>4, NoRows DEF ProcessIs, Decisions
<1>6. sweepAttempts' \in 0..MaxSweepAttempts[swept] /\ sweepAttempts' >= sweepAttempts
  BY <1>0, <1>1
<1>7. sweep' = [sweep EXCEPT ![e] = t]
  BY <1>1, <1>t
<1> QED
  BY <1>0, <1>2, <1>3, <1>5, <1>6, <1>7, MoveKeeps

\* A failed attempt: the next one, or the end.
LEMMA RaiseSweepKeeps ==
    ASSUME SweepInv, NEW e \in Sweeps, sweep[e].pc \notin Late, sweep[e].pc # "idle",
           NEW x, RaiseSweep(e, x), KeepSweepFiles
    PROVE  SweepInv'
PROOF
<1>0. /\ e \in swept /\ (SweepConfig[e].located => sweepManifest[e].by = 0) /\ MaxAttempts \in Nat
      /\ sweepCrashes \in 0..MaxSweepCrashes /\ sweep[e].attempt \in 0..MaxAttempts + 1
  BY NotYet, SweepNumbers DEF SweepInv, SweepGlobals, ProcessIs
<1>1. swept' = swept /\ sweepCrashes' = sweepCrashes
  BY DEF RaiseSweep
<1>2. CASE AfterFailure(sweep[e].attempt, x) = "again"
  <2>1. SweepAttempt(e, sweep[e].attempt + 1, FallbackBackend(e))
    BY <1>2 DEF RaiseSweep
  <2>2. ~(sweep[e].attempt > MaxAttempts)
    BY <1>2 DEF AfterFailure
  <2>3. sweep[e].attempt + 1 \in 0..MaxAttempts + 1
    BY <1>0, <2>2
  <2>4. FallbackBackend(e) \in {"configured", "mock"} /\ (FallbackBackend(e) = "mock" => ~SweepConfig[e].locked)
    BY DEF FallbackBackend
  <2> QED
    BY <1>0, <1>1, <2>1, <2>3, <2>4, SweepAttemptKeeps
<1>3. CASE AfterFailure(sweep[e].attempt, x) # "again"
  BY <1>0, <1>1, <1>3, IdleKeeps DEF RaiseSweep
<1> QED
  BY <1>2, <1>3

LEMMA StartSweepKeeps ==
    ASSUME SweepInv, NEW e \in Sweeps, StartSweep(e)
    PROVE  SweepInv'
PROOF
<1>1. /\ e \in swept /\ SweepAttempt(e, 1, "configured") /\ KeepSweepFiles
      /\ swept' = swept /\ sweepCrashes' = sweepCrashes
  BY DEF StartSweep
<1>2. SweepConfig[e].located => sweepManifest[e].by = 0
  BY DEF StartSweep, SweepResumes
<1>3. 1 \in 0..MaxAttempts + 1
  BY RecoveryAssumption
<1> QED
  BY <1>1, <1>2, <1>3, SweepAttemptKeeps

LEMMA SweepFailsKeeps ==
    ASSUME SweepInv, NEW e \in Sweeps, SweepFails(e) \/ NothingExecutable(e)
    PROVE  SweepInv'
PROOF
<1>1. sweep[e].pc \in {"variants", "anchor", "final"} /\ KeepSweepFiles
  BY DEF SweepFails, NothingExecutable, AtSweep
<1>2. \E x : RaiseSweep(e, x)
  BY DEF SweepFails, NothingExecutable
<1> QED
  BY <1>1, <1>2, Early, RaiseSweepKeeps

LEMMA SweepDiesKeeps ==
    ASSUME SweepInv, NEW e \in Sweeps, SweepDies(e)
    PROVE  SweepInv'
PROOF
<1>1. /\ sweep[e].pc # "idle" /\ sweepCrashes < MaxSweepCrashes /\ SetSweep(e, IdleSweep) /\ KeepSweepFiles
      /\ sweepCrashes' = sweepCrashes + 1 /\ swept' = swept /\ sweepAttempts' = sweepAttempts
  BY DEF SweepDies, AtSweep
<1>2. e \in swept
  BY <1>1 DEF SweepInv, ProcessIs
<1>3. sweepCrashes' \in 0..MaxSweepCrashes
  BY <1>1, SweepNumbers DEF SweepInv, SweepGlobals
<1> QED
  BY <1>1, <1>2, <1>3, IdleKeeps


\* One more row of the matrix.
LEMMA OneMoreRow ==
    ASSUME NEW d \in Sweeps, NEW results, SweepRows(d, results), NEW x, SweepRow(d, x)
    PROVE  SweepRows(d, Append(results, x))
PROOF
<1>1. PICK S : results \in Seq(S)
  BY DEF SweepRows
<1>2. Append(results, x) \in Seq(S \cup {x})
  <2>1. results \in Seq(S \cup {x})
    BY <1>1
  <2> QED
    BY <2>1
<1>3. /\ Len(Append(results, x)) = Len(results) + 1 /\ Len(results) \in Nat
      /\ DOMAIN Append(results, x) = 1..Len(results) + 1
      /\ \A i \in 1..Len(results) : Append(results, x)[i] = results[i]
      /\ Append(results, x)[Len(results) + 1] = x
  BY <1>1
<1>4. \A i \in 1..Len(results) + 1 : SweepRow(d, Append(results, x)[i])
  <2> SUFFICES ASSUME NEW i \in 1..Len(results) + 1 PROVE SweepRow(d, Append(results, x)[i])
    OBVIOUS
  <2>1. i \in 1..Len(results) \/ i = Len(results) + 1
    BY <1>3
  <2> QED
    BY <1>3, <2>1 DEF SweepRows
<1> QED
  BY <1>2, <1>3, <1>4 DEF SweepRows

LEMMA SkippedRow ==
    ASSUME NEW d \in Sweeps, NEW v, v.bucket # SweepConfig[d].bucket
    PROVE  SweepRow(d, [variant |-> v, ran |-> v.bucket = SweepConfig[d].bucket, dev |-> <<NoScore - 1, NoScore - 1>>])
PROOF
<1> DEFINE x == [variant |-> v, ran |-> v.bucket = SweepConfig[d].bucket, dev |-> <<NoScore - 1, NoScore - 1>>]
<1>1. x.ran = FALSE
  BY Zenon
<1>2. x.dev = <<NoScore - 1, NoScore - 1>>
  BY Zenon
<1> HIDE DEF x
<1>3. x.dev[1] = NoScore - 1 /\ x.dev[2] = NoScore - 1 /\ NoScore \in Int
  BY <1>2, SweepAssumption
<1>4. x.dev[1] \in Int /\ x.dev[2] \in Int /\ x.dev[1] < NoScore
  BY <1>3
<1> QED
  BY <1>1, <1>4 DEF SweepRow, x

LEMMA ExecutedRow ==
    ASSUME NEW d \in Sweeps, NEW v, v.bucket = SweepConfig[d].bucket, NEW dev \in DevScores
    PROVE  SweepRow(d, [variant |-> v, ran |-> v.bucket = SweepConfig[d].bucket, dev |-> dev])
PROOF
<1> DEFINE x == [variant |-> v, ran |-> v.bucket = SweepConfig[d].bucket, dev |-> dev]
<1>1. x.ran = TRUE
  BY Zenon
<1>2. x.dev = dev /\ x.variant = v
  BY Zenon
<1> HIDE DEF x
<1>3. dev[1] \in Int /\ dev[2] \in Int /\ dev[1] >= NoScore /\ dev[2] >= NoScore
  BY SweepAssumption
<1> QED
  BY <1>1, <1>2, <1>3 DEF SweepRow, x

\* The next row, the anchor, the final test.
LEMMA EarlyKeeps ==
    ASSUME SweepInv, NEW e \in Sweeps, sweep[e].pc \in {"variants", "anchor", "final"},
           NEW t, sweep' = [sweep EXCEPT ![e] = t], KeepSweepFiles, KeepSweepCounts,
           t.pc \in {"variants", "anchor", "final"}, ProcessIs(e, t)
    PROVE  SweepInv'
PROOF
<1>1. e \in swept /\ (SweepConfig[e].located => sweepManifest[e].by = 0)
  BY NotYet, Early
<1>2. t.pc \notin Late /\ t.pc \notin {"audited"} \cup Judging
  BY DEF Late, Judging
<1>3. swept' = swept /\ sweepAttempts' = sweepAttempts /\ sweepCrashes' = sweepCrashes
  BY DEF KeepSweepCounts
<1>4. ProcessIs(e, t)'
  BY <1>3 DEF ProcessIs
<1>5. /\ sweepCrashes' \in 0..MaxSweepCrashes /\ sweepAttempts' \in 0..MaxSweepAttempts[swept]
      /\ sweepAttempts' >= sweepAttempts
  BY <1>3, SweepNumbers DEF SweepInv, SweepGlobals
<1> QED
  BY <1>1, <1>2, <1>3, <1>4, <1>5, MoveKeeps

LEMMA NextVariantKeeps ==
    ASSUME SweepInv, NEW e \in Sweeps, NextVariant(e)
    PROVE  SweepInv'
PROOF
<1> DEFINE s == sweep[e]
           v == SweepConfig[e].variants[NextRow(e)]
           row(dev) == [variant |-> v, ran |-> v.bucket = SweepConfig[e].bucket, dev |-> dev]
<1>1. s.pc = "variants" /\ KeepSweepFiles /\ KeepSweepCounts
  BY DEF NextVariant, AtSweep
<1>2. PICK x : SweepRow(e, x) /\ SetSweep(e, [s EXCEPT !.results = Append(s.results, x)])
  <2>1. CASE v.bucket # SweepConfig[e].bucket /\ SetSweep(e, [s EXCEPT !.results = Append(s.results, row(<<NoScore - 1, NoScore - 1>>))])
    BY <2>1, SkippedRow
  <2>2. CASE v.bucket = SweepConfig[e].bucket /\ \E dev \in DevScores : SetSweep(e, [s EXCEPT !.results = Append(s.results, row(dev))])
    BY <2>2, ExecutedRow
  <2> QED
    BY <2>1, <2>2 DEF NextVariant
<1>3. ProcessIs(e, s)
  BY DEF SweepInv
<1>4. PICK y : y = Append(s.results, x)
  OBVIOUS
<1>5. SweepRows(e, y)
  BY <1>2, <1>3, <1>4, OneMoreRow DEF ProcessIs
<1>6. PICK t : t = [s EXCEPT !.results = y]
  OBVIOUS
<1>7. SameSweep(s, t, {"results"}) /\ t.results = y
  <2>1. IsSweep(s)
    BY <1>3 DEF ProcessIs
  <2> QED
    BY <1>6, <2>1, SweepField, Zenon
<1> HIDE DEF s
<1>8. ProcessIs(e, t)
  BY <1>1, <1>3, <1>5, <1>7 DEF ProcessIs, SameSweep, Judging
<1>9. t.pc = "variants"
  BY <1>1, <1>7 DEF SameSweep
<1>10. sweep' = [sweep EXCEPT ![e] = t]
  BY <1>2, <1>4, <1>6 DEF SetSweep
<1> QED
  BY <1>1, <1>8, <1>9, <1>10, EarlyKeeps DEF s

LEMMA VariantsDoneKeeps ==
    ASSUME SweepInv, NEW e \in Sweeps, VariantsDone(e)
    PROVE  SweepInv'
PROOF
<1> DEFINE s == sweep[e]
<1>1. /\ s.pc = "variants" /\ KeepSweepFiles /\ KeepSweepCounts
      /\ \E i \in DOMAIN s.results : s.results[i].ran
      /\ SetSweep(e, [s EXCEPT !.pc = "anchor"])
  BY DEF VariantsDone, AtSweep
<1>2. ProcessIs(e, s)
  BY DEF SweepInv
<1>3. PICK t : t = [s EXCEPT !.pc = "anchor"]
  OBVIOUS
<1>4. SameSweep(s, t, {"pc"}) /\ t.pc = "anchor"
  <2>1. IsSweep(s)
    BY <1>2 DEF ProcessIs
  <2> QED
    BY <1>3, <2>1, SweepField, Zenon
<1>5. sweep' = [sweep EXCEPT ![e] = t]
  BY <1>1, <1>3 DEF SetSweep
<1> HIDE DEF s
<1>6. ProcessIs(e, t)
  BY <1>1, <1>2, <1>4 DEF ProcessIs, SameSweep, Judging, SweepPlaces
<1> QED
  BY <1>1, <1>4, <1>5, <1>6, EarlyKeeps DEF s

LEMMA RunAnchorKeeps ==
    ASSUME SweepInv, NEW e \in Sweeps, RunAnchor(e)
    PROVE  SweepInv'
PROOF
<1> DEFINE s == sweep[e]
<1>1. PICK m \in FinalMetrics[e] : SetSweep(e, WithAnchor(s, m, "final"))
  BY DEF RunAnchor, WithAnchor
<1>2. s.pc = "anchor" /\ KeepSweepFiles /\ KeepSweepCounts
  BY DEF RunAnchor, AtSweep
<1>3. ProcessIs(e, s)
  BY DEF SweepInv
<1>4. PICK t : t = WithAnchor(s, m, "final")
  OBVIOUS
<1> HIDE DEF s
<1>5. SameSweep(s, t, {"anchor", "pc"}) /\ t.anchor = m /\ t.pc = "final"
  BY <1>3, <1>4, AnchorField DEF ProcessIs
<1>6. sweep' = [sweep EXCEPT ![e] = t]
  BY <1>1, <1>4 DEF SetSweep
<1>7. ProcessIs(e, t)
  BY <1>1, <1>2, <1>3, <1>5 DEF ProcessIs, SameSweep, Judging, SweepPlaces
<1> QED
  BY <1>2, <1>5, <1>6, <1>7, EarlyKeeps DEF s


\* g becomes h by taking x at e, a member of the domain D.
IsAt(D, g, h, e, x) == h = [d \in D |-> h[d]] /\ h[e] = x /\ \A d \in D : d # e => h[d] = g[d]

LEMMA PutAt ==
    ASSUME NEW D, NEW g, g = [d \in D |-> g[d]], NEW e \in D, NEW x
    PROVE  IsAt(D, g, [g EXCEPT ![e] = x], e, x) /\ IsAt(D, g, g, e, g[e])
PROOF
<1>1. [g EXCEPT ![e] = x] = [d \in D |-> IF d = e THEN x ELSE g[d]]
  OBVIOUS
<1> DEFINE h == [g EXCEPT ![e] = x]
<1>2. h[e] = x /\ \A d \in D : d # e => h[d] = g[d]
  BY <1>1
<1>3. h = [d \in D |-> h[d]]
  BY <1>1
<1> QED
  BY <1>2, <1>3 DEF IsAt

\* The records in the reports directory are of attempts that were made.
ReportsAre(r) ==
    /\ r = [scoreboard |-> r.scoreboard, audit |-> r.audit, decision |-> r.decision]
    /\ r.scoreboard \in 0..sweepAttempts /\ r.audit \in 0..sweepAttempts /\ r.decision.by \in 0..sweepAttempts

LEMMA ReportsField ==
    ASSUME NEW r, r = [scoreboard |-> r.scoreboard, audit |-> r.audit, decision |-> r.decision], NEW x
    PROVE  /\ [r EXCEPT !.scoreboard = x] = [scoreboard |-> x, audit |-> r.audit, decision |-> r.decision]
           /\ [r EXCEPT !.audit = x] = [scoreboard |-> r.scoreboard, audit |-> x, decision |-> r.decision]
           /\ [r EXCEPT !.decision = x] = [scoreboard |-> r.scoreboard, audit |-> r.audit, decision |-> x]
OBVIOUS

LEMMA ReportsAreSo == SweepInv => ReportsAre(reports)
BY DEF SweepInv, SweepGlobals, ReportsAre

\* A sweep writes its files and goes on.
LEMMA WriteKeeps ==
    ASSUME SweepInv, NEW e \in Sweeps, e \in swept, NEW t, NEW m, NEW u, NEW r,
           IsAt(Sweeps, sweep, sweep', e, t), IsAt(Sweeps, sweepManifest, sweepManifest', e, m), IsAt(Sweeps, sweepSummary, sweepSummary', e, u),
           KeepSweepCounts, crashNotes' \subseteq Sweeps \cup {"others"}, reports' = r, ReportsAre(r),
           ProcessIs(e, t), FilesFollow(e, m, u, t)'
    PROVE  SweepInv'
PROOF
<1>1. /\ SweepGlobals /\ swept' = swept /\ sweepAttempts' = sweepAttempts /\ sweepCrashes' = sweepCrashes
      /\ sweepAttempts \in Nat
  BY SweepNumbers DEF SweepInv, KeepSweepCounts
<1>2. SweepGlobals'
  BY <1>1 DEF SweepGlobals, IsAt, ReportsAre
<1>3. ProcessIs(e, sweep[e])'
  BY <1>1 DEF ProcessIs, IsAt
<1>4. FilesFollow(e, sweepManifest[e], sweepSummary[e], sweep[e])'
  BY DEF IsAt
<1>5. \A d \in Sweeps : d # e => /\ sweep'[d] = sweep[d] /\ sweepManifest'[d] = sweepManifest[d]
                                 /\ sweepSummary'[d] = sweepSummary[d]
  BY DEF IsAt
<1>6. sweepAttempts' >= sweepAttempts
  BY <1>1
<1> QED
  BY <1>1, <1>2, <1>3, <1>4, <1>5, <1>6, SweepStepIs


\* Between the final test and the manifest.
LEMMA FinalStepKeeps ==
    ASSUME SweepInv, NEW e \in Sweeps, sweep[e].pc \in {"final", "audited"} \cup Judging,
           NEW t, sweep' = [sweep EXCEPT ![e] = t], UNCHANGED <<sweepManifest, sweepSummary>>,
           NEW r, reports' = r, ReportsAre(r), r.decision = reports.decision,
           KeepSweepCounts, crashNotes' \subseteq Sweeps \cup {"others"},
           t.pc \in {"audited"} \cup Judging, ProcessIs(e, t),
           SweepConfig[e].located /\ swept = {e} =>
              r.audit = t.number /\ (t.pc \in Judging => r.scoreboard = t.number)
    PROVE  SweepInv'
PROOF
<1>1. e \in swept /\ (SweepConfig[e].located => sweepManifest[e].by = 0)
  BY NotYet, Early
<1>2. t.pc \notin Late /\ t.pc # "idle" /\ t.pc \notin {"summary", "gated summary", "decision"}
  BY Early DEF Late
<1>3. SweepGlobals /\ swept' = swept /\ sweepAttempts' = sweepAttempts
  BY DEF SweepInv, KeepSweepCounts
<1>4. PICK m, u : m = sweepManifest[e] /\ u = sweepSummary[e]
  OBVIOUS
<1>5. /\ IsAt(Sweeps, sweep, sweep', e, t) /\ IsAt(Sweeps, sweepManifest, sweepManifest', e, m)
      /\ IsAt(Sweeps, sweepSummary, sweepSummary', e, u)
  BY <1>3, <1>4, PutAt DEF SweepGlobals
<1>6. FilesFollow(e, m, u, sweep[e])
  BY <1>4 DEF SweepInv
<1>7. FilesFollow(e, m, u, t)'
  <2>1. SweepConfig[e].located /\ swept = {e} => m.by = 0 /\ u.by = 0 /\ ~u.gated /\ reports.decision.by \in {0, m.by}
    BY <1>1, <1>4, <1>6 DEF FilesFollow, SummaryFollows, SharedFollow
  <2>2. SweepConfig[e].located => m.by = 0 /\ u.by = 0 /\ ~u.gated
    BY <1>1, <1>4, <1>6 DEF FilesFollow, SummaryFollows
  <2>3. SweepConfig[e].located => SummaryFollows(m, u, t)
    BY <1>2, <2>2 DEF SummaryFollows
  <2>4. SweepConfig[e].located /\ swept = {e} => SharedFollow(m, u, t)'
    BY <1>2, <1>3, <2>1, <2>2 DEF SharedFollow
  <2> QED
    BY <1>3, <1>6, <2>3, <2>4 DEF FilesFollow, SummaryFollows
<1> QED
  BY <1>1, <1>5, <1>7, WriteKeeps

LEMMA RunFinalKeeps ==
    ASSUME SweepInv, NEW e \in Sweeps, RunFinal(e)
    PROVE  SweepInv'
PROOF
<1> DEFINE s == sweep[e]
           c == SweepConfig[e]
<1>1. s.pc = "final" /\ ProcessIs(e, s)
  BY DEF RunFinal, AtSweep, SweepInv
<1>2. \/ \E x : RaiseSweep(e, x) /\ KeepSweepFiles
      \/ \E m \in FinalMetrics[e] :
           /\ PreflightPasses(SweepReference(c, s.anchor), s.anchor)
           /\ reports' = [reports EXCEPT !.audit = s.number]
           /\ SetSweep(e, WithFinal(s, m, "audited"))
           /\ UNCHANGED <<sweepManifest, sweepSummary, crashNotes>> /\ KeepSweepCounts
  BY DEF RunFinal, WithFinal
<1>3. CASE \E x : RaiseSweep(e, x) /\ KeepSweepFiles
  BY <1>1, <1>3, Early, RaiseSweepKeeps
<1>4. ASSUME NEW m \in FinalMetrics[e], PreflightPasses(SweepReference(c, s.anchor), s.anchor),
             reports' = [reports EXCEPT !.audit = s.number], SetSweep(e, WithFinal(s, m, "audited")),
             UNCHANGED <<sweepManifest, sweepSummary, crashNotes>>, KeepSweepCounts
      PROVE  SweepInv'
  <2>1. PICK t : t = WithFinal(s, m, "audited")
    OBVIOUS
  <2>2. sweep' = [sweep EXCEPT ![e] = t]
    BY <1>4, <2>1 DEF SetSweep
  <2>3. SameSweep(s, t, {"final", "pc"}) /\ t.final = m /\ t.pc = "audited"
    <3> HIDE DEF s
    <3> QED
      BY <1>1, <2>1, FinalField DEF ProcessIs
  <2>4. PICK r : r = [scoreboard |-> reports.scoreboard, audit |-> s.number, decision |-> reports.decision]
    OBVIOUS
  <2>5. reports' = r
    BY <1>4, <2>4, ReportsAreSo, ReportsField DEF ReportsAre
  <2> HIDE DEF s
  <2>6. r.audit = s.number /\ r.scoreboard = reports.scoreboard /\ r.decision = reports.decision
    BY <2>4
  <2>7. ReportsAre(r)
    BY <1>1, <2>4, <2>6, ReportsAreSo DEF ReportsAre, ProcessIs
  <2>8. Comparable(e, s.results, s.anchor, m)
    BY <1>1, <1>4 DEF Comparable, ProcessIs
  <2>9. ProcessIs(e, t)
    BY <1>1, <2>3, <2>8 DEF ProcessIs, SameSweep, SweepPlaces, Judging
  <2>10. t.number = s.number /\ t.pc \notin Judging
    BY <2>3 DEF SameSweep, Judging
  <2>11. crashNotes' \subseteq Sweeps \cup {"others"}
    BY <1>4 DEF SweepInv, SweepGlobals
  <2>12. UNCHANGED <<sweepManifest, sweepSummary>>
    BY <1>4
  <2> QED
    BY <1>1, <1>4, <2>2, <2>3, <2>5, <2>6, <2>7, <2>9, <2>10, <2>11, <2>12, FinalStepKeeps DEF s
<1> QED
  BY <1>2, <1>3, <1>4

LEMMA JudgeAuditKeeps ==
    ASSUME SweepInv, NEW e \in Sweeps, JudgeAudit(e)
    PROVE  SweepInv'
PROOF
<1> DEFINE s == sweep[e]
           chosen == SweepDecision(SweepConfig[e], SweepReference(SweepConfig[e], s.anchor), s.final)
<1>1. s.pc = "audited" /\ ProcessIs(e, s)
  BY DEF JudgeAudit, AtSweep, SweepInv
<1>2. \/ \E x : RaiseSweep(e, x) /\ KeepSweepFiles
      \/ /\ reports' = [reports EXCEPT !.scoreboard = s.number]
         /\ SetSweep(e, WithDecision(s, chosen, "read notes"))
         /\ UNCHANGED <<sweepManifest, sweepSummary, crashNotes>> /\ KeepSweepCounts
  BY DEF JudgeAudit, WithDecision
<1>3. CASE \E x : RaiseSweep(e, x) /\ KeepSweepFiles
  BY <1>1, <1>3, Early, RaiseSweepKeeps
<1>4. CASE /\ reports' = [reports EXCEPT !.scoreboard = s.number]
           /\ SetSweep(e, WithDecision(s, chosen, "read notes"))
           /\ UNCHANGED <<sweepManifest, sweepSummary, crashNotes>> /\ KeepSweepCounts
  <2>0. PICK x : x = chosen
    OBVIOUS
  <2>p. PICK p : p = "read notes"
    OBVIOUS
  <2>1. PICK t : t = WithDecision(s, x, p)
    OBVIOUS
  <2>2. sweep' = [sweep EXCEPT ![e] = t]
    BY <1>4, <2>0, <2>p, <2>1 DEF SetSweep
  <2>3. x = SweepDecision(SweepConfig[e], SweepReference(SweepConfig[e], s.anchor), s.final) /\ x \in Decisions
    BY <2>0 DEF SweepDecision, Decisions
  <2>4. PICK r : r = [scoreboard |-> s.number, audit |-> reports.audit, decision |-> reports.decision]
    OBVIOUS
  <2>5. reports' = r
    BY <1>4, <2>4, ReportsAreSo, ReportsField DEF ReportsAre
  <2>6. reports.audit = s.number \/ ~(SweepConfig[e].located /\ swept = {e})
    BY <1>1 DEF SweepInv, FilesFollow, SharedFollow
  <2> HIDE DEF s, chosen
  <2>7. SameSweep(s, t, {"decision", "pc"}) /\ t.decision = x /\ t.pc = p
    <3>1. IsSweep(s)
      BY <1>1 DEF ProcessIs
    <3> QED
      BY <2>1, <3>1, DecisionField
  <2>8. r.audit = reports.audit /\ r.scoreboard = s.number /\ r.decision = reports.decision
    BY <2>4
  <2>9. ReportsAre(r)
    BY <1>1, <2>4, <2>8, ReportsAreSo DEF ReportsAre, ProcessIs
  <2>10. ProcessIs(e, t)
    BY <1>1, <2>3, <2>p, <2>7 DEF ProcessIs, SameSweep, SweepPlaces, Judging
  <2>11. t.number = s.number /\ t.pc \in Judging
    BY <2>p, <2>7 DEF SameSweep, Judging
  <2>12. crashNotes' \subseteq Sweeps \cup {"others"}
    BY <1>4 DEF SweepInv, SweepGlobals
  <2>13. UNCHANGED <<sweepManifest, sweepSummary>> /\ KeepSweepCounts
    BY <1>4
  <2>14. s.pc \in {"final", "audited"} \cup Judging
    BY <1>1
  <2> QED
    BY <2>2, <2>5, <2>6, <2>8, <2>9, <2>10, <2>11, <2>12, <2>13, <2>14, FinalStepKeeps DEF s
<1> QED
  BY <1>2, <1>3, <1>4

\* The crash notes are another's matter: the reports stay.
LEMMA NotesKeep ==
    ASSUME SweepInv, NEW e \in Sweeps, ReadCrashNotes(e) \/ WriteCrashNotes(e)
    PROVE  SweepInv'
PROOF
<1> DEFINE s == sweep[e]
<1>1. ProcessIs(e, s)
  BY DEF SweepInv
<1>2. crashNotes \subseteq Sweeps \cup {"others"}
  BY DEF SweepInv, SweepGlobals
<1>3. \E x, p : /\ SetSweep(e, WithNotes(s, x, p)) /\ x \subseteq Sweeps \cup {"others"}
                /\ s.pc \in Judging /\ p \in Judging /\ crashNotes' \subseteq Sweeps \cup {"others"}
  <2>1. CASE ReadCrashNotes(e)
    <3>1. /\ SetSweep(e, WithNotes(s, crashNotes \ Sweeps, "write notes")) /\ s.pc = "read notes"
          /\ crashNotes' = crashNotes
      BY <2>1 DEF ReadCrashNotes, AtSweep, WithNotes, KeepSweepFiles
    <3> HIDE DEF s
    <3>2. "read notes" \in Judging /\ "write notes" \in Judging
      BY DEF Judging
    <3> QED
      BY <1>2, <3>1, <3>2
  <2>2. CASE WriteCrashNotes(e)
    <3>1. /\ SetSweep(e, WithNotes(s, {}, "manifest")) /\ s.pc = "write notes"
          /\ crashNotes' = s.notes \cup {e}
      BY <2>2 DEF WriteCrashNotes, AtSweep, WithNotes
    <3> HIDE DEF s
    <3>2. "manifest" \in Judging /\ "write notes" \in Judging
      BY DEF Judging
    <3>3. s.notes \cup {e} \subseteq Sweeps \cup {"others"}
      BY <1>1 DEF ProcessIs
    <3>4. crashNotes' \subseteq Sweeps \cup {"others"} /\ {} \subseteq Sweeps \cup {"others"}
      BY <3>1, <3>3
    <3>5. SetSweep(e, WithNotes(s, {}, "manifest")) /\ s.pc \in Judging /\ "manifest" \in Judging
      BY <3>1, <3>2
    <3>6. PICK x, p : x = {} /\ p = "manifest"
      OBVIOUS
    <3>7. SetSweep(e, WithNotes(s, x, p)) /\ p \in Judging /\ x \subseteq Sweeps \cup {"others"}
      BY <3>5, <3>6
    <3> QED
      BY <3>4, <3>5, <3>7
  <2> QED
    BY <2>1, <2>2
<1>4. PICK x, p : /\ SetSweep(e, WithNotes(s, x, p)) /\ x \subseteq Sweeps \cup {"others"}
                  /\ s.pc \in Judging /\ p \in Judging /\ crashNotes' \subseteq Sweeps \cup {"others"}
  BY <1>3
<1>5. UNCHANGED <<sweepManifest, sweepSummary, reports>> /\ KeepSweepCounts
  BY DEF ReadCrashNotes, WriteCrashNotes, KeepSweepFiles
<1>6. PICK t : t = WithNotes(s, x, p)
  OBVIOUS
<1>7. sweep' = [sweep EXCEPT ![e] = t]
  BY <1>4, <1>6 DEF SetSweep
<1>8. FilesFollow(e, sweepManifest[e], sweepSummary[e], s)
  BY DEF SweepInv
<1> HIDE DEF s
<1>9. SameSweep(s, t, {"notes", "pc"}) /\ t.notes = x /\ t.pc = p
  BY <1>1, <1>6, NotesField DEF ProcessIs
<1>10. ProcessIs(e, t)
  BY <1>1, <1>4, <1>9 DEF ProcessIs, SameSweep, SweepPlaces, Judging
<1>11. SweepConfig[e].located /\ swept = {e} => reports.audit = t.number /\ reports.scoreboard = t.number
  BY <1>4, <1>8, <1>9 DEF FilesFollow, SharedFollow, SameSweep
<1>12. PICK r : r = reports
  OBVIOUS
<1>13. ReportsAre(r) /\ reports' = r /\ r.decision = reports.decision
  BY <1>5, <1>12, ReportsAreSo
<1> QED
  BY <1>4, <1>5, <1>7, <1>9, <1>10, <1>11, <1>12, <1>13, FinalStepKeeps DEF s


\* The manifest is written from the record of its attempt.
LEMMA WriteManifestKeeps ==
    ASSUME SweepInv, NEW e \in Sweeps, WriteSweepManifest(e)
    PROVE  SweepInv'
PROOF
<1> DEFINE s == sweep[e]
<1>1. s.pc = "manifest" /\ ProcessIs(e, s) /\ FilesFollow(e, sweepManifest[e], sweepSummary[e], s) /\ SweepGlobals
  BY DEF WriteSweepManifest, AtSweep, SweepInv
<1>2. s.pc \in Judging /\ s.pc # "idle"
  BY <1>1 DEF Judging
<1>3. e \in swept /\ (SweepConfig[e].located => sweepManifest[e].by = 0) /\ s.number # 0
  BY <1>1, <1>2, NotYet, Early DEF ProcessIs
<1>4. PICK m, u, t : /\ m = [by |-> s.number, decision |-> s.decision, evidence |-> SweepEvidence(e)]
                     /\ u = sweepSummary[e] /\ t = [s EXCEPT !.pc = "decision"]
  OBVIOUS
<1>5. sweep' = [sweep EXCEPT ![e] = t] /\ sweepManifest' = [sweepManifest EXCEPT ![e] = m] /\ sweepSummary' = sweepSummary
  BY <1>4 DEF WriteSweepManifest, SetSweep
<1>6. reports' = reports /\ crashNotes' = crashNotes /\ KeepSweepCounts
  BY DEF WriteSweepManifest
<1>7. /\ IsAt(Sweeps, sweep, sweep', e, t) /\ IsAt(Sweeps, sweepManifest, sweepManifest', e, m)
      /\ IsAt(Sweeps, sweepSummary, sweepSummary', e, u)
  BY <1>1, <1>4, <1>5, PutAt DEF SweepGlobals
<1>8. PICK v : v = SweepEvidence(e)
  OBVIOUS
<1>9. v.results = s.results /\ v.anchor = s.anchor /\ v.final = s.final /\ v.backend = s.backend
  BY <1>8 DEF SweepEvidence
<1>10. m = [by |-> s.number, decision |-> s.decision, evidence |-> v]
  BY <1>4, <1>8
<1>11. u = sweepSummary[e] /\ t = [s EXCEPT !.pc = "decision"]
  BY <1>4
<1> HIDE DEF s
<1>12. m.by = s.number /\ m.decision = s.decision /\ m.evidence = v
  BY <1>10
<1>13. SameSweep(s, t, {"pc"}) /\ t.pc = "decision"
  <2>1. IsSweep(s)
    BY <1>1 DEF ProcessIs
  <2> QED
    BY <1>11, <2>1, SweepField
<1>14. t.pc \notin Judging /\ t.pc \in Late /\ t.pc \notin {"audited", "anchor", "final"} /\ t.pc \in SweepPlaces
       /\ t.pc # "idle"
  BY <1>13 DEF Judging, Late, SweepPlaces
<1>15. ProcessIs(e, t)
  BY <1>1, <1>2, <1>13, <1>14 DEF ProcessIs, SameSweep
<1>16. m.decision = "promoted" => GroundedBy(e, m.evidence)
  <2> SUFFICES ASSUME m.decision = "promoted" PROVE GroundedBy(e, v)
    BY <1>12
  <2>1. Comparable(e, v.results, v.anchor, v.final) /\ (v.backend = "mock" => ~SweepConfig[e].locked)
    BY <1>1, <1>2, <1>9 DEF ProcessIs
  <2>2. SweepDecision(SweepConfig[e], SweepReference(SweepConfig[e], v.anchor), v.final) = "promoted"
    BY <1>1, <1>2, <1>9, <1>12 DEF ProcessIs
  <2> QED
    BY <2>1, <2>2, PromotionsAreGrounded
<1>17. u.decision \in Decisions /\ m.by \in 0..sweepAttempts
  BY <1>1, <1>11, <1>12 DEF FilesFollow, ProcessIs
<1>18. SweepConfig[e].located => SummaryFollows(m, u, t)
  <2>1. SweepConfig[e].located => u.by = 0 /\ ~u.gated
    BY <1>1, <1>3, <1>11 DEF FilesFollow, SummaryFollows
  <2>2. t.number = s.number /\ t.decision = s.decision
    BY <1>13 DEF SameSweep
  <2> QED
    BY <1>3, <1>12, <1>14, <2>1, <2>2 DEF SummaryFollows
<1>19. SweepConfig[e].located /\ swept = {e} => SharedFollow(m, u, t)
  <2>1. SweepConfig[e].located => u.by = 0 /\ ~u.gated
    BY <1>1, <1>3, <1>11 DEF FilesFollow, SummaryFollows
  <2>2. SweepConfig[e].located /\ swept = {e} => /\ reports.audit = s.number /\ reports.scoreboard = s.number
                                                 /\ reports.decision.by = 0
    BY <1>1, <1>2, <1>3 DEF FilesFollow, SharedFollow
  <2> QED
    BY <1>12, <1>13, <1>14, <2>1, <2>2 DEF SharedFollow
<1>20. FilesFollow(e, m, u, t)'
  <2>1. swept' = swept /\ sweepAttempts' = sweepAttempts
    BY <1>6 DEF KeepSweepCounts
  <2>2. SweepConfig[e].located /\ swept = {e} => SharedFollow(m, u, t)'
    BY <1>6, <1>19 DEF SharedFollow
  <2> QED
    BY <1>16, <1>17, <1>18, <2>1, <2>2 DEF FilesFollow, SummaryFollows
<1>21. PICK r : r = reports
  OBVIOUS
<1>22. ReportsAre(r) /\ reports' = r
  BY <1>6, <1>21, ReportsAreSo
<1>23. crashNotes' \subseteq Sweeps \cup {"others"}
  BY <1>1, <1>6 DEF SweepGlobals
<1> QED
  BY <1>3, <1>6, <1>7, <1>15, <1>20, <1>22, <1>23, WriteKeeps

LEMMA WriteDecisionKeeps ==
    ASSUME SweepInv, NEW e \in Sweeps, NEW gated \in BOOLEAN, WriteSweepDecision(e, gated)
    PROVE  SweepInv'
PROOF
<1> DEFINE s == sweep[e]
<1>1. ProcessIs(e, s) /\ FilesFollow(e, sweepManifest[e], sweepSummary[e], s) /\ SweepGlobals
  BY DEF SweepInv
<1>2. PICK p, q : /\ p = IF gated THEN "gated summary" ELSE "summary"
                  /\ q = IF gated THEN "gated decision" ELSE "decision"
  OBVIOUS
<1>3. p \in Late /\ q \in Late /\ p \notin Judging /\ q \notin Judging /\ p # "idle" /\ q # "idle" /\ q # p
      /\ p \notin {"audited", "anchor", "final", "decision"} /\ p \in SweepPlaces
      /\ (p = "gated summary" <=> gated) /\ (p = "summary" <=> ~gated) /\ (q = "decision" <=> ~gated)
  BY <1>2 DEF Late, Judging, SweepPlaces
<1>4. s.pc = q
  BY <1>2 DEF WriteSweepDecision, AtSweep
<1>5. e \in swept /\ s.number # 0
  BY <1>1, <1>3, <1>4 DEF ProcessIs
<1>6. PICK m, u, t, w : /\ m = sweepManifest[e] /\ u = sweepSummary[e] /\ t = [s EXCEPT !.pc = p]
                        /\ w = OfAttempt(e, gated)
  OBVIOUS
<1>7. sweep' = [sweep EXCEPT ![e] = t] /\ sweepManifest' = sweepManifest /\ sweepSummary' = sweepSummary
      /\ crashNotes' = crashNotes /\ KeepSweepCounts
  BY <1>2, <1>6 DEF WriteSweepDecision, SetSweep
<1>8. PICK r : r = [scoreboard |-> reports.scoreboard, audit |-> reports.audit, decision |-> w]
  OBVIOUS
<1>9. reports' = r
  BY <1>6, <1>8, ReportsAreSo, ReportsField DEF WriteSweepDecision, ReportsAre
<1>10. /\ IsAt(Sweeps, sweep, sweep', e, t) /\ IsAt(Sweeps, sweepManifest, sweepManifest', e, m)
       /\ IsAt(Sweeps, sweepSummary, sweepSummary', e, u)
  BY <1>1, <1>6, <1>7, PutAt DEF SweepGlobals
<1>11. w.by = s.number /\ w.gated = gated
  BY <1>6 DEF OfAttempt
<1>12. t = [s EXCEPT !.pc = p] /\ m = sweepManifest[e] /\ u = sweepSummary[e]
  BY <1>6
<1> HIDE DEF s
<1>13. SameSweep(s, t, {"pc"}) /\ t.pc = p
  <2>1. IsSweep(s)
    BY <1>1 DEF ProcessIs
  <2> QED
    BY <1>12, <2>1, SweepField
<1>14. ProcessIs(e, t)
  BY <1>1, <1>3, <1>4, <1>13 DEF ProcessIs, SameSweep
<1>15. r.scoreboard = reports.scoreboard /\ r.audit = reports.audit /\ r.decision = w
  BY <1>8
<1>16. ReportsAre(r)
  BY <1>1, <1>8, <1>11, <1>15, ReportsAreSo DEF ReportsAre, ProcessIs
<1>17. t.number = s.number /\ t.decision = s.decision
  BY <1>13 DEF SameSweep
<1>18. SweepConfig[e].located => SummaryFollows(m, u, t) /\ m.by = s.number
  BY <1>1, <1>3, <1>4, <1>12, <1>13, <1>17 DEF FilesFollow, SummaryFollows
<1>19. SweepConfig[e].located /\ swept = {e} => SharedFollow(m, u, t)'
  <2> SUFFICES ASSUME SweepConfig[e].located, swept = {e} PROVE SharedFollow(m, u, t)'
    OBVIOUS
  <2>1. SharedFollow(m, u, s) /\ m.by = s.number /\ m.by # 0
    BY <1>1, <1>5, <1>12, <1>18 DEF FilesFollow
  <2>2. reports'.audit = m.by /\ reports'.scoreboard = m.by /\ reports'.decision.by = m.by
    BY <1>9, <1>11, <1>15, <2>1 DEF SharedFollow
  <2>3. u.gated => reports'.decision.gated
    <3>1. CASE gated
      BY <1>9, <1>11, <1>15, <3>1
    <3>2. CASE ~gated
      <4>1. u.by = 0 /\ ~u.gated
        BY <1>1, <1>3, <1>4, <1>12, <3>2 DEF FilesFollow, SummaryFollows
      <4> QED
        BY <4>1
    <3> QED
      BY <3>1, <3>2
  <2>4. t.pc = "gated summary" => reports'.decision.gated
    BY <1>3, <1>9, <1>11, <1>13, <1>15
  <2>5. t.pc \notin {"audited"} \cup Judging
    BY <1>3, <1>13
  <2> QED
    BY <2>1, <2>2, <2>3, <2>4, <2>5 DEF SharedFollow
<1>20. FilesFollow(e, m, u, t)'
  <2>1. swept' = swept /\ sweepAttempts' = sweepAttempts
    BY <1>7 DEF KeepSweepCounts
  <2> QED
    BY <1>1, <1>12, <1>18, <1>19, <2>1 DEF FilesFollow, SummaryFollows
<1>21. crashNotes' \subseteq Sweeps \cup {"others"}
  BY <1>1, <1>7 DEF SweepGlobals
<1> QED
  BY <1>5, <1>7, <1>9, <1>10, <1>14, <1>16, <1>20, <1>21, WriteKeeps


LEMMA WriteSummaryKeeps ==
    ASSUME SweepInv, NEW e \in Sweeps, NEW gated \in BOOLEAN, WriteSweepSummary(e, gated)
    PROVE  SweepInv'
PROOF
<1> DEFINE s == sweep[e]
<1>1. ProcessIs(e, s) /\ FilesFollow(e, sweepManifest[e], sweepSummary[e], s) /\ SweepGlobals
  BY DEF SweepInv
<1>2. PICK p, q : /\ p = IF gated THEN "idle" ELSE "gated decision"
                  /\ q = IF gated THEN "gated summary" ELSE "summary"
  OBVIOUS
<1>3. /\ q \in Late /\ p \notin Judging /\ q \notin Judging /\ q # "idle"
      /\ p \in Late \cup {"idle"} /\ p \in SweepPlaces
      /\ p \notin {"audited", "anchor", "final", "decision", "summary", "gated summary"}
      /\ (p \in Late <=> ~gated) /\ (p = "idle" <=> gated) /\ q # "decision"
      /\ (q = "gated summary" <=> gated) /\ (q = "summary" <=> ~gated)
  BY <1>2 DEF Late, Judging, SweepPlaces
<1>4. s.pc = q
  BY <1>2 DEF WriteSweepSummary, AtSweep
<1>5. e \in swept /\ s.number # 0
  BY <1>1, <1>3, <1>4 DEF ProcessIs
<1>6. PICK m, u, t : /\ m = sweepManifest[e] /\ u = OfAttempt(e, gated)
                     /\ t = IF gated THEN IdleSweep ELSE [s EXCEPT !.pc = "gated decision"]
  OBVIOUS
<1>7. sweep' = [sweep EXCEPT ![e] = t] /\ sweepManifest' = sweepManifest /\ sweepSummary' = [sweepSummary EXCEPT ![e] = u]
      /\ crashNotes' = crashNotes /\ reports' = reports /\ KeepSweepCounts
  BY <1>6 DEF WriteSweepSummary, SetSweep
<1>8. /\ IsAt(Sweeps, sweep, sweep', e, t) /\ IsAt(Sweeps, sweepManifest, sweepManifest', e, m)
      /\ IsAt(Sweeps, sweepSummary, sweepSummary', e, u)
  BY <1>1, <1>6, <1>7, PutAt DEF SweepGlobals
<1>9. u.by = s.number /\ u.decision = s.decision /\ u.gated = gated
  BY <1>6 DEF OfAttempt
<1>10. (gated => t = IdleSweep) /\ (~gated => t = [s EXCEPT !.pc = p]) /\ m = sweepManifest[e]
  BY <1>2, <1>6
<1> HIDE DEF s
<1>11. t.pc = p /\ ProcessIs(e, t) /\ (~gated => t.number = s.number /\ t.decision = s.decision)
  <2>1. CASE gated
    <3>1. t = IdleSweep /\ p = "idle"
      BY <1>3, <1>10, <2>1
    <3>2. MaxAttempts \in Nat /\ sweepAttempts \in Nat
      BY <1>1, SweepNumbers
    <3>3. "idle" \notin {"audited"} \cup Judging /\ "idle" \in SweepPlaces
      BY <1>3, <3>1
    <3> QED
      BY <2>1, <3>1, <3>2, <3>3, IdleSweepIs, NoRows DEF ProcessIs, Decisions
  <2>2. CASE ~gated
    <3>1. IsSweep(s)
      BY <1>1 DEF ProcessIs
    <3>0. t = [s EXCEPT !.pc = p]
      BY <1>10, <2>2
    <3>2. SameSweep(s, t, {"pc"}) /\ t.pc = p
      BY <3>0, <3>1, SweepField
    <3>3. ProcessIs(e, t)
      BY <1>1, <1>3, <1>4, <3>2 DEF ProcessIs, SameSweep
    <3> QED
      BY <3>2, <3>3 DEF SameSweep
  <2> QED
    BY <2>1, <2>2
<1>12. SweepConfig[e].located => SummaryFollows(m, u, t)
  <2>1. SweepConfig[e].located => SummaryFollows(m, sweepSummary[e], s)
    BY <1>1, <1>10 DEF FilesFollow
  <2>2. SweepConfig[e].located => m.by = s.number /\ m.decision = s.decision
    BY <1>3, <1>4, <2>1 DEF SummaryFollows
  <2> QED
    BY <1>3, <1>5, <1>9, <1>11, <2>2 DEF SummaryFollows
<1>13. SweepConfig[e].located /\ swept = {e} => SharedFollow(m, u, t)
  <2> SUFFICES ASSUME SweepConfig[e].located, swept = {e} PROVE SharedFollow(m, u, t)
    OBVIOUS
  <2>1. SharedFollow(m, sweepSummary[e], s)
    BY <1>1, <1>10 DEF FilesFollow
  <2>2. reports.decision.by # 0
    BY <1>3, <1>4, <2>1 DEF SharedFollow
  <2>3. u.gated => reports.decision.gated
    BY <1>3, <1>4, <1>9, <2>1 DEF SharedFollow
  <2>4. t.pc \notin {"audited", "summary", "gated summary"} \cup Judging
    BY <1>3, <1>11
  <2> QED
    BY <2>1, <2>2, <2>3, <2>4 DEF SharedFollow
<1>14. FilesFollow(e, m, u, t)'
  <2>1. swept' = swept /\ sweepAttempts' = sweepAttempts
    BY <1>7 DEF KeepSweepCounts
  <2>2. SweepConfig[e].located /\ swept = {e} => SharedFollow(m, u, t)'
    BY <1>7, <1>13 DEF SharedFollow
  <2>3. u.decision \in Decisions
    BY <1>1, <1>9 DEF ProcessIs
  <2> QED
    BY <1>1, <1>10, <1>12, <2>1, <2>2, <2>3 DEF FilesFollow, SummaryFollows
<1>15. PICK r : r = reports
  OBVIOUS
<1>16. ReportsAre(r) /\ reports' = r
  BY <1>7, <1>15, ReportsAreSo
<1>17. crashNotes' \subseteq Sweeps \cup {"others"}
  BY <1>1, <1>7 DEF SweepGlobals
<1> QED
  BY <1>5, <1>7, <1>8, <1>11, <1>14, <1>16, <1>17, WriteKeeps

LEMMA SweepNextHolds == SweepInv /\ [SweepNext]_sweepVars => SweepInv'
PROOF
<1> SUFFICES ASSUME SweepInv, [SweepNext]_sweepVars PROVE SweepInv'
  OBVIOUS
<1>1. ASSUME UNCHANGED sweepVars
      PROVE  SweepInv'
  <2>1. UNCHANGED <<sweep, sweepManifest, sweepSummary, reports, crashNotes, swept, sweepAttempts, sweepCrashes>>
    BY <1>1 DEF sweepVars
  <2>2. SweepGlobals'
    BY <2>1 DEF SweepInv, SweepGlobals
  <2>3. ASSUME NEW d \in Sweeps
        PROVE  ProcessIs(d, sweep[d])' /\ FilesFollow(d, sweepManifest[d], sweepSummary[d], sweep[d])'
    <3>1. ProcessIs(d, sweep[d]) /\ FilesFollow(d, sweepManifest[d], sweepSummary[d], sweep[d])
      BY DEF SweepInv
    <3>2. ProcessIs(d, sweep[d])'
      BY <2>1, <3>1 DEF ProcessIs
    <3>3. FilesFollow(d, sweepManifest[d], sweepSummary[d], sweep[d])'
      BY <2>1, <3>1 DEF FilesFollow, SummaryFollows, SharedFollow
    <3> QED
      BY <3>2, <3>3
  <2> QED
    BY <2>2, <2>3 DEF SweepInv
<1>2. ASSUME OthersNote
      PROVE  SweepInv'
  <2>1. UNCHANGED <<sweep, sweepManifest, sweepSummary, reports, swept, sweepAttempts, sweepCrashes>>
    BY <1>2 DEF OthersNote, KeepSweepCounts
  <2>2. SweepGlobals'
    BY <1>2, <2>1 DEF OthersNote, SweepInv, SweepGlobals
  <2>3. ASSUME NEW d \in Sweeps
        PROVE  ProcessIs(d, sweep[d])' /\ FilesFollow(d, sweepManifest[d], sweepSummary[d], sweep[d])'
    <3>1. ProcessIs(d, sweep[d]) /\ FilesFollow(d, sweepManifest[d], sweepSummary[d], sweep[d])
      BY DEF SweepInv
    <3>2. ProcessIs(d, sweep[d])'
      BY <2>1, <3>1 DEF ProcessIs
    <3>3. FilesFollow(d, sweepManifest[d], sweepSummary[d], sweep[d])'
      BY <2>1, <3>1 DEF FilesFollow, SummaryFollows, SharedFollow
    <3> QED
      BY <3>2, <3>3
  <2> QED
    BY <2>2, <2>3 DEF SweepInv
<1>3. ASSUME NEW e \in Sweeps,
             \/ ResumeSweep(e) \/ StartSweep(e) \/ NextVariant(e) \/ SweepFails(e) \/ NothingExecutable(e)
             \/ VariantsDone(e) \/ RunAnchor(e) \/ RunFinal(e) \/ JudgeAudit(e)
             \/ ReadCrashNotes(e) \/ WriteCrashNotes(e) \/ WriteSweepManifest(e) \/ SweepDies(e)
             \/ \E gated \in BOOLEAN : WriteSweepDecision(e, gated) \/ WriteSweepSummary(e, gated)
      PROVE  SweepInv'
  <2>1. CASE ResumeSweep(e)
    BY <1>1, <2>1 DEF ResumeSweep
  <2>2. CASE StartSweep(e)
    BY <2>2, StartSweepKeeps
  <2>3. CASE NextVariant(e)
    BY <2>3, NextVariantKeeps
  <2>4. CASE SweepFails(e) \/ NothingExecutable(e)
    BY <2>4, SweepFailsKeeps
  <2>5. CASE VariantsDone(e)
    BY <2>5, VariantsDoneKeeps
  <2>6. CASE RunAnchor(e)
    BY <2>6, RunAnchorKeeps
  <2>7. CASE RunFinal(e)
    BY <2>7, RunFinalKeeps
  <2>8. CASE JudgeAudit(e)
    BY <2>8, JudgeAuditKeeps
  <2>9. CASE ReadCrashNotes(e) \/ WriteCrashNotes(e)
    BY <2>9, NotesKeep
  <2>10. CASE WriteSweepManifest(e)
    BY <2>10, WriteManifestKeeps
  <2>11. CASE SweepDies(e)
    BY <2>11, SweepDiesKeeps
  <2>12. CASE \E gated \in BOOLEAN : WriteSweepDecision(e, gated) \/ WriteSweepSummary(e, gated)
    BY <2>12, WriteDecisionKeeps, WriteSummaryKeeps
  <2> QED
    BY <1>3, <2>1, <2>2, <2>3, <2>4, <2>5, <2>6, <2>7, <2>8, <2>9, <2>10, <2>11, <2>12
<1> QED
  BY <1>1, <1>2, <1>3 DEF SweepNext

(* The files of a sweep the recovery can find tell of one attempt, however *)
(* often its process dies and begins again; and whoever reruns a sweep, a  *)
(* promotion in its manifest rests on the best variant of the locked       *)
(* bucket, on an anchor scored like the reference and on a gain over it    *)
(* (kernel_prompt_decode_sweep).                                           *)
THEOREM SweepsHold == SweepSpec => []SweepHolds
PROOF
<1>1. SweepInv => SweepHolds
  <2> SUFFICES ASSUME SweepInv, NEW d \in Sweeps, sweepManifest[d].by # 0
               PROVE  /\ sweepManifest[d].decision = "promoted" => PromotionIsGrounded(d)
                      /\ SweepConfig[d].located =>
                           /\ sweepSummary[d].by \in {0, sweepManifest[d].by}
                           /\ sweepSummary[d].by # 0 => sweepSummary[d].decision = sweepManifest[d].decision
                           /\ swept = {d} =>
                                /\ reports.audit = sweepManifest[d].by /\ reports.scoreboard = sweepManifest[d].by
                                /\ reports.decision.by \in {0, sweepManifest[d].by}
                                /\ sweepSummary[d].by # 0 => reports.decision.by # 0
                                /\ sweepSummary[d].gated => reports.decision.gated
    BY DEF SweepHolds
  <2>1. FilesFollow(d, sweepManifest[d], sweepSummary[d], sweep[d])
    BY DEF SweepInv
  <2>2. sweepManifest[d].decision = "promoted" => PromotionIsGrounded(d)
    <3>1. sweepManifest[d].decision = "promoted" => GroundedBy(d, sweepManifest[d].evidence)
      BY <2>1 DEF FilesFollow
    <3>2. GroundedBy(d, sweepManifest[d].evidence) => PromotionIsGrounded(d)
      BY Zenon DEF GroundedBy, PromotionIsGrounded
    <3> QED
      BY <3>1, <3>2
  <2> QED
    BY <2>1, <2>2 DEF FilesFollow, SummaryFollows, SharedFollow
<1> QED
  BY <1>1, SweepInitHolds, SweepNextHolds, PTL DEF SweepSpec

LEMMA SweepTypeCorrect == SweepSpec => []SweepTypeOK
PROOF
<1>1. SweepInv => SweepTypeOK
  BY DEF SweepInv, SweepGlobals, ProcessIs, FilesFollow, SweepTypeOK
<1> QED
  BY <1>1, SweepInitHolds, SweepNextHolds, PTL DEF SweepSpec

----------------------------------------------------------------------------
(* The stage runs: what stands beside a completed manifest. *)

\* Among the positions chosen of a sequence there is a k-th one.
LEMMA NthOf ==
    ASSUME NEW n \in Nat, NEW kept \in SUBSET (1..n), NEW k \in 1..Cardinality(kept)
    PROVE  \E i \in kept : Cardinality({j \in kept : j <= i}) = k
PROOF
<1> DEFINE Upto(i) == {j \in kept : j <= i}
           T == {i \in Nat : Cardinality(Upto(i)) >= k}
<1>1. IsFiniteSet(kept) /\ Cardinality(kept) \in Nat /\ k \in Nat /\ k >= 1 /\ k <= Cardinality(kept)
  <2>1. IsFiniteSet(1..n)
    BY FS_Interval
  <2>2. IsFiniteSet(kept)
    BY <2>1, FS_Subset
  <2> QED
    BY <2>2, FS_CardinalityType
<1>2. \A i \in Nat : IsFiniteSet(Upto(i)) /\ Cardinality(Upto(i)) \in Nat
  <2> SUFFICES ASSUME NEW i \in Nat PROVE IsFiniteSet(Upto(i)) /\ Cardinality(Upto(i)) \in Nat
    OBVIOUS
  <2>1. Upto(i) \in SUBSET kept
    OBVIOUS
  <2>2. IsFiniteSet(Upto(i))
    BY <1>1, <2>1, FS_Subset
  <2> QED
    BY <2>2, FS_CardinalityType
<1>0. \A j \in kept : j \in Nat /\ 1 <= j /\ j <= n
  OBVIOUS
<1>3. Upto(n) = kept
  BY <1>0
<1>4. n \in T
  BY <1>1, <1>3
<1>5. PICK i \in T : \A y \in T : i <= y
  <2>1. T \in SUBSET Nat /\ T # {}
    BY <1>4
  <2> HIDE DEF T
  <2> QED
    BY <2>1, LeastOf
<1>6. i # 0
  <2> SUFFICES ASSUME i = 0 PROVE FALSE
    OBVIOUS
  <2>1. Upto(0) = {}
    <3>1. \A j \in kept : ~(j <= 0)
      BY <1>0
    <3> QED
      BY <3>1
  <2>2. Cardinality(Upto(0)) = 0
    BY <2>1, FS_EmptySet
  <2>3. Cardinality(Upto(i)) >= k
    BY <1>5
  <2> QED
    BY <1>1, <2>2, <2>3
<1>7. i \in Nat /\ i - 1 \in Nat /\ i - 1 \notin T
  <2>1. i \in Nat /\ i - 1 \in Nat
    BY <1>5, <1>6
  <2>2. ~(i <= i - 1)
    BY <2>1
  <2> HIDE DEF T
  <2> QED
    BY <1>5, <2>1, <2>2
<1>8. Cardinality(Upto(i - 1)) < k /\ Cardinality(Upto(i)) >= k /\ Cardinality(Upto(i - 1)) \in Nat /\ Cardinality(Upto(i)) \in Nat
  <2>1. ~(Cardinality(Upto(i - 1)) >= k) /\ Cardinality(Upto(i)) >= k
    BY <1>5, <1>7
  <2>2. Cardinality(Upto(i - 1)) \in Nat /\ Cardinality(Upto(i)) \in Nat
    BY <1>2, <1>7
  <2> HIDE DEF Upto
  <2> QED
    BY <1>1, <2>1, <2>2
<1>9. i \in kept
  <2> SUFFICES ASSUME i \notin kept PROVE FALSE
    OBVIOUS
  <2>1. Upto(i) = Upto(i - 1)
    <3>1. \A j \in kept : j <= i <=> j <= i - 1
      BY <1>0, <1>7
    <3> QED
      BY <3>1
  <2> HIDE DEF Upto
  <2> QED
    BY <1>1, <1>8, <2>1
<1>10. Upto(i) = Upto(i - 1) \cup {i}
  <2>1. \A j \in kept : j <= i <=> (j <= i - 1 \/ j = i)
    BY <1>0, <1>7
  <2> QED
    BY <1>9, <2>1
<1>11. Cardinality(Upto(i)) <= Cardinality(Upto(i - 1)) + 1
  <2>1. IsFiniteSet(Upto(i - 1))
    BY <1>2, <1>7
  <2> HIDE DEF Upto
  <2> QED
    BY <1>8, <1>10, <2>1, FS_AddElement
<1>12. Cardinality(Upto(i)) = k
  <2> HIDE DEF Upto
  <2> QED
    BY <1>1, <1>8, <1>11
<1> QED
  BY <1>9, <1>12

\* The ladder after a batch was selected holds numbers of the ladder before.
LEMMA LadderFromIs ==
    ASSUME NEW b \in Nat, NEW ladder \in Seq(Nat)
    PROVE  LadderFrom(b, ladder) \in Seq(Nat) /\ Len(LadderFrom(b, ladder)) >= 1
PROOF
<1> DEFINE kept == SmallerRungs(b, ladder)
           rest == RungsAt(ladder, kept)
<1>1. kept \in SUBSET (1..Len(ladder)) /\ Len(ladder) \in Nat
  BY DEF SmallerRungs
<1>2. Cardinality(kept) \in Nat
  <2>1. IsFiniteSet(1..Len(ladder))
    BY FS_Interval
  <2>2. IsFiniteSet(kept)
    <3> HIDE DEF kept
    <3> QED
      BY <1>1, <2>1, FS_Subset
  <2> HIDE DEF kept
  <2> QED
    BY <2>2, FS_CardinalityType
<1>3. ASSUME NEW k \in 1..Cardinality(kept)
      PROVE  ladder[CHOOSE i \in kept : Cardinality({j \in kept : j <= i}) = k] \in Nat
  <2> DEFINE chosen == CHOOSE i \in kept : Cardinality({j \in kept : j <= i}) = k
  <2>1. \E i \in kept : Cardinality({j \in kept : j <= i}) = k
    <3> HIDE DEF kept
    <3> QED
      BY <1>1, NthOf
  <2> HIDE DEF kept
  <2>2. chosen \in kept
    BY <2>1
  <2> HIDE DEF chosen
  <2>3. chosen \in 1..Len(ladder)
    BY <1>1, <2>2
  <2>4. ladder[chosen] \in Nat
    BY <2>3
  <2> QED
    BY <2>4 DEF chosen
<1>4. rest \in Seq(Nat)
  <2>1. rest = [k \in 1..Cardinality(kept) |-> ladder[CHOOSE i \in kept : Cardinality({j \in kept : j <= i}) = k]]
    BY DEF RungsAt
  <2> HIDE DEF kept
  <2>2. rest \in [1..Cardinality(kept) -> Nat]
    BY <1>3, <2>1
  <2> HIDE DEF rest
  <2> QED
    BY <1>2, <2>2
<1>5. LadderFrom(b, ladder) = <<b>> \o rest
  BY DEF LadderFrom
<1> HIDE DEF rest
<1>6. <<b>> \in Seq(Nat) /\ Len(<<b>>) = 1 /\ Len(rest) \in Nat
  BY <1>4
<1> QED
  BY <1>4, <1>5, <1>6

\* The examples of a run are a sequence.
LEMMA SourcesAreFinite ==
    ASSUME NEW sizes \in Seq(Nat)
    PROVE  IsFiniteSet(UNION {(1..sizes[f]) \X {f} : f \in DOMAIN sizes})
PROOF
<1> DEFINE F == {(1..sizes[f]) \X {f} : f \in DOMAIN sizes}
           g == [f \in DOMAIN sizes |-> (1..sizes[f]) \X {f}]
<1>1. IsFiniteSet(DOMAIN sizes)
  <2>1. DOMAIN sizes = 1..Len(sizes) /\ Len(sizes) \in Nat
    OBVIOUS
  <2>2. IsFiniteSet(1..Len(sizes))
    BY <2>1, FS_Interval
  <2> QED
    BY <2>1, <2>2
<1>2. IsFiniteSet(F)
  <2>1. g \in Surjection(DOMAIN sizes, F)
    BY DEF Surjection
  <2> HIDE DEF g, F
  <2> QED
    BY <1>1, <2>1, FS_Surjection
<1>3. \A T \in F : IsFiniteSet(T)
  <2> SUFFICES ASSUME NEW f \in DOMAIN sizes PROVE IsFiniteSet((1..sizes[f]) \X {f})
    OBVIOUS
  <2>1. sizes[f] \in Nat
    OBVIOUS
  <2>2. IsFiniteSet(1..sizes[f]) /\ IsFiniteSet({f})
    <3>1. IsFiniteSet(1..sizes[f])
      BY <2>1, FS_Interval
    <3>2. IsFiniteSet({f})
      BY FS_Singleton
    <3> QED
      BY <3>1, <3>2
  <2> QED
    BY <2>2, FS_Product
<1> HIDE DEF F
<1> QED
  BY <1>2, <1>3, FS_UNION DEF F

LEMMA ExamplesAre == \E S : StageExamples \in Seq(S)
PROOF
<1> DEFINE all == UNION {(1..SourceSizes[f]) \X {f} : f \in DOMAIN SourceSizes}
           taken == IF ExampleLimit = NoLimit \/ Cardinality(all) <= ExampleLimit THEN Cardinality(all) ELSE ExampleLimit
<1>1. Cardinality(all) \in Nat
  <2>1. SourceSizes \in Seq(Nat)
    BY StageAssumption
  <2>2. IsFiniteSet(all)
    BY <2>1, SourcesAreFinite
  <2> HIDE DEF all
  <2> QED
    BY <2>2, FS_CardinalityType
<1>2. taken \in Nat
  <2> HIDE DEF all
  <2> QED
    BY <1>1, StageAssumption
<1>3. PICK e : StageExamples = [k \in 1..taken |-> e[k]]
  <2> DEFINE before(a, b) == IF ExampleLimit = NoLimit THEN a[2] < b[2] \/ (a[2] = b[2] /\ a[1] < b[1])
                             ELSE a[1] < b[1] \/ (a[1] = b[1] /\ a[2] < b[2])
             at(k) == CHOOSE x \in all : Cardinality({y \in all : before(y, x)}) = k - 1
  <2>1. StageExamples = [k \in 1..taken |-> at(k)]
    BY Zenon DEF StageExamples, RoundRobin
  <2> HIDE DEF at, taken
  <2>2. PICK f : f = [k \in 1..taken |-> at(k)]
    OBVIOUS
  <2>3. StageExamples = [k \in 1..taken |-> f[k]]
    BY <2>1, <2>2
  <2> QED
    BY <2>3
<1> DEFINE S == {e[k] : k \in 1..taken}
<1> HIDE DEF taken
<1>4. StageExamples \in [1..taken -> S]
  BY <1>3
<1> HIDE DEF S
<1>5. StageExamples \in Seq(S)
  BY <1>2, <1>4
<1> QED
  BY <1>5

\* A process of a stage run is a record of these fields.
StageFields == {"pc", "attempt", "backend", "base", "plan", "tuning", "best", "ladder", "rung", "batch", "got",
                "counted", "mine", "inode"}
IsStage(s) == DOMAIN s = StageFields /\ s = [f \in DOMAIN s |-> s[f]]
\* t is s but for these fields.
Moved(s, t, changed) == IsStage(t) /\ \A f \in StageFields \ changed : t[f] = s[f]

LEMMA IdleStageIs ==
    /\ IsStage(IdleStage) /\ IdleStage.pc = "idle" /\ IdleStage.attempt = 0 /\ IdleStage.backend = "configured"
    /\ IdleStage.plan = 0 /\ IdleStage.tuning = "none" /\ IdleStage.best = 0 /\ IdleStage.ladder = <<>>
    /\ IdleStage.rung = 1 /\ IdleStage.batch = 0 /\ IdleStage.got = 0 /\ IdleStage.counted = 0 /\ IdleStage.inode = 0
BY DEF IdleStage, IsStage, StageFields

LEMMA StageAttemptIs ==
    ASSUME NEW n, NEW b
    PROVE  LET t == StageAttempt(n, b)
           IN  Moved(IdleStage, t, {"pc", "attempt", "backend"}) /\ t.pc = "build" /\ t.attempt = n /\ t.backend = b
BY IdleStageIs DEF StageAttempt, IsStage, StageFields, Moved

LEMMA WithPlanIs ==
    ASSUME NEW s, IsStage(s), NEW plans, NEW i
    PROVE  LET t == WithPlan(s, plans, i)
           IN  /\ Moved(s, t, {"plan", "ladder", "rung", "batch"})
               /\ t.plan = i /\ t.ladder = Ladder[plans[i]] /\ t.rung = 1 /\ t.batch = Ladder[plans[i]][1]
BY DEF WithPlan, IsStage, StageFields, Moved

LEMMA WithBatchIs ==
    ASSUME NEW s, IsStage(s), NEW b
    PROVE  LET t == WithBatch(s, b)
           IN  /\ Moved(s, t, {"batch", "ladder", "rung"})
               /\ t.batch = b /\ t.ladder = LadderFrom(b, s.ladder) /\ t.rung = 1
BY DEF WithBatch, IsStage, StageFields, Moved

LEMMA TunedIs ==
    ASSUME NEW s, IsStage(s)
    PROVE  LET t == Tuned(s) IN Moved(s, t, {"pc"}) /\ t.pc = IF s.tuning = "search" THEN "rank" ELSE "predict"
BY DEF Tuned, IsStage, StageFields, Moved

LEMMA NextCandidateIs ==
    ASSUME NEW s, IsStage(s), NEW plans
    PROVE  LET t == NextCandidate(s, plans)
           IN  \/ /\ s.plan < Len(plans) /\ Moved(s, t, {"plan", "ladder", "rung", "batch", "pc"}) /\ t.pc = "candidate"
                  /\ t.plan = s.plan + 1 /\ t.ladder = Ladder[plans[s.plan + 1]] /\ t.rung = 1
                  /\ t.batch = Ladder[plans[s.plan + 1]][1]
               \/ Moved(s, t, {"pc"}) /\ t.pc = "chosen"
PROOF
<1>1. CASE s.plan < Len(plans)
  <2> DEFINE u == WithPlan(s, plans, s.plan + 1)
  <2>1. NextCandidate(s, plans) = [u EXCEPT !.pc = "candidate"]
    BY <1>1 DEF NextCandidate
  <2>2. /\ Moved(s, u, {"plan", "ladder", "rung", "batch"})
        /\ u.plan = s.plan + 1 /\ u.ladder = Ladder[plans[s.plan + 1]] /\ u.rung = 1 /\ u.batch = Ladder[plans[s.plan + 1]][1]
    BY WithPlanIs
  <2> HIDE DEF u
  <2> QED
    BY <1>1, <2>1, <2>2 DEF IsStage, StageFields, Moved
<1>2. CASE ~(s.plan < Len(plans))
  BY <1>2 DEF NextCandidate, IsStage, StageFields, Moved
<1> QED
  BY <1>1, <1>2

StagePlaces == {"idle", "build", "candidate", "lookup", "probe", "open", "fill", "replace", "rank", "chosen",
                "predict", "report"}
TunePlaces == {"lookup", "probe", "open", "fill", "replace"}
Inodes == 0..Cardinality(StageRuns) + 2

\* What a process holds, wherever it is; and what it holds at its place.
StageData(r, s) ==
    /\ IsStage(s) /\ s.attempt \in 0..MaxAttempts + 1
    /\ s.backend \in StageBackends /\ (s.backend = "mock" => Len(StagePlans[r]) = 1)
    /\ s.plan \in 0..Len(StagePlans[r]) /\ s.best \in 0..Len(StagePlans[r])
    /\ s.ladder \in Seq(Nat) /\ s.batch \in Nat /\ s.got \in Nat /\ s.rung \in Nat \ {0} /\ s.inode \in Inodes
StagePlace(s) ==
    /\ s.pc \in StagePlaces
    /\ s.pc \notin {"idle", "build"} => s.rung <= Len(s.ladder)
    /\ s.pc \notin {"predict", "report"} => s.counted = 0
    /\ (s.pc # "fill" => s.inode = 0) /\ (s.pc = "fill" => s.inode # 0)
    /\ s.pc \in {"candidate", "rank"} => s.tuning = "search"
    /\ s.pc \in TunePlaces => s.tuning \in {"search", "run"}
StageProcess(r, s) == StageData(r, s) /\ StagePlace(s)

\* The predictions are those of the first examples.
ArePrefix(p) == p = SubSeq(StageExamples, 1, Len(p)) /\ Len(p) \in 0..Len(StageExamples)

\* The files in the directory of a run.
StageFiles(r, s, p, m) ==
    /\ s.pc \in TunePlaces /\ s.tuning = "run" => p = <<>>
    /\ s.pc = "predict" => ArePrefix(p) /\ s.counted = Len(p)
    /\ m.status \in {"none", "completed", "blocked"}
    /\ s.pc = "report" => m.status = "completed"
    /\ m.status # "none" => s.pc \in {"idle", "report"}
    /\ m.status = "completed" => /\ p = StageExamples /\ m.counted = Len(StageExamples)
                                 /\ m.backend = "mock" => Len(StagePlans[r]) = 1

\* The autotune cache: its names, and the inodes there are.
TuneIs(f) ==
    /\ f = [cache |-> f.cache, temp |-> f.temp, data |-> f.data]
    /\ \/ f.cache = 0 /\ f.temp = 0 /\ f.data = <<>>
       \/ /\ f.cache \in Inodes /\ f.temp \in Inodes
          /\ \E S : f.data \in [1..Cardinality(StageRuns) + 2 -> S]

Reports == {"none", "resumed", "completed", "blocked", "failed"}

StageGlobals ==
    /\ stageRun = [r \in StageRuns |-> stageRun[r]] /\ predictions = [r \in StageRuns |-> predictions[r]]
    /\ stageManifest = [r \in StageRuns |-> stageManifest[r]] /\ recoveryReport \in [StageRuns -> Reports]
    /\ startedRuns \in Together /\ localized \in BOOLEAN
    /\ TuneIs(tuneFiles)

StageInv ==
    /\ StageGlobals
    /\ \A r \in StageRuns : /\ StageProcess(r, stageRun[r])
                            /\ StageFiles(r, stageRun[r], predictions[r], stageManifest[r])

LEMMA StageNumbers ==
    /\ MaxAttempts \in Nat /\ Cardinality(StageRuns) \in Nat /\ 0 \in Inodes
    /\ Len(StageExamples) \in Nat /\ \A r \in StageRuns : Len(StagePlans[r]) \in Nat \ {0}
PROOF
<1>1. Cardinality(StageRuns) \in Nat
  BY StageAssumption, FS_CardinalityType
<1>2. 0 \in Inodes
  BY <1>1 DEF Inodes
<1>3. Len(StageExamples) \in Nat
  BY ExamplesAre
<1>4. ASSUME NEW r \in StageRuns
      PROVE  Len(StagePlans[r]) \in Nat \ {0}
  <2>1. StagePlans[r] \in Seq(Range(StagePlans[r])) /\ StagePlans[r] # <<>>
    BY StageAssumption
  <2> QED
    BY <2>1
<1> QED
  BY <1>1, <1>2, <1>3, <1>4, RecoveryAssumption

\* The ladder of a plan of the run.
LEMMA LaddersAre ==
    ASSUME NEW r \in StageRuns, NEW i \in 1..Len(StagePlans[r])
    PROVE  LET ladder == Ladder[StagePlans[r][i]]
           IN  ladder \in Seq(Nat) /\ Len(ladder) >= 1 /\ ladder[1] \in Nat
PROOF
<1> DEFINE plans == StagePlans[r]
           ladder == Ladder[plans[i]]
<1>1. plans \in Seq(Range(plans))
  BY StageAssumption
<1>2. plans[i] \in Range(plans)
  <2> HIDE DEF plans
  <2> QED
    BY <1>1 DEF Range, plans
<1>3. ladder \in Seq(Nat \ {0}) /\ ladder # <<>>
  BY <1>2, StageAssumption
<1> HIDE DEF ladder
<1>4. ladder \in Seq(Nat) /\ Len(ladder) >= 1
  BY <1>3
<1> QED
  BY <1>4 DEF ladder

LEMMA StageInitHolds == StageInit => StageInv
PROOF
<1> SUFFICES ASSUME StageInit PROVE StageInv
  OBVIOUS
<1>1. /\ stageRun = [r \in StageRuns |-> stageRun[r]] /\ predictions = [r \in StageRuns |-> predictions[r]]
      /\ stageManifest = [r \in StageRuns |-> stageManifest[r]] /\ recoveryReport \in [StageRuns -> Reports]
      /\ startedRuns \in Together /\ localized \in BOOLEAN
  BY DEF StageInit, Reports
<1>2. TuneIs(tuneFiles)
  BY DEF StageInit, TuneIs
<1>3. ASSUME NEW r \in StageRuns
      PROVE  StageProcess(r, stageRun[r])
  <2>1. stageRun[r] = IdleStage
    BY DEF StageInit
  <2>2. <<>> \in Seq(Nat)
    OBVIOUS
  <2> QED
    BY <2>1, <2>2, IdleStageIs, StageNumbers DEF StageProcess, StageData, StagePlace, StagePlaces, TunePlaces, StageBackends
<1>4. ASSUME NEW r \in StageRuns
      PROVE  StageFiles(r, stageRun[r], predictions[r], stageManifest[r])
  <2>1. stageRun[r] = IdleStage /\ stageManifest[r] = NoManifest
    BY DEF StageInit
  <2> QED
    BY <2>1, IdleStageIs DEF StageFiles, TunePlaces, NoManifest
<1> QED
  BY <1>1, <1>2, <1>3, <1>4 DEF StageInv, StageGlobals

\* A step of one run leaves the files and the processes of the others alone.
LEMMA StageStepIs ==
    ASSUME StageInv, NEW r \in StageRuns, NEW t, NEW p, NEW m,
           IsAt(StageRuns, stageRun, stageRun', r, t), IsAt(StageRuns, predictions, predictions', r, p),
           IsAt(StageRuns, stageManifest, stageManifest', r, m), recoveryReport' \in [StageRuns -> Reports],
           TuneIs(tuneFiles'), startedRuns' = startedRuns, localized' = localized,
           StageProcess(r, t), StageFiles(r, t, p, m)
    PROVE  StageInv'
PROOF
<1>1. StageGlobals'
  BY DEF StageInv, StageGlobals, IsAt, TuneIs
<1>2. ASSUME NEW q \in StageRuns
      PROVE  StageProcess(q, stageRun[q])' /\ StageFiles(q, stageRun[q], predictions[q], stageManifest[q])'
  <2>1. CASE q = r
    BY <2>1 DEF IsAt, StageProcess, StageData, StagePlace, StageFiles
  <2>2. CASE q # r
    <3>1. stageRun'[q] = stageRun[q] /\ predictions'[q] = predictions[q] /\ stageManifest'[q] = stageManifest[q]
      BY <2>2 DEF IsAt
    <3> QED
      BY <3>1 DEF StageInv, StageProcess, StageData, StagePlace, StageFiles
  <2> QED
    BY <2>1, <2>2
<1> QED
  BY <1>1, <1>2 DEF StageInv

\* The process goes on, its directory stays as it is.
LEMMA StageMoves ==
    ASSUME StageInv, NEW r \in StageRuns, NEW t, SetStage(r, t), UNCHANGED <<predictions, stageManifest>>,
           recoveryReport' \in [StageRuns -> Reports], TuneIs(tuneFiles'), startedRuns' = startedRuns,
           localized' = localized, StageProcess(r, t), StageFiles(r, t, predictions[r], stageManifest[r])
    PROVE  StageInv'
PROOF
<1>1. PICK p, m : p = predictions[r] /\ m = stageManifest[r]
  OBVIOUS
<1>2. /\ stageRun = [q \in StageRuns |-> stageRun[q]] /\ predictions = [q \in StageRuns |-> predictions[q]]
      /\ stageManifest = [q \in StageRuns |-> stageManifest[q]]
  BY DEF StageInv, StageGlobals
<1>3. /\ IsAt(StageRuns, stageRun, stageRun', r, t) /\ IsAt(StageRuns, predictions, predictions', r, p)
      /\ IsAt(StageRuns, stageManifest, stageManifest', r, m)
  BY <1>1, <1>2, PutAt DEF SetStage
<1>4. StageFiles(r, t, p, m)
  BY <1>1
<1> QED
  BY <1>3, <1>4, StageStepIs

LEMMA CacheIs == StageInv => TuneIs(tuneFiles)
BY DEF StageInv, StageGlobals

LEMMA ReportsStay == StageInv => recoveryReport \in [StageRuns -> Reports]
BY DEF StageInv, StageGlobals

\* A process that has ended; its directory is not about it.
LEMMA IdleStageFits ==
    ASSUME StageInv, NEW r \in StageRuns, stageRun[r].pc # "predict" \/ stageManifest[r].status = "none"
    PROVE  StageProcess(r, IdleStage) /\ StageFiles(r, IdleStage, predictions[r], stageManifest[r])
PROOF
<1>1. <<>> \in Seq(Nat)
  OBVIOUS
<1>2. StageProcess(r, IdleStage)
  BY <1>1, IdleStageIs, StageNumbers DEF StageProcess, StageData, StagePlace, StagePlaces, TunePlaces, StageBackends
<1>3. StageFiles(r, stageRun[r], predictions[r], stageManifest[r])
  BY DEF StageInv
<1>4. StageFiles(r, IdleStage, predictions[r], stageManifest[r])
  BY <1>3, IdleStageIs DEF StageFiles, TunePlaces
<1> QED
  BY <1>2, <1>4

\* An attempt begins.
LEMMA AttemptFits ==
    ASSUME StageInv, NEW r \in StageRuns, stageManifest[r].status = "none", NEW n \in 0..MaxAttempts + 1,
           NEW b \in StageBackends, b = "mock" => Len(StagePlans[r]) = 1, NEW p
    PROVE  StageProcess(r, StageAttempt(n, b)) /\ StageFiles(r, StageAttempt(n, b), p, stageManifest[r])
PROOF
<1> DEFINE t == StageAttempt(n, b)
<1>1. Moved(IdleStage, t, {"pc", "attempt", "backend"}) /\ t.pc = "build" /\ t.attempt = n /\ t.backend = b
  BY StageAttemptIs
<1> HIDE DEF t
<1>2. /\ t.plan = 0 /\ t.best = 0 /\ t.ladder = <<>> /\ t.rung = 1 /\ t.batch = 0 /\ t.got = 0 /\ t.counted = 0
      /\ t.inode = 0 /\ IsStage(t)
  BY <1>1, IdleStageIs DEF Moved, StageFields
<1>3. <<>> \in Seq(Nat)
  OBVIOUS
<1>4. StageProcess(r, t)
  BY <1>1, <1>2, <1>3, StageNumbers DEF StageProcess, StageData, StagePlace, StagePlaces, TunePlaces
<1>5. StageFiles(r, t, p, stageManifest[r])
  BY <1>1 DEF StageFiles, TunePlaces
<1> QED
  BY <1>4, <1>5 DEF t

\* A failed attempt: the next one with the mock backend, or the end.
LEMMA RaiseStageKeeps ==
    ASSUME StageInv, NEW r \in StageRuns, stageManifest[r].status = "none", NEW e, RaiseStage(r, e),
           e = "unsupported-backend" => Len(StagePlans[r]) = 1, e # "dependency-missing",
           NEW p, predictions' = predictions \/ predictions' = [predictions EXCEPT ![r] = p],
           TuneIs(tuneFiles')
    PROVE  StageInv'
PROOF
<1>0. /\ stageRun = [q \in StageRuns |-> stageRun[q]] /\ predictions = [q \in StageRuns |-> predictions[q]]
      /\ stageManifest = [q \in StageRuns |-> stageManifest[q]] /\ recoveryReport \in [StageRuns -> Reports]
      /\ StageProcess(r, stageRun[r]) /\ MaxAttempts \in Nat
  BY StageNumbers DEF StageInv, StageGlobals
<1>1. stageManifest' = stageManifest /\ startedRuns' = startedRuns /\ localized' = localized
  BY DEF RaiseStage
<1>2. PICK w : IsAt(StageRuns, predictions, predictions', r, w)
  BY <1>0, PutAt
<1>3. PICK m : m = stageManifest[r]
  OBVIOUS
<1>4. IsAt(StageRuns, stageManifest, stageManifest', r, m)
  BY <1>0, <1>1, <1>3, PutAt
<1>5. PICK t : /\ SetStage(r, t) /\ recoveryReport' \in [StageRuns -> Reports]
               /\ StageProcess(r, t) /\ StageFiles(r, t, w, m)
  <2>1. StageProcess(r, IdleStage) /\ StageFiles(r, IdleStage, w, m)
    BY <1>3, IdleStageFits, IdleStageIs DEF StageFiles, TunePlaces
  <2>2. CASE AfterFailure(stageRun[r].attempt, e) = "escapes" /\ SetStage(r, IdleStage) /\ UNCHANGED recoveryReport
    BY <1>0, <2>1, <2>2
  <2>3. CASE AfterFailure(stageRun[r].attempt, e) = "failed" /\ ReportRecovery(r, "failed")
    BY <1>0, <2>1, <2>3 DEF ReportRecovery, Reports
  <2>4. CASE /\ AfterFailure(stageRun[r].attempt, e) = "again"
             /\ SetStage(r, StageAttempt(stageRun[r].attempt + 1, "mock")) /\ UNCHANGED recoveryReport
    <3>1. e = "unsupported-backend" /\ ~(stageRun[r].attempt > MaxAttempts)
      BY <2>4 DEF AfterFailure, RecoveryAction
    <3>2. stageRun[r].attempt + 1 \in 0..MaxAttempts + 1
      BY <1>0, <3>1 DEF StageProcess, StageData
    <3>3. "mock" \in StageBackends
      BY DEF StageBackends
    <3>4. /\ StageProcess(r, StageAttempt(stageRun[r].attempt + 1, "mock"))
          /\ StageFiles(r, StageAttempt(stageRun[r].attempt + 1, "mock"), w, stageManifest[r])
      BY <3>1, <3>2, <3>3, AttemptFits
    <3> QED
      BY <1>0, <1>3, <2>4, <3>4
  <2> QED
    BY <2>2, <2>3, <2>4 DEF RaiseStage
<1>6. IsAt(StageRuns, stageRun, stageRun', r, t)
  BY <1>0, <1>5, PutAt DEF SetStage
<1> QED
  BY <1>1, <1>2, <1>4, <1>5, <1>6, StageStepIs

\* A manifest is there only when the process has ended or is about to.
LEMMA NoManifestYet ==
    ASSUME StageInv, NEW r \in StageRuns, stageRun[r].pc \notin {"idle", "report"}
    PROVE  stageManifest[r].status = "none"
BY DEF StageInv, StageFiles

LEMMA ResumeStageKeeps ==
    ASSUME StageInv, NEW r \in StageRuns, ResumeStage(r) \/ ReportStage(r)
    PROVE  StageInv'
PROOF
<1>1. /\ SetStage(r, IdleStage) /\ UNCHANGED <<predictions, stageManifest>> /\ stageRun[r].pc # "predict"
      /\ startedRuns' = startedRuns /\ localized' = localized /\ tuneFiles' = tuneFiles
      /\ \E x \in {"resumed", "completed"} : recoveryReport' = [recoveryReport EXCEPT ![r] = x]
  BY DEF ResumeStage, ReportStage, ReportRecovery, AtStage
<1>2. recoveryReport' \in [StageRuns -> Reports]
  BY <1>1, ReportsStay DEF Reports
<1>3. TuneIs(tuneFiles')
  BY <1>1, CacheIs
<1> QED
  BY <1>1, <1>2, <1>3, IdleStageFits, StageMoves

LEMMA StageDiesKeeps ==
    ASSUME StageInv, NEW r \in StageRuns, StageDies(r)
    PROVE  StageInv'
PROOF
<1>1. /\ SetStage(r, IdleStage) /\ UNCHANGED <<predictions, stageManifest, recoveryReport>>
      /\ startedRuns' = startedRuns /\ localized' = localized /\ tuneFiles' = tuneFiles
  BY DEF StageDies
<1>2. stageRun[r].pc # "predict" \/ stageManifest[r].status = "none"
  BY NoManifestYet
<1>3. TuneIs(tuneFiles') /\ recoveryReport' \in [StageRuns -> Reports]
  BY <1>1, CacheIs, ReportsStay
<1> QED
  BY <1>1, <1>2, <1>3, IdleStageFits, StageMoves

LEMMA StartStageKeeps ==
    ASSUME StageInv, NEW r \in StageRuns, StartStage(r)
    PROVE  StageInv'
PROOF
<1>1. /\ SetStage(r, StageAttempt(1, "configured")) /\ UNCHANGED <<predictions, stageManifest, recoveryReport>>
      /\ startedRuns' = startedRuns /\ localized' = localized /\ tuneFiles' = tuneFiles
      /\ stageManifest[r].status = "none"
  BY DEF StartStage
<1>2. 1 \in 0..MaxAttempts + 1 /\ "configured" \in StageBackends
  BY StageNumbers DEF StageBackends
<1>3. TuneIs(tuneFiles') /\ recoveryReport' \in [StageRuns -> Reports]
  BY <1>1, CacheIs, ReportsStay
<1>4. PICK t : t = StageAttempt(1, "configured")
  OBVIOUS
<1>5. StageProcess(r, t) /\ StageFiles(r, t, predictions[r], stageManifest[r])
  BY <1>1, <1>2, <1>4, AttemptFits
<1>6. SetStage(r, t)
  BY <1>1, <1>4
<1> QED
  BY <1>1, <1>3, <1>5, <1>6, StageMoves

\* The places where the directory is of no account.
LEMMA FilesFit ==
    ASSUME NEW r, NEW s, NEW p, NEW m, m.status = "none", s.pc \in {"build", "candidate", "rank", "chosen"}
    PROVE  StageFiles(r, s, p, m)
BY DEF StageFiles, TunePlaces

\* The search takes up the next plan or ends.
LEMMA NextFits ==
    ASSUME NEW r \in StageRuns, NEW s, StageProcess(r, s), s.tuning = "search",
           s.pc \in {"candidate", "lookup", "probe", "open", "replace", "rank"}
    PROVE  LET t == NextCandidate(s, StagePlans[r])
           IN  /\ StageProcess(r, t) /\ t.pc \in {"candidate", "chosen"}
               /\ Moved(s, t, {"plan", "ladder", "rung", "batch", "pc"})
PROOF
<1> DEFINE t == NextCandidate(s, StagePlans[r])
<1>1. IsStage(s)
  BY DEF StageProcess, StageData
<1>2. \/ /\ s.plan < Len(StagePlans[r]) /\ Moved(s, t, {"plan", "ladder", "rung", "batch", "pc"}) /\ t.pc = "candidate"
         /\ t.plan = s.plan + 1 /\ t.ladder = Ladder[StagePlans[r][s.plan + 1]] /\ t.rung = 1
         /\ t.batch = Ladder[StagePlans[r][s.plan + 1]][1]
      \/ Moved(s, t, {"pc"}) /\ t.pc = "chosen"
  BY <1>1, NextCandidateIs
<1> HIDE DEF t
<1>3. Len(StagePlans[r]) \in Nat \ {0} /\ s.plan \in 0..Len(StagePlans[r])
  BY StageNumbers DEF StageProcess, StageData
<1>4. CASE Moved(s, t, {"pc"}) /\ t.pc = "chosen"
  <2>1. StageData(r, t)
    BY <1>4 DEF StageProcess, StageData, Moved, StageFields
  <2>2. StagePlace(t)
    BY <1>4 DEF StageProcess, StagePlace, Moved, StageFields, StagePlaces, TunePlaces
  <2>3. Moved(s, t, {"plan", "ladder", "rung", "batch", "pc"})
    BY <1>4 DEF Moved
  <2> QED
    BY <1>4, <2>1, <2>2, <2>3 DEF StageProcess, t
<1>5. CASE /\ s.plan < Len(StagePlans[r]) /\ Moved(s, t, {"plan", "ladder", "rung", "batch", "pc"}) /\ t.pc = "candidate"
           /\ t.plan = s.plan + 1 /\ t.ladder = Ladder[StagePlans[r][s.plan + 1]] /\ t.rung = 1
           /\ t.batch = Ladder[StagePlans[r][s.plan + 1]][1]
  <2>1. s.plan + 1 \in 1..Len(StagePlans[r])
    BY <1>3, <1>5
  <2>2. t.ladder \in Seq(Nat) /\ Len(t.ladder) >= 1 /\ t.batch \in Nat
    BY <1>5, <2>1, LaddersAre
  <2>3. t.plan \in 0..Len(StagePlans[r]) /\ t.rung \in Nat \ {0} /\ t.rung <= Len(t.ladder)
    BY <1>3, <1>5, <2>1, <2>2
  <2>4. StageData(r, t)
    BY <1>5, <2>2, <2>3 DEF StageProcess, StageData, Moved, StageFields
  <2>5. StagePlace(t)
    BY <1>5, <2>3 DEF StageProcess, StagePlace, Moved, StageFields, StagePlaces, TunePlaces
  <2> QED
    BY <1>5, <2>4, <2>5 DEF StageProcess, t
<1> QED
  BY <1>2, <1>4, <1>5

\* The tuning of a plan fails.
LEMMA TuneFailsKeeps ==
    ASSUME StageInv, NEW r \in StageRuns, stageRun[r].pc \in TunePlaces \ {"fill"},
           NEW e \in {"unexpected-error", "missing-artifact"}, TuneFails(r, e), predictions' = predictions,
           tuneFiles' = tuneFiles
    PROVE  StageInv'
PROOF
<1>1. stageManifest[r].status = "none" /\ TuneIs(tuneFiles')
  BY NoManifestYet, CacheIs DEF TunePlaces
<1>2. CASE stageRun[r].tuning = "run" /\ RaiseStage(r, e)
  BY <1>1, <1>2, RaiseStageKeeps
<1>3. CASE /\ stageRun[r].tuning = "search" /\ SetStage(r, NextCandidate(stageRun[r], StagePlans[r]))
           /\ UNCHANGED <<recoveryReport, stageManifest, startedRuns, localized, stageCrashes>>
  <2>1. PICK t : t = NextCandidate(stageRun[r], StagePlans[r])
    OBVIOUS
  <2>2. StageProcess(r, t) /\ t.pc \in {"candidate", "chosen"}
    BY <1>3, <2>1, NextFits DEF StageInv, TunePlaces
  <2>3. StageFiles(r, t, predictions[r], stageManifest[r])
    BY <1>1, <2>2, FilesFit
  <2>4. SetStage(r, t) /\ recoveryReport' \in [StageRuns -> Reports]
    BY <1>3, <2>1, ReportsStay
  <2> QED
    BY <1>1, <1>3, <2>2, <2>3, <2>4, StageMoves
<1> QED
  BY <1>2, <1>3 DEF TuneFails

LEMMA BlockStageKeeps ==
    ASSUME StageInv, NEW r \in StageRuns, BlockStage(r)
    PROVE  StageInv'
PROOF
<1>0. /\ stageRun = [q \in StageRuns |-> stageRun[q]] /\ predictions = [q \in StageRuns |-> predictions[q]]
      /\ stageManifest = [q \in StageRuns |-> stageManifest[q]] /\ recoveryReport \in [StageRuns -> Reports]
      /\ TuneIs(tuneFiles)
  BY DEF StageInv, StageGlobals
<1>1. PICK t, p, m : t = IdleStage /\ p = predictions[r] /\ m = [NoManifest EXCEPT !.status = "blocked"]
  OBVIOUS
<1>2. /\ stageRun' = [stageRun EXCEPT ![r] = t] /\ stageManifest' = [stageManifest EXCEPT ![r] = m]
      /\ recoveryReport' = [recoveryReport EXCEPT ![r] = "blocked"]
      /\ predictions' = predictions /\ tuneFiles' = tuneFiles /\ startedRuns' = startedRuns /\ localized' = localized
      /\ stageRun[r].pc = "build"
  BY <1>1 DEF BlockStage, ReportRecovery, SetStage, AtStage
<1>3. /\ IsAt(StageRuns, stageRun, stageRun', r, t) /\ IsAt(StageRuns, predictions, predictions', r, p)
      /\ IsAt(StageRuns, stageManifest, stageManifest', r, m)
  BY <1>0, <1>1, <1>2, PutAt
<1>4. m.status = "blocked"
  BY <1>1 DEF NoManifest
<1>5. StageProcess(r, t)
  BY <1>1, <1>2, IdleStageFits
<1>6. StageFiles(r, t, p, m)
  BY <1>1, <1>4, IdleStageIs DEF StageFiles, TunePlaces
<1>7. recoveryReport' \in [StageRuns -> Reports] /\ TuneIs(tuneFiles')
  BY <1>0, <1>2 DEF Reports
<1> QED
  BY <1>2, <1>3, <1>5, <1>6, <1>7, StageStepIs

LEMMA SetupFailsKeeps ==
    ASSUME StageInv, NEW r \in StageRuns, SetupFails(r) \/ BuildFails(r) \/ MetricsRaise(r)
    PROVE  StageInv'
PROOF
<1>1. stageManifest[r].status = "none"
  BY NoManifestYet DEF SetupFails, BuildFails, MetricsRaise, AtStage
<1>2. predictions' = predictions /\ TuneIs(tuneFiles')
  BY CacheIs DEF SetupFails, BuildFails, MetricsRaise
<1>3. \/ BuildFails(r) /\ RaiseStage(r, "unsupported-backend") /\ Len(StagePlans[r]) = 1
      \/ \E e \in {"missing-artifact", "unexpected-error", "config-error"} : RaiseStage(r, e)
  BY DEF SetupFails, BuildFails, MetricsRaise
<1> QED
  BY <1>1, <1>2, <1>3, RaiseStageKeeps

LEMMA NoneWritten == ArePrefix(<<>>)
PROOF
<1>1. PICK S : StageExamples \in Seq(S)
  BY ExamplesAre
<1>2. SubSeq(StageExamples, 1, 0) = <<>>
  BY <1>1
<1>3. Len(<<>>) = 0
  OBVIOUS
<1> QED
  BY <1>2, <1>3, StageNumbers DEF ArePrefix

\* The prediction loop begins with an empty file.
LEMMA StartsPredictingKeeps ==
    ASSUME StageInv, NEW r \in StageRuns, stageManifest[r].status = "none", NEW s, StageData(r, s),
           s.rung <= Len(s.ladder), s.counted = 0, s.inode = 0, StartsPredicting(r, s),
           UNCHANGED <<stageManifest, recoveryReport, tuneFiles, startedRuns, localized>>
    PROVE  StageInv'
PROOF
<1>0. /\ stageRun = [q \in StageRuns |-> stageRun[q]] /\ predictions = [q \in StageRuns |-> predictions[q]]
      /\ stageManifest = [q \in StageRuns |-> stageManifest[q]] /\ recoveryReport \in [StageRuns -> Reports]
      /\ TuneIs(tuneFiles)
  BY DEF StageInv, StageGlobals
<1>1. PICK to : to = IF s.backend = "mock" \/ Len(s.ladder) <= 1 THEN "predict" ELSE "lookup"
  OBVIOUS
<1>2. PICK t, p, m : /\ t = [s EXCEPT !.tuning = "run", !.best = 0, !.base = FALSE, !.pc = to]
                     /\ p = <<>> /\ m = stageManifest[r]
  OBVIOUS
<1>3. /\ stageRun' = [stageRun EXCEPT ![r] = t] /\ predictions' = [predictions EXCEPT ![r] = p]
  BY <1>1, <1>2 DEF StartsPredicting, SetStage, PredictionsOpened
<1>4. /\ IsAt(StageRuns, stageRun, stageRun', r, t) /\ IsAt(StageRuns, predictions, predictions', r, p)
      /\ IsAt(StageRuns, stageManifest, stageManifest', r, m)
  BY <1>0, <1>2, <1>3, PutAt
<1>5. Moved(s, t, {"tuning", "best", "base", "pc"}) /\ t.tuning = "run" /\ t.best = 0 /\ t.pc = to
  <2>1. IsStage(s)
    BY DEF StageData
  <2> QED
    BY <1>2, <2>1 DEF IsStage, StageFields, Moved
<1>6. to \in {"predict", "lookup"}
  BY <1>1
<1>7. StageData(r, t)
  BY <1>5, StageNumbers DEF StageData, Moved, StageFields
<1>8. StagePlace(t)
  BY <1>5, <1>6 DEF StagePlace, StagePlaces, TunePlaces, Moved, StageFields
<1>9. StageFiles(r, t, p, m)
  <2>1. t.counted = 0 /\ p = <<>> /\ Len(p) = 0 /\ ArePrefix(p)
    BY <1>2, <1>5, NoneWritten DEF Moved, StageFields
  <2> QED
    BY <1>2, <1>5, <1>6, <2>1 DEF StageFiles
<1> QED
  BY <1>0, <1>4, <1>7, <1>8, <1>9, StageStepIs DEF StageProcess

\* A plan of the run is taken up.
LEMMA PlanFits ==
    ASSUME NEW r \in StageRuns, NEW s, StageData(r, s), NEW i \in 1..Len(StagePlans[r])
    PROVE  LET u == WithPlan(s, StagePlans[r], i)
           IN  /\ StageData(r, u) /\ u.rung <= Len(u.ladder)
               /\ Moved(s, u, {"plan", "ladder", "rung", "batch"})
PROOF
<1> DEFINE u == WithPlan(s, StagePlans[r], i)
<1>1. IsStage(s) /\ Len(StagePlans[r]) \in Nat \ {0}
  BY StageNumbers DEF StageData
<1>2. /\ Moved(s, u, {"plan", "ladder", "rung", "batch"}) /\ u.plan = i /\ u.ladder = Ladder[StagePlans[r][i]]
      /\ u.rung = 1 /\ u.batch = Ladder[StagePlans[r][i]][1]
  BY <1>1, WithPlanIs
<1> HIDE DEF u
<1>3. u.ladder \in Seq(Nat) /\ Len(u.ladder) >= 1 /\ u.batch \in Nat
  BY <1>2, LaddersAre
<1>4. u.plan \in 0..Len(StagePlans[r]) /\ u.rung \in Nat \ {0} /\ u.rung <= Len(u.ladder)
  BY <1>1, <1>2, <1>3
<1>5. StageData(r, u)
  BY <1>2, <1>3, <1>4 DEF StageData, Moved, StageFields
<1> QED
  BY <1>2, <1>4, <1>5 DEF u

\* A batch size is selected.
LEMMA BatchFits ==
    ASSUME NEW r \in StageRuns, NEW s, StageData(r, s), NEW b \in Nat
    PROVE  LET u == WithBatch(s, b)
           IN  StageData(r, u) /\ u.rung <= Len(u.ladder) /\ Moved(s, u, {"batch", "ladder", "rung"})
PROOF
<1> DEFINE u == WithBatch(s, b)
<1>1. IsStage(s) /\ s.ladder \in Seq(Nat)
  BY DEF StageData
<1>2. /\ Moved(s, u, {"batch", "ladder", "rung"}) /\ u.batch = b /\ u.rung = 1
      /\ u.ladder = LadderFrom(b, s.ladder)
  BY <1>1, WithBatchIs
<1> HIDE DEF u
<1>3. u.ladder \in Seq(Nat) /\ Len(u.ladder) >= 1
  BY <1>1, <1>2, LadderFromIs
<1>4. StageData(r, u)
  BY <1>2, <1>3 DEF StageData, Moved, StageFields
<1>5. u.rung <= Len(u.ladder)
  BY <1>2, <1>3
<1> QED
  BY <1>2, <1>4, <1>5 DEF u

LEMMA BuildBaseKeeps ==
    ASSUME StageInv, NEW r \in StageRuns, BuildBase(r)
    PROVE  StageInv'
PROOF
<1> DEFINE s == stageRun[r]
           u == WithPlan(s, StagePlans[r], 1)
<1>1. /\ s.pc = "build" /\ stageManifest[r].status = "none"
      /\ UNCHANGED <<stageManifest, recoveryReport, tuneFiles, startedRuns, localized>>
  BY NoManifestYet DEF BuildBase, AtStage
<1>2. StageProcess(r, s)
  BY DEF StageInv
<1>3. StageData(r, u) /\ u.rung <= Len(u.ladder) /\ Moved(s, u, {"plan", "ladder", "rung", "batch"})
  <2>1. 1 \in 1..Len(StagePlans[r])
    BY StageNumbers
  <2> QED
    BY <1>2, <2>1, PlanFits DEF StageProcess
<1>4. \/ StartsPredicting(r, u)
      \/ \E built \in BOOLEAN : SetStage(r, [u EXCEPT !.base = built, !.tuning = "search", !.pc = "candidate"])
         /\ predictions' = predictions
  BY DEF BuildBase
<1> HIDE DEF u, s
<1>5. u.counted = 0 /\ u.inode = 0
  BY <1>1, <1>2, <1>3 DEF StageProcess, StagePlace, Moved, StageFields
<1>6. CASE StartsPredicting(r, u)
  BY <1>1, <1>3, <1>5, <1>6, StartsPredictingKeeps
<1>7. ASSUME NEW built \in BOOLEAN,
             SetStage(r, [u EXCEPT !.base = built, !.tuning = "search", !.pc = "candidate"]), predictions' = predictions
      PROVE  StageInv'
  <2>1. PICK t : t = [u EXCEPT !.base = built, !.tuning = "search", !.pc = "candidate"]
    OBVIOUS
  <2>2. Moved(u, t, {"base", "tuning", "pc"}) /\ t.tuning = "search" /\ t.pc = "candidate"
    <3>1. IsStage(u)
      BY <1>3 DEF StageData
    <3> QED
      BY <2>1, <3>1 DEF IsStage, StageFields, Moved
  <2>3. StageData(r, t)
    BY <1>3, <2>2 DEF StageData, Moved, StageFields
  <2>4. StagePlace(t)
    BY <1>3, <1>5, <2>2 DEF StagePlace, StagePlaces, TunePlaces, Moved, StageFields
  <2>5. StageFiles(r, t, predictions[r], stageManifest[r])
    BY <1>1, <2>2, FilesFit
  <2>6. SetStage(r, t) /\ recoveryReport' \in [StageRuns -> Reports] /\ TuneIs(tuneFiles')
    BY <1>1, <1>7, <2>1, ReportsStay, CacheIs
  <2> QED
    BY <1>1, <1>7, <2>3, <2>4, <2>5, <2>6, StageMoves DEF StageProcess
<1> QED
  BY <1>4, <1>6, <1>7

\* The process goes to another place with what it holds.
LEMMA GoFits ==
    ASSUME NEW r \in StageRuns, NEW s, StageProcess(r, s), NEW x, NEW t, t = [s EXCEPT !.pc = x],
           x \in StagePlaces \ {"idle", "build", "fill"}, s.pc \notin {"idle", "build", "fill"},
           x \notin {"predict", "report"} => s.pc \notin {"predict", "report"},
           x \in {"candidate", "rank"} => s.tuning = "search", x \in TunePlaces => s.tuning \in {"search", "run"}
    PROVE  StageProcess(r, t) /\ Moved(s, t, {"pc"}) /\ t.pc = x
PROOF
<1>1. Moved(s, t, {"pc"}) /\ t.pc = x
  <2>1. IsStage(s)
    BY DEF StageProcess, StageData
  <2> QED
    BY <2>1 DEF IsStage, StageFields, Moved
<1>2. StageData(r, t)
  BY <1>1 DEF StageProcess, StageData, Moved, StageFields
<1>3. StagePlace(t)
  BY <1>1 DEF StageProcess, StagePlace, Moved, StageFields
<1> QED
  BY <1>1, <1>2, <1>3 DEF StageProcess

LEMMA BuildCandidateKeeps ==
    ASSUME StageInv, NEW r \in StageRuns, BuildCandidate(r)
    PROVE  StageInv'
PROOF
<1> DEFINE s == stageRun[r]
<1>1. /\ s.pc = "candidate" /\ stageManifest[r].status = "none"
      /\ UNCHANGED <<predictions, stageManifest, recoveryReport, tuneFiles, startedRuns, localized>>
  BY NoManifestYet DEF BuildCandidate, AtStage
<1>2. StageProcess(r, s) /\ s.tuning = "search"
  BY <1>1 DEF StageInv, StageProcess, StagePlace
<1>3. recoveryReport' \in [StageRuns -> Reports] /\ TuneIs(tuneFiles')
  BY <1>1, ReportsStay, CacheIs
<1>4. CASE SetStage(r, NextCandidate(s, StagePlans[r]))
  <2>1. PICK t : t = NextCandidate(s, StagePlans[r])
    OBVIOUS
  <2>2. StageProcess(r, t) /\ t.pc \in {"candidate", "chosen"}
    BY <1>1, <1>2, <2>1, NextFits
  <2>3. StageFiles(r, t, predictions[r], stageManifest[r])
    BY <1>1, <2>2, FilesFit
  <2> QED
    BY <1>1, <1>3, <1>4, <2>1, <2>2, <2>3, StageMoves
<1>5. CASE SetStage(r, [s EXCEPT !.pc = IF Len(s.ladder) > 1 THEN "lookup" ELSE "rank"])
  <2>1. PICK x : x = IF Len(s.ladder) > 1 THEN "lookup" ELSE "rank"
    OBVIOUS
  <2>2. PICK t : t = [s EXCEPT !.pc = x]
    OBVIOUS
  <2>3. x \in {"lookup", "rank"}
    BY <2>1
  <2>4. StageProcess(r, t) /\ Moved(s, t, {"pc"}) /\ t.pc = x
    <3>1. x \in StagePlaces \ {"idle", "build", "fill"} /\ x \notin {"predict", "report"}
      BY <2>3 DEF StagePlaces
    <3> HIDE DEF s
    <3> QED
      BY <1>1, <1>2, <2>2, <3>1, GoFits
  <2>5. SetStage(r, t)
    BY <1>5, <2>1, <2>2
  <2> HIDE DEF s
  <2>6. t.tuning = "search"
    BY <1>2, <2>4 DEF Moved, StageFields
  <2>7. StageFiles(r, t, predictions[r], stageManifest[r])
    BY <1>1, <2>3, <2>4, <2>6 DEF StageFiles
  <2> QED
    BY <1>1, <1>3, <2>4, <2>5, <2>7, StageMoves
<1> QED
  BY <1>4, <1>5 DEF BuildCandidate

\* A plan is tuned: the search ranks it, the prediction loop begins with it.
LEMMA TunedFits ==
    ASSUME NEW r \in StageRuns, NEW u, StageData(r, u), u.rung <= Len(u.ladder), u.counted = 0, u.inode = 0,
           u.tuning \in {"search", "run"}, NEW p, u.tuning = "run" => p = <<>>, NEW m, m.status = "none"
    PROVE  StageProcess(r, Tuned(u)) /\ StageFiles(r, Tuned(u), p, m)
PROOF
<1> DEFINE t == Tuned(u)
<1>1. Moved(u, t, {"pc"}) /\ t.pc = IF u.tuning = "search" THEN "rank" ELSE "predict"
  BY TunedIs DEF StageData
<1> HIDE DEF t
<1>2. StageData(r, t)
  BY <1>1 DEF StageData, Moved, StageFields
<1>3. StagePlace(t)
  BY <1>1 DEF StagePlace, StagePlaces, TunePlaces, Moved, StageFields
<1>4. StageFiles(r, t, p, m)
  <2>1. CASE u.tuning = "search"
    BY <1>1, <2>1, FilesFit
  <2>2. CASE u.tuning = "run"
    <3>1. t.pc = "predict" /\ t.counted = 0 /\ p = <<>> /\ Len(p) = 0
      BY <1>1, <2>2 DEF Moved, StageFields
    <3> QED
      BY <3>1, NoneWritten DEF StageFiles, TunePlaces
  <2> QED
    BY <2>1, <2>2
<1> QED
  BY <1>2, <1>3, <1>4 DEF StageProcess, t

\* While a plan is tuned.
LEMMA TuningIs ==
    ASSUME StageInv, NEW r \in StageRuns, stageRun[r].pc \in TunePlaces \ {"fill"}
    PROVE  /\ StageData(r, stageRun[r]) /\ stageRun[r].rung <= Len(stageRun[r].ladder) /\ stageRun[r].counted = 0
           /\ stageRun[r].inode = 0 /\ stageRun[r].tuning \in {"search", "run"}
           /\ stageRun[r].tuning = "run" => predictions[r] = <<>>
           /\ stageManifest[r].status = "none"
BY NoManifestYet DEF StageInv, StageProcess, StagePlace, StageFiles, TunePlaces

LEMMA LookUpKeeps ==
    ASSUME StageInv, NEW r \in StageRuns, LookUp(r)
    PROVE  StageInv'
PROOF
<1> DEFINE s == stageRun[r]
           hits == {b \in Range(s.ladder) : <<TuneKey(StagePlans[r][s.plan], s.ladder), b>> \in CacheContent.entries}
<1>1. s.pc = "lookup" /\ predictions' = predictions /\ tuneFiles' = tuneFiles
  BY DEF LookUp, AtStage
<1>2. s.pc \in TunePlaces \ {"fill"}
  BY <1>1 DEF TunePlaces
<1>3. \/ TuneFails(r, "unexpected-error")
      \/ /\ SetStage(r, IF hits # {} THEN Tuned(WithBatch(s, CHOOSE b \in hits : TRUE)) ELSE [s EXCEPT !.pc = "probe"])
         /\ UNCHANGED <<recoveryReport, stageManifest, startedRuns, localized, stageCrashes>>
  BY DEF LookUp
<1>4. CASE TuneFails(r, "unexpected-error")
  BY <1>1, <1>2, <1>4, TuneFailsKeeps
<1>5. CASE /\ SetStage(r, IF hits # {} THEN Tuned(WithBatch(s, CHOOSE b \in hits : TRUE)) ELSE [s EXCEPT !.pc = "probe"])
           /\ UNCHANGED <<recoveryReport, stageManifest, startedRuns, localized, stageCrashes>>
  <2>1. \E t : SetStage(r, t) /\ StageProcess(r, t) /\ StageFiles(r, t, predictions[r], stageManifest[r])
    <3>1. CASE hits # {}
      <4>1. PICK b : b = CHOOSE x \in hits : TRUE
        OBVIOUS
      <4>2. b \in Nat
        <5>1. b \in hits
          BY <3>1, <4>1
        <5>2. b \in Range(s.ladder) /\ s.ladder \in Seq(Nat)
          BY <1>2, <5>1, TuningIs DEF StageData
        <5> QED
          BY <5>2 DEF Range
      <4>3. PICK u : u = WithBatch(s, b)
        OBVIOUS
      <4>4. SetStage(r, Tuned(u))
        BY <1>5, <3>1, <4>1, <4>3
      <4>5. StageData(r, u) /\ u.rung <= Len(u.ladder) /\ Moved(s, u, {"batch", "ladder", "rung"})
        BY <1>2, <4>2, <4>3, TuningIs, BatchFits
      <4>6. u.counted = 0 /\ u.inode = 0 /\ u.tuning = s.tuning
        BY <1>2, <4>5, TuningIs DEF Moved, StageFields
      <4>7. StageProcess(r, Tuned(u)) /\ StageFiles(r, Tuned(u), predictions[r], stageManifest[r])
        BY <1>2, <4>5, <4>6, TuningIs, TunedFits
      <4> QED
        BY <4>4, <4>7
    <3>2. CASE hits = {}
      <4>1. PICK t : t = [s EXCEPT !.pc = "probe"]
        OBVIOUS
      <4>2. SetStage(r, t)
        BY <1>5, <3>2, <4>1
      <4>3. StageProcess(r, t) /\ Moved(s, t, {"pc"}) /\ t.pc = "probe"
        <5>1. StageProcess(r, s) /\ "probe" \in StagePlaces \ {"idle", "build", "fill"} /\ s.tuning \in {"search", "run"}
          BY <1>2, TuningIs DEF StageInv, StagePlaces
        <5> HIDE DEF s, hits
        <5> QED
          BY <1>1, <4>1, <5>1, GoFits
      <4>4. StageFiles(r, t, predictions[r], stageManifest[r])
        <5>1. StageFiles(r, s, predictions[r], stageManifest[r])
          BY DEF StageInv
        <5> HIDE DEF s, hits
        <5> QED
          BY <1>1, <4>3, <5>1 DEF StageFiles, TunePlaces, Moved, StageFields
      <4> QED
        BY <4>2, <4>3, <4>4
    <3> QED
      BY <3>1, <3>2
  <2>2. recoveryReport' \in [StageRuns -> Reports] /\ TuneIs(tuneFiles')
    BY <1>1, <1>5, ReportsStay, CacheIs
  <2> QED
    BY <1>1, <1>5, <2>1, <2>2, StageMoves
<1> QED
  BY <1>3, <1>4, <1>5

LEMMA ProbeBatchKeeps ==
    ASSUME StageInv, NEW r \in StageRuns, ProbeBatch(r)
    PROVE  StageInv'
PROOF
<1> DEFINE s == stageRun[r]
<1>1. s.pc = "probe" /\ predictions' = predictions /\ tuneFiles' = tuneFiles
  BY DEF ProbeBatch, AtStage
<1>2. s.pc \in TunePlaces \ {"fill"}
  BY <1>1 DEF TunePlaces
<1>3. recoveryReport' = recoveryReport => recoveryReport' \in [StageRuns -> Reports] /\ TuneIs(tuneFiles')
  BY <1>1, ReportsStay, CacheIs
<1>4. \/ TuneFails(r, "unexpected-error")
      \/ /\ UNCHANGED <<recoveryReport, stageManifest, startedRuns, localized>>
         /\ \/ \E b \in Range(s.ladder) : \E mine : SetStage(r, [WithBatch(s, b) EXCEPT !.pc = "open", !.mine = mine])
            \/ s.tuning = "search" /\ SetStage(r, NextCandidate(s, StagePlans[r]))
            \/ s.tuning # "search" /\ SetStage(r, [s EXCEPT !.pc = "predict"])
  BY DEF ProbeBatch
<1>5. CASE TuneFails(r, "unexpected-error")
  BY <1>1, <1>2, <1>5, TuneFailsKeeps
<1>6. ASSUME UNCHANGED <<recoveryReport, stageManifest, startedRuns, localized>>,
             NEW b \in Range(s.ladder), NEW mine, SetStage(r, [WithBatch(s, b) EXCEPT !.pc = "open", !.mine = mine])
      PROVE  StageInv'
  <2>1. b \in Nat
    <3>1. s.ladder \in Seq(Nat)
      BY <1>2, TuningIs DEF StageData
    <3> QED
      BY <3>1 DEF Range
  <2>2. PICK u : u = WithBatch(s, b)
    OBVIOUS
  <2>3. StageData(r, u) /\ u.rung <= Len(u.ladder) /\ Moved(s, u, {"batch", "ladder", "rung"})
    BY <1>2, <2>1, <2>2, TuningIs, BatchFits
  <2>4. u.counted = 0 /\ u.inode = 0 /\ u.tuning = s.tuning
    BY <1>2, <2>3, TuningIs DEF Moved, StageFields
  <2>5. PICK t : t = [u EXCEPT !.pc = "open", !.mine = mine]
    OBVIOUS
  <2>6. Moved(u, t, {"pc", "mine"}) /\ t.pc = "open"
    <3>1. IsStage(u)
      BY <2>3 DEF StageData
    <3> QED
      BY <2>5, <3>1 DEF IsStage, StageFields, Moved
  <2>7. StageData(r, t)
    BY <2>3, <2>6 DEF StageData, Moved, StageFields
  <2>8. t.tuning \in {"search", "run"} /\ (t.tuning = "run" => predictions[r] = <<>>)
    BY <1>2, <2>4, <2>6, TuningIs DEF Moved, StageFields
  <2>9. StagePlace(t)
    BY <2>3, <2>4, <2>6, <2>8 DEF StagePlace, StagePlaces, TunePlaces, Moved, StageFields
  <2>10. StageFiles(r, t, predictions[r], stageManifest[r])
    BY <1>2, <2>6, <2>8, TuningIs DEF StageFiles
  <2>11. SetStage(r, t)
    BY <1>6, <2>2, <2>5
  <2> QED
    BY <1>1, <1>3, <1>6, <2>7, <2>9, <2>10, <2>11, StageMoves DEF StageProcess
<1>7. CASE /\ UNCHANGED <<recoveryReport, stageManifest, startedRuns, localized>>
           /\ s.tuning = "search" /\ SetStage(r, NextCandidate(s, StagePlans[r]))
  <2>1. PICK t : t = NextCandidate(s, StagePlans[r])
    OBVIOUS
  <2>2. StageProcess(r, t) /\ t.pc \in {"candidate", "chosen"}
    BY <1>1, <1>7, <2>1, NextFits DEF StageInv
  <2>3. StageFiles(r, t, predictions[r], stageManifest[r])
    BY <1>2, <2>2, TuningIs, FilesFit
  <2> QED
    BY <1>1, <1>3, <1>7, <2>1, <2>2, <2>3, StageMoves
<1>8. CASE /\ UNCHANGED <<recoveryReport, stageManifest, startedRuns, localized>>
           /\ s.tuning # "search" /\ SetStage(r, [s EXCEPT !.pc = "predict"])
  <2>1. PICK t : t = [s EXCEPT !.pc = "predict"]
    OBVIOUS
  <2>2. StageProcess(r, s) /\ "predict" \in StagePlaces \ {"idle", "build", "fill"} /\ s.tuning = "run" /\ s.counted = 0
        /\ "predict" \notin TunePlaces /\ predictions[r] = <<>> /\ stageManifest[r].status = "none"
    BY <1>2, <1>8, TuningIs DEF StageInv, StagePlaces, TunePlaces
  <2>3. SetStage(r, t)
    BY <1>8, <2>1
  <2> HIDE DEF s
  <2>4. StageProcess(r, t) /\ Moved(s, t, {"pc"}) /\ t.pc = "predict"
    BY <1>1, <2>1, <2>2, GoFits
  <2>5. StageFiles(r, t, predictions[r], stageManifest[r])
    <3>1. t.counted = 0 /\ Len(predictions[r]) = 0 /\ ArePrefix(predictions[r])
      BY <2>2, <2>4, NoneWritten DEF Moved, StageFields
    <3> QED
      BY <2>2, <2>4, <3>1 DEF StageFiles
  <2> QED
    BY <1>1, <1>3, <1>8, <2>3, <2>4, <2>5, StageMoves
<1> QED
  BY <1>4, <1>5, <1>6, <1>7, <1>8

\* There is an inode that nothing holds.
LEMMA InodeIsFree ==
    ASSUME tuneFiles.temp = 0
    PROVE  FreeInode \in 1..Cardinality(StageRuns) + 2
PROOF
<1> DEFINE n == Cardinality(StageRuns)
           A == {stageRun[q].inode : q \in StageRuns}
           g == [q \in StageRuns |-> stageRun[q].inode]
<1>1. IsFiniteSet(StageRuns) /\ n \in Nat
  BY StageAssumption, StageNumbers
<1>2. IsFiniteSet(A) /\ Cardinality(A) <= n /\ Cardinality(A) \in Nat
  <2>1. g \in Surjection(StageRuns, A)
    BY DEF Surjection
  <2> HIDE DEF g, A
  <2>2. IsFiniteSet(A) /\ Cardinality(A) <= n
    BY <1>1, <2>1, FS_Surjection
  <2> QED
    BY <2>2, FS_CardinalityType
<1>3. \E i \in 1..n + 2 : i \notin HeldInodes
  <2> SUFFICES ASSUME 1..n + 2 \subseteq HeldInodes PROVE FALSE
    OBVIOUS
  <2>1. 1..n + 2 \subseteq A \cup {tuneFiles.cache}
    <3>1. HeldInodes = A \cup {tuneFiles.cache, 0}
      BY DEF HeldInodes
    <3> HIDE DEF A, n
    <3>2. \A i \in 1..n + 2 : i # 0
      BY <1>1
    <3> QED
      BY <3>1, <3>2
  <2> HIDE DEF A, n
  <2>2. IsFiniteSet(A \cup {tuneFiles.cache}) /\ Cardinality(A \cup {tuneFiles.cache}) <= n + 1
    <3>1. /\ IsFiniteSet(A \cup {tuneFiles.cache})
          /\ Cardinality(A \cup {tuneFiles.cache}) = IF tuneFiles.cache \in A THEN Cardinality(A) ELSE Cardinality(A) + 1
      BY <1>2, FS_AddElement
    <3> QED
      BY <1>1, <1>2, <3>1
  <2>3. Cardinality(1..n + 2) <= Cardinality(A \cup {tuneFiles.cache})
    BY <2>1, <2>2, FS_Subset
  <2>4. Cardinality(1..n + 2) = n + 2
    <3>1. 1 \in Int /\ n + 2 \in Int /\ ~(1 > n + 2) /\ (n + 2) - 1 + 1 = n + 2
      BY <1>1
    <3>2. Cardinality(1..n + 2) = IF 1 > n + 2 THEN 0 ELSE (n + 2) - 1 + 1
      BY <3>1, FS_Interval
    <3> QED
      BY <3>1, <3>2
  <2>5. Cardinality(A \cup {tuneFiles.cache}) \in Nat
    BY <2>2, FS_CardinalityType
  <2> QED
    BY <1>1, <2>2, <2>3, <2>4, <2>5
<1> QED
  BY <1>3 DEF FreeInode

\* The temporary file is opened.
TempOpened(f, x, y) == [f EXCEPT !.temp = x, !.data = y]

LEMMA TempFields ==
    ASSUME NEW f, f = [cache |-> f.cache, temp |-> f.temp, data |-> f.data], NEW x, NEW y
    PROVE  TempOpened(f, x, y) = [cache |-> f.cache, temp |-> x, data |-> y]
PROOF
<1>1. DOMAIN f = {"cache", "temp", "data"} /\ f = [k \in {"cache", "temp", "data"} |-> f[k]]
  OBVIOUS
<1>2. PICK u : u = [f EXCEPT !.temp = x, !.data = y]
  OBVIOUS
<1>3. u = [cache |-> f.cache, temp |-> x, data |-> y]
  BY <1>1, <1>2
<1> QED
  BY <1>2, <1>3 DEF TempOpened

LEMMA MovedFields ==
    ASSUME NEW f, f = [cache |-> f.cache, temp |-> f.temp, data |-> f.data], NEW x, NEW y
    PROVE  [f EXCEPT !.cache = x, !.temp = y] = [cache |-> x, temp |-> y, data |-> f.data]
PROOF
<1>1. DOMAIN f = {"cache", "temp", "data"} /\ f = [k \in {"cache", "temp", "data"} |-> f[k]]
  OBVIOUS
<1>2. PICK u : u = [f EXCEPT !.cache = x, !.temp = y]
  OBVIOUS
<1>3. u = [cache |-> x, temp |-> y, data |-> f.data]
  BY <1>1, <1>2
<1> QED
  BY <1>2, <1>3

LEMMA OpenTempKeeps ==
    ASSUME StageInv, NEW r \in StageRuns, OpenTemp(r)
    PROVE  StageInv'
PROOF
<1> DEFINE s == stageRun[r]
           n == Cardinality(StageRuns) + 2
<1>1. s.pc = "open" /\ UNCHANGED <<predictions, stageManifest, recoveryReport, startedRuns, localized>>
  BY DEF OpenTemp, AtStage
<1>2. TuneIs(tuneFiles) /\ StageProcess(r, s) /\ n \in Nat
  BY CacheIs, StageNumbers DEF StageInv
<1>3. PICK i : i = IF tuneFiles.temp # 0 THEN tuneFiles.temp ELSE FreeInode
  OBVIOUS
<1>4. PICK held : held = [k \in 1..n |-> IF k # i /\ k \in HeldInodes /\ k \in DOMAIN tuneFiles.data
                                         THEN tuneFiles.data[k] ELSE TornCache]
  OBVIOUS
<1>5. PICK t : t = [s EXCEPT !.pc = "fill", !.inode = i]
  OBVIOUS
<1>6. tuneFiles' = [tuneFiles EXCEPT !.temp = i, !.data = held] /\ SetStage(r, t)
  BY <1>3, <1>4, <1>5 DEF OpenTemp
<1>7. i \in Inodes /\ i # 0
  <2>1. CASE tuneFiles.temp # 0
    BY <1>2, <1>3, <2>1 DEF TuneIs
  <2>2. CASE tuneFiles.temp = 0
    <3>1. i \in 1..Cardinality(StageRuns) + 2
      BY <1>3, <2>2, InodeIsFree
    <3> QED
      BY <3>1, StageNumbers DEF Inodes
  <2> QED
    BY <2>1, <2>2
<1>8. TuneIs(tuneFiles')
  <2>1. PICK w : w = [cache |-> tuneFiles.cache, temp |-> i, data |-> held]
    OBVIOUS
  <2>2. tuneFiles' = w
    <3>1. tuneFiles = [cache |-> tuneFiles.cache, temp |-> tuneFiles.temp, data |-> tuneFiles.data]
      BY <1>2 DEF TuneIs
    <3>2. tuneFiles' = TempOpened(tuneFiles, i, held)
      BY <1>6 DEF TempOpened
    <3> QED
      BY <2>1, <3>1, <3>2, TempFields
  <2>3. w.cache = tuneFiles.cache /\ w.temp = i /\ w.data = held
    BY <2>1
  <2>4. tuneFiles.cache \in Inodes
    BY <1>2, StageNumbers DEF TuneIs
  <2>5. \E S : held \in [1..n -> S]
    <3>1. held \in [1..n -> {held[k] : k \in 1..n}]
      BY <1>4
    <3> QED
      BY <3>1
  <2>6. TuneIs(w)
    BY <1>7, <2>1, <2>3, <2>4, <2>5 DEF TuneIs
  <2> QED
    BY <2>2, <2>6
<1> HIDE DEF s
<1>9. Moved(s, t, {"pc", "inode"}) /\ t.pc = "fill" /\ t.inode = i
  <2>1. IsStage(s)
    BY <1>2 DEF StageProcess, StageData
  <2> QED
    BY <1>5, <2>1 DEF IsStage, StageFields, Moved
<1>10. StageData(r, t)
  BY <1>2, <1>7, <1>9 DEF StageProcess, StageData, Moved, StageFields
<1>11. StagePlace(t)
  BY <1>1, <1>2, <1>7, <1>9 DEF StageProcess, StagePlace, StagePlaces, TunePlaces, Moved, StageFields
<1>12. StageFiles(r, s, predictions[r], stageManifest[r])
  BY DEF StageInv, s
<1>13. StageFiles(r, t, predictions[r], stageManifest[r])
  BY <1>1, <1>9, <1>12 DEF StageFiles, TunePlaces, Moved, StageFields
<1>14. recoveryReport' \in [StageRuns -> Reports]
  BY <1>1, ReportsStay
<1> QED
  BY <1>1, <1>6, <1>8, <1>10, <1>11, <1>13, <1>14, StageMoves DEF StageProcess

LEMMA FillTempKeeps ==
    ASSUME StageInv, NEW r \in StageRuns, FillTemp(r)
    PROVE  StageInv'
PROOF
<1> DEFINE s == stageRun[r]
<1>1. s.pc = "fill" /\ UNCHANGED <<predictions, stageManifest, recoveryReport, startedRuns, localized>>
  BY DEF FillTemp, AtStage
<1>2. TuneIs(tuneFiles) /\ StageProcess(r, s)
  BY CacheIs DEF StageInv
<1>3. PICK text : tuneFiles' = [tuneFiles EXCEPT !.data[s.inode] = text]
  BY DEF FillTemp
<1>4. PICK t : t = [s EXCEPT !.pc = "replace", !.inode = 0, !.mine = {}]
  OBVIOUS
<1>5. SetStage(r, t)
  BY <1>4 DEF FillTemp
<1>6. TuneIs(tuneFiles')
  <2>1. PICK data : data = [tuneFiles.data EXCEPT ![s.inode] = text]
    OBVIOUS
  <2>2. PICK w : w = [cache |-> tuneFiles.cache, temp |-> tuneFiles.temp, data |-> data]
    OBVIOUS
  <2>3. tuneFiles' = w
    BY <1>2, <1>3, <2>1, <2>2 DEF TuneIs
  <2>4. w.cache = tuneFiles.cache /\ w.temp = tuneFiles.temp /\ w.data = data
    BY <2>2
  <2>5. tuneFiles.data = <<>> => data = <<>>
    BY <2>1
  <2>6. ASSUME NEW S, tuneFiles.data \in [1..Cardinality(StageRuns) + 2 -> S]
        PROVE  data \in [1..Cardinality(StageRuns) + 2 -> S \cup {text}]
    BY <2>1, <2>6
  <2>7. TuneIs(w)
    BY <1>2, <2>2, <2>4, <2>5, <2>6 DEF TuneIs
  <2> QED
    BY <2>3, <2>7
<1> HIDE DEF s
<1>7. Moved(s, t, {"pc", "inode", "mine"}) /\ t.pc = "replace" /\ t.inode = 0
  <2>1. IsStage(s)
    BY <1>2 DEF StageProcess, StageData
  <2> QED
    BY <1>4, <2>1 DEF IsStage, StageFields, Moved
<1>8. StageData(r, t)
  BY <1>2, <1>7, StageNumbers DEF StageProcess, StageData, Moved, StageFields
<1>9. StagePlace(t)
  BY <1>1, <1>2, <1>7 DEF StageProcess, StagePlace, StagePlaces, TunePlaces, Moved, StageFields
<1>10. StageFiles(r, s, predictions[r], stageManifest[r])
  BY DEF StageInv, s
<1>11. StageFiles(r, t, predictions[r], stageManifest[r])
  BY <1>1, <1>7, <1>10 DEF StageFiles, TunePlaces, Moved, StageFields
<1>12. recoveryReport' \in [StageRuns -> Reports]
  BY <1>1, ReportsStay
<1> QED
  BY <1>1, <1>5, <1>6, <1>8, <1>9, <1>11, <1>12, StageMoves DEF StageProcess

LEMMA ReplaceCacheKeeps ==
    ASSUME StageInv, NEW r \in StageRuns, ReplaceCache(r)
    PROVE  StageInv'
PROOF
<1> DEFINE s == stageRun[r]
<1>1. s.pc = "replace" /\ predictions' = predictions
  BY DEF ReplaceCache, AtStage
<1>2. s.pc \in TunePlaces \ {"fill"}
  BY <1>1 DEF TunePlaces
<1>3. CASE TuneFails(r, "missing-artifact") /\ UNCHANGED tuneFiles
  BY <1>1, <1>2, <1>3, TuneFailsKeeps
<1>4. CASE /\ tuneFiles.temp # 0
           /\ tuneFiles' = [tuneFiles EXCEPT !.cache = tuneFiles.temp, !.temp = 0]
           /\ SetStage(r, Tuned(s))
           /\ UNCHANGED <<recoveryReport, stageManifest, startedRuns, localized, stageCrashes>>
  <2>1. StageProcess(r, Tuned(s)) /\ StageFiles(r, Tuned(s), predictions[r], stageManifest[r])
    BY <1>2, TuningIs, TunedFits
  <2>2. TuneIs(tuneFiles')
    <3>1. PICK w : w = [cache |-> tuneFiles.temp, temp |-> 0, data |-> tuneFiles.data]
      OBVIOUS
    <3>2. TuneIs(tuneFiles)
      BY CacheIs
    <3>3. tuneFiles' = w
      <4>1. tuneFiles = [cache |-> tuneFiles.cache, temp |-> tuneFiles.temp, data |-> tuneFiles.data]
        BY <3>2 DEF TuneIs
      <4> QED
        BY <1>4, <3>1, <4>1, MovedFields
    <3>4. w.cache = tuneFiles.temp /\ w.temp = 0 /\ w.data = tuneFiles.data
      BY <3>1
    <3>5. TuneIs(w)
      BY <1>4, <3>1, <3>2, <3>4, StageNumbers DEF TuneIs
    <3> QED
      BY <3>3, <3>5
  <2>3. recoveryReport' \in [StageRuns -> Reports]
    BY <1>4, ReportsStay
  <2> QED
    BY <1>1, <1>4, <2>1, <2>2, <2>3, StageMoves
<1> QED
  BY <1>3, <1>4 DEF ReplaceCache

LEMMA RankPlanKeeps ==
    ASSUME StageInv, NEW r \in StageRuns, RankPlan(r)
    PROVE  StageInv'
PROOF
<1> DEFINE s == stageRun[r]
<1>1. /\ s.pc = "rank" /\ stageManifest[r].status = "none"
      /\ UNCHANGED <<predictions, stageManifest, recoveryReport, tuneFiles, startedRuns, localized>>
  BY NoManifestYet DEF RankPlan, AtStage
<1>2. StageProcess(r, s) /\ s.tuning = "search"
  BY <1>1 DEF StageInv, StageProcess, StagePlace
<1>3. PICK kept : kept = NextCandidate(s, StagePlans[r])
  OBVIOUS
<1>4. PICK taken : taken = [kept EXCEPT !.best = s.plan, !.got = s.batch]
  OBVIOUS
<1>5. SetStage(r, kept) \/ SetStage(r, taken)
  BY <1>3, <1>4 DEF RankPlan
<1>6. StageProcess(r, kept) /\ kept.pc \in {"candidate", "chosen"}
  BY <1>1, <1>2, <1>3, NextFits
<1>7. recoveryReport' \in [StageRuns -> Reports] /\ TuneIs(tuneFiles')
  BY <1>1, ReportsStay, CacheIs
<1>8. Moved(kept, taken, {"best", "got"}) /\ taken.best = s.plan /\ taken.got = s.batch
  <2>1. IsStage(kept)
    BY <1>6 DEF StageProcess, StageData
  <2> HIDE DEF s
  <2> QED
    BY <1>4, <2>1 DEF IsStage, StageFields, Moved
<1> HIDE DEF s
<1>9. StageData(r, taken)
  BY <1>2, <1>6, <1>8 DEF StageProcess, StageData, Moved, StageFields
<1>10. StagePlace(taken)
  BY <1>6, <1>8 DEF StageProcess, StagePlace, Moved, StageFields
<1>11. taken.pc = kept.pc
  BY <1>8 DEF Moved, StageFields
<1>12. /\ StageFiles(r, kept, predictions[r], stageManifest[r])
       /\ StageFiles(r, taken, predictions[r], stageManifest[r])
  BY <1>1, <1>6, <1>11, FilesFit
<1> QED
  BY <1>1, <1>5, <1>6, <1>7, <1>9, <1>10, <1>12, StageMoves DEF StageProcess

LEMMA ChoosePlanKeeps ==
    ASSUME StageInv, NEW r \in StageRuns, ChoosePlan(r)
    PROVE  StageInv'
PROOF
<1> DEFINE s == stageRun[r]
           plans == StagePlans[r]
           rest == UNCHANGED <<recoveryReport, stageManifest, startedRuns, localized, stageCrashes>>
<1>1. s.pc = "chosen" /\ stageManifest[r].status = "none" /\ tuneFiles' = tuneFiles
  BY NoManifestYet DEF ChoosePlan, AtStage
<1>2. StageProcess(r, s)
  BY DEF StageInv
<1>3. StageData(r, s) /\ s.counted = 0 /\ s.inode = 0 /\ s.got \in Nat /\ s.best \in 0..Len(plans)
  BY <1>1, <1>2 DEF StageProcess, StagePlace, StageData
<1>4. Len(plans) \in Nat \ {0} /\ 1 \in 1..Len(plans)
  BY StageNumbers
<1>5. CASE s.best # 0 /\ StartsPredicting(r, [WithBatch(WithPlan(s, plans, s.best), s.got) EXCEPT !.got = 0]) /\ rest
  <2>1. PICK u : u = WithPlan(s, plans, s.best)
    OBVIOUS
  <2>2. PICK v : v = WithBatch(u, s.got)
    OBVIOUS
  <2>3. PICK w : w = [v EXCEPT !.got = 0]
    OBVIOUS
  <2>4. StartsPredicting(r, w)
    BY <1>5, <2>1, <2>2, <2>3
  <2> HIDE DEF s
  <2>5. StageData(r, u) /\ Moved(s, u, {"plan", "ladder", "rung", "batch"})
    <3>1. s.best \in 1..Len(plans)
      BY <1>3, <1>4, <1>5
    <3> QED
      BY <1>3, <2>1, <3>1, PlanFits
  <2>6. StageData(r, v) /\ v.rung <= Len(v.ladder) /\ Moved(u, v, {"batch", "ladder", "rung"})
    BY <1>3, <2>2, <2>5, BatchFits
  <2>7. Moved(v, w, {"got"}) /\ w.got = 0
    <3>1. IsStage(v)
      BY <2>6 DEF StageData
    <3> QED
      BY <2>3, <3>1 DEF IsStage, StageFields, Moved
  <2>8. StageData(r, w)
    BY <2>6, <2>7 DEF StageData, Moved, StageFields
  <2>9. w.rung <= Len(w.ladder) /\ w.counted = 0 /\ w.inode = 0
    BY <1>3, <2>5, <2>6, <2>7 DEF Moved, StageFields
  <2> QED
    BY <1>1, <1>5, <2>4, <2>8, <2>9, StartsPredictingKeeps
<1>6. CASE StartsPredicting(r, WithPlan(s, plans, 1)) /\ rest
  <2>1. PICK u : u = WithPlan(s, plans, 1)
    OBVIOUS
  <2>2. StartsPredicting(r, u)
    BY <1>6, <2>1
  <2>3. StageData(r, u) /\ u.rung <= Len(u.ladder) /\ Moved(s, u, {"plan", "ladder", "rung", "batch"})
    BY <1>3, <1>4, <2>1, PlanFits
  <2>4. u.counted = 0 /\ u.inode = 0
    <3> HIDE DEF s
    <3> QED
      BY <1>3, <2>3 DEF Moved, StageFields
  <2> QED
    BY <1>1, <1>6, <2>2, <2>3, <2>4, StartsPredictingKeeps
<1>7. CASE RaiseStage(r, "unexpected-error") /\ predictions' = predictions
  <2>1. TuneIs(tuneFiles')
    BY <1>1, CacheIs
  <2> QED
    BY <1>1, <1>7, <2>1, RaiseStageKeeps
<1> QED
  BY <1>5, <1>6, <1>7 DEF ChoosePlan

\* What is predicted next is appended to the predictions of the first examples.
LEMMA PrefixGrows ==
    ASSUME NEW p, ArePrefix(p), NEW n \in Nat, Len(p) + n <= Len(StageExamples)
    PROVE  /\ ArePrefix(p \o SubSeq(StageExamples, Len(p) + 1, Len(p) + n))
           /\ Len(p \o SubSeq(StageExamples, Len(p) + 1, Len(p) + n)) = Len(p) + n
PROOF
<1> DEFINE E == StageExamples
<1>1. PICK S : E \in Seq(S)
  BY ExamplesAre
<1>2. PICK k : k = Len(p)
  OBVIOUS
<1>3. k \in Nat /\ Len(E) \in Nat /\ k + n \in Nat /\ k + n <= Len(E) /\ p = SubSeq(E, 1, k)
  BY <1>2, StageNumbers DEF ArePrefix
<1> HIDE DEF E
<1>4. /\ p \in Seq(S) /\ Len(p) = k
      /\ \A i \in 1..k : p[i] = E[i]
  BY <1>1, <1>3
<1>5. PICK q : q = SubSeq(E, k + 1, k + n)
  OBVIOUS
<1>6. q \in Seq(S) /\ Len(q) = n /\ \A i \in 1..n : q[i] = E[k + i]
  <2>1. q = [i \in 1..n |-> E[k + i]]
    <3>1. (k + n) - (k + 1) + 1 = n /\ \A i \in 1..n : (k + 1) + i - 1 = k + i
      BY <1>3
    <3> QED
      BY <1>1, <1>3, <1>5, <3>1
  <2>2. \A i \in 1..n : E[k + i] \in S
    <3>1. \A i \in 1..n : k + i \in 1..Len(E)
      BY <1>3
    <3> QED
      BY <1>1, <3>1
  <2>3. q \in [1..n -> S]
    BY <2>1, <2>2
  <2> QED
    BY <2>1, <2>3
<1>7. PICK z : z = p \o q
  OBVIOUS
<1>8. z \in Seq(S) /\ Len(z) = k + n /\ \A i \in 1..k + n : z[i] = E[i]
  <2>1. z \in Seq(S) /\ Len(z) = k + n
    BY <1>3, <1>4, <1>6, <1>7
  <2>2. ASSUME NEW i \in 1..k + n
        PROVE  z[i] = E[i]
    <3>1. CASE i <= k
      BY <1>3, <1>4, <1>6, <1>7, <3>1
    <3>2. CASE i > k
      <4>1. i - k \in 1..n /\ k + (i - k) = i
        BY <1>3, <3>2
      <4>2. z[i] = q[i - k]
        BY <1>3, <1>4, <1>6, <1>7, <3>2
      <4> QED
        BY <1>6, <4>1, <4>2
    <3> QED
      BY <1>3, <3>1, <3>2
  <2> QED
    BY <2>1, <2>2
<1>9. PICK y : y = SubSeq(E, 1, k + n)
  OBVIOUS
<1>10. y \in Seq(S) /\ Len(y) = k + n /\ \A i \in 1..k + n : y[i] = E[i]
  BY <1>1, <1>3, <1>9
<1>11. z = y
  BY <1>3, <1>8, <1>10
<1>12. ArePrefix(z)
  BY <1>3, <1>8, <1>9, <1>11 DEF ArePrefix, E
<1> QED
  BY <1>2, <1>5, <1>7, <1>8, <1>12 DEF E

\* While the run predicts, the file holds the first examples.
LEMMA WhilePredicting ==
    ASSUME StageInv, NEW r \in StageRuns, stageRun[r].pc = "predict"
    PROVE  /\ StageProcess(r, stageRun[r]) /\ ArePrefix(predictions[r]) /\ stageManifest[r].status = "none"
           /\ stageRun[r].counted = Len(predictions[r]) /\ Len(predictions[r]) \in 0..Len(StageExamples)
           /\ ChunkSize(r) \in Nat /\ Len(predictions[r]) + ChunkSize(r) <= Len(StageExamples)
PROOF
<1>1. StageProcess(r, stageRun[r]) /\ StageFiles(r, stageRun[r], predictions[r], stageManifest[r])
  BY DEF StageInv
<1>2. ArePrefix(predictions[r]) /\ stageRun[r].counted = Len(predictions[r])
  BY <1>1 DEF StageFiles
<1>3. stageManifest[r].status = "none"
  BY NoManifestYet
<1>4. Len(predictions[r]) \in 0..Len(StageExamples) /\ Len(StageExamples) \in Nat
  BY <1>2, StageNumbers DEF ArePrefix
<1>5. stageRun[r].batch \in Nat
  BY <1>1 DEF StageProcess, StageData
<1>6. ChunkSize(r) \in Nat /\ Len(predictions[r]) + ChunkSize(r) <= Len(StageExamples)
  BY <1>4, <1>5 DEF ChunkSize, WrittenExamples
<1> QED
  BY <1>1, <1>2, <1>3, <1>4, <1>6

\* A step of the prediction loop: the process goes on and the file grows or stays.
LEMMA PredictsOn ==
    ASSUME StageInv, NEW r \in StageRuns, stageRun[r].pc = "predict", NEW t, NEW p,
           Moved(stageRun[r], t, {"got", "counted", "batch", "rung"}),
           t.got \in Nat, t.batch \in Nat, t.rung \in Nat \ {0}, t.rung <= Len(stageRun[r].ladder),
           ArePrefix(p), t.counted = Len(p), SetStage(r, t),
           predictions' = [predictions EXCEPT ![r] = p],
           UNCHANGED <<stageManifest, recoveryReport, tuneFiles, startedRuns, localized>>
    PROVE  StageInv'
PROOF
<1> DEFINE s == stageRun[r]
<1>0. /\ stageRun = [q \in StageRuns |-> stageRun[q]] /\ predictions = [q \in StageRuns |-> predictions[q]]
      /\ stageManifest = [q \in StageRuns |-> stageManifest[q]] /\ recoveryReport \in [StageRuns -> Reports]
      /\ TuneIs(tuneFiles)
  BY DEF StageInv, StageGlobals
<1>1. StageProcess(r, s) /\ stageManifest[r].status = "none"
  BY WhilePredicting
<1>2. PICK m : m = stageManifest[r]
  OBVIOUS
<1>3. /\ IsAt(StageRuns, stageRun, stageRun', r, t) /\ IsAt(StageRuns, predictions, predictions', r, p)
      /\ IsAt(StageRuns, stageManifest, stageManifest', r, m)
  BY <1>0, <1>2, PutAt DEF SetStage
<1>4. s.pc = "predict" /\ t.rung <= Len(s.ladder) /\ Moved(s, t, {"got", "counted", "batch", "rung"})
  OBVIOUS
<1> HIDE DEF s
<1>5. t.pc = "predict" /\ t.ladder = s.ladder
  BY <1>4 DEF Moved, StageFields
<1>6. StageData(r, t)
  BY <1>1, <1>4 DEF StageProcess, StageData, Moved, StageFields
<1>7. StagePlace(t)
  BY <1>1, <1>4, <1>5 DEF StageProcess, StagePlace, StagePlaces, TunePlaces, Moved, StageFields
<1>8. StageFiles(r, t, p, m)
  BY <1>1, <1>2, <1>5 DEF StageFiles, TunePlaces
<1> QED
  BY <1>0, <1>3, <1>6, <1>7, <1>8, StageStepIs DEF StageProcess

LEMMA PredictBatchKeeps ==
    ASSUME StageInv, NEW r \in StageRuns, PredictBatch(r)
    PROVE  StageInv'
PROOF
<1> DEFINE s == stageRun[r]
           c == ChunkSize(r)
<1>1. s.pc = "predict" /\ UNCHANGED <<stageManifest, recoveryReport, tuneFiles, startedRuns, localized>>
  BY DEF PredictBatch, AtStage
<1>2. /\ StageProcess(r, s) /\ ArePrefix(predictions[r]) /\ s.counted = Len(predictions[r])
      /\ Len(predictions[r]) \in 0..Len(StageExamples) /\ c \in Nat /\ Len(predictions[r]) + c <= Len(StageExamples)
      /\ Len(StageExamples) \in Nat
  BY <1>1, WhilePredicting, StageNumbers
<1>3. PICK step : step = IF s.backend = "mock" THEN c ELSE s.ladder[s.rung]
  OBVIOUS
<1>4. PICK got : got = IF s.got + step < c THEN s.got + step ELSE c
  OBVIOUS
<1>5. PICK batch : batch = IF s.backend = "mock" \/ s.batch < step THEN s.batch ELSE step
  OBVIOUS
<1>6. \/ SetStage(r, [s EXCEPT !.got = got]) /\ predictions' = predictions
      \/ /\ AppendPredictions(r, c)
         /\ SetStage(r, [s EXCEPT !.got = 0, !.counted = s.counted + c, !.batch = batch])
  BY <1>3, <1>4, <1>5 DEF PredictBatch
<1>7. predictions = [q \in StageRuns |-> predictions[q]]
  BY DEF StageInv, StageGlobals
<1>8. AppendPredictions(r, c) =>
        predictions' = [predictions EXCEPT
           ![r] = predictions[r] \o SubSeq(StageExamples, Len(predictions[r]) + 1, Len(predictions[r]) + c)]
  BY DEF AppendPredictions, WrittenExamples
<1> HIDE DEF s, c
<1>9. /\ IsStage(s) /\ s.got \in Nat /\ s.batch \in Nat /\ s.rung \in Nat \ {0} /\ s.rung <= Len(s.ladder)
      /\ s.ladder \in Seq(Nat)
  BY <1>1, <1>2 DEF StageProcess, StageData, StagePlace
<1>10. step \in Nat
  <2>1. s.ladder[s.rung] \in Nat
    BY <1>9
  <2> QED
    BY <1>2, <1>3, <2>1
<1>11. got \in Nat /\ batch \in Nat
  BY <1>2, <1>4, <1>5, <1>9, <1>10
<1>12. CASE SetStage(r, [s EXCEPT !.got = got]) /\ predictions' = predictions
  <2>1. PICK t : t = [s EXCEPT !.got = got]
    OBVIOUS
  <2>2. Moved(s, t, {"got"}) /\ t.got = got
    BY <1>9, <2>1 DEF IsStage, StageFields, Moved
  <2>3. /\ Moved(s, t, {"got", "counted", "batch", "rung"}) /\ t.batch = s.batch /\ t.rung = s.rung
        /\ t.counted = s.counted
    BY <2>2 DEF Moved, StageFields
  <2>4. predictions' = [predictions EXCEPT ![r] = predictions[r]]
    BY <1>7, <1>12
  <2>5. SetStage(r, t)
    BY <1>12, <2>1
  <2> QED
    BY <1>1, <1>2, <1>9, <1>11, <2>2, <2>3, <2>4, <2>5, PredictsOn DEF s
<1>13. CASE /\ AppendPredictions(r, c)
            /\ SetStage(r, [s EXCEPT !.got = 0, !.counted = s.counted + c, !.batch = batch])
  <2>1. PICK t : t = [s EXCEPT !.got = 0, !.counted = s.counted + c, !.batch = batch]
    OBVIOUS
  <2>2. PICK p : p = predictions[r] \o SubSeq(StageExamples, Len(predictions[r]) + 1, Len(predictions[r]) + c)
    OBVIOUS
  <2>3. ArePrefix(p) /\ Len(p) = s.counted + c
    BY <1>2, <2>2, PrefixGrows
  <2>4. Moved(s, t, {"got", "counted", "batch"}) /\ t.got = 0 /\ t.counted = s.counted + c /\ t.batch = batch
    BY <1>9, <2>1 DEF IsStage, StageFields, Moved
  <2>5. Moved(s, t, {"got", "counted", "batch", "rung"}) /\ t.rung = s.rung
    BY <2>4 DEF Moved, StageFields
  <2>6. predictions' = [predictions EXCEPT ![r] = p]
    BY <1>8, <1>13, <2>2
  <2>7. SetStage(r, t)
    BY <1>13, <2>1
  <2>8. /\ t.counted = Len(p) /\ t.got \in Nat /\ t.batch \in Nat /\ t.rung \in Nat \ {0}
        /\ t.rung <= Len(s.ladder)
    BY <1>9, <1>11, <2>3, <2>4, <2>5
  <2> QED
    BY <1>1, <2>3, <2>5, <2>6, <2>7, <2>8, PredictsOn DEF s
<1> QED
  BY <1>6, <1>12, <1>13

LEMMA OutOfMemoryKeeps ==
    ASSUME StageInv, NEW r \in StageRuns, OutOfMemory(r)
    PROVE  StageInv'
PROOF
<1> DEFINE s == stageRun[r]
<1>1. s.pc = "predict" /\ predictions' = predictions /\ tuneFiles' = tuneFiles
  BY DEF OutOfMemory, AtStage
<1>2. /\ StageProcess(r, s) /\ ArePrefix(predictions[r]) /\ s.counted = Len(predictions[r])
      /\ stageManifest[r].status = "none"
  BY <1>1, WhilePredicting
<1>3. CASE /\ s.rung < Len(s.ladder) /\ SetStage(r, LowerRung(s))
           /\ UNCHANGED <<recoveryReport, stageManifest, startedRuns, localized, stageCrashes>>
  <2>1. PICK t : t = LowerRung(s)
    OBVIOUS
  <2>2. SetStage(r, t)
    BY <1>3, <2>1
  <2>3. predictions = [q \in StageRuns |-> predictions[q]]
    BY DEF StageInv, StageGlobals
  <2>4. predictions' = [predictions EXCEPT ![r] = predictions[r]]
    BY <1>1, <2>3
  <2> HIDE DEF s
  <2>5. IsStage(s) /\ s.got \in Nat /\ s.batch \in Nat /\ s.rung \in Nat \ {0} /\ s.ladder \in Seq(Nat)
    BY <1>2 DEF StageProcess, StageData
  <2>6. Moved(s, t, {"rung"}) /\ t.rung = s.rung + 1
    BY <2>1, <2>5 DEF LowerRung, IsStage, StageFields, Moved
  <2>7. /\ Moved(s, t, {"got", "counted", "batch", "rung"}) /\ t.batch = s.batch /\ t.got = s.got
        /\ t.counted = s.counted
    BY <2>6 DEF Moved, StageFields
  <2>8. t.rung \in Nat \ {0} /\ t.rung <= Len(s.ladder)
    BY <1>3, <2>5, <2>6
  <2> QED
    BY <1>1, <1>2, <1>3, <2>2, <2>4, <2>5, <2>7, <2>8, PredictsOn DEF s
<1>4. CASE RaiseStage(r, "unexpected-error")
  <2>1. TuneIs(tuneFiles')
    BY <1>1, CacheIs
  <2> QED
    BY <1>1, <1>2, <1>4, <2>1, RaiseStageKeeps
<1> QED
  BY <1>3, <1>4 DEF OutOfMemory

LEMMA AdapterRaisesKeeps ==
    ASSUME StageInv, NEW r \in StageRuns, AdapterRaises(r)
    PROVE  StageInv'
PROOF
<1>1. stageRun[r].pc = "predict" /\ tuneFiles' = tuneFiles
  BY DEF AdapterRaises, AtStage
<1>2. PICK p : predictions' = [predictions EXCEPT ![r] = p]
  BY DEF AdapterRaises, AppendPredictions
<1>3. PICK e \in {"unexpected-error", "config-error"} : RaiseStage(r, e)
  BY DEF AdapterRaises
<1>4. TuneIs(tuneFiles') /\ stageManifest[r].status = "none"
  BY <1>1, CacheIs, WhilePredicting
<1> QED
  BY <1>2, <1>3, <1>4, RaiseStageKeeps

LEMMA FinishStageKeeps ==
    ASSUME StageInv, NEW r \in StageRuns, FinishStage(r)
    PROVE  StageInv'
PROOF
<1> DEFINE s == stageRun[r]
           p == predictions[r]
<1>0. /\ stageRun = [q \in StageRuns |-> stageRun[q]] /\ predictions = [q \in StageRuns |-> predictions[q]]
      /\ stageManifest = [q \in StageRuns |-> stageManifest[q]] /\ recoveryReport \in [StageRuns -> Reports]
      /\ TuneIs(tuneFiles)
  BY DEF StageInv, StageGlobals
<1>1. PICK m : m = [status |-> "completed", backend |-> s.backend, counted |-> s.counted]
  OBVIOUS
<1>2. PICK t : t = [s EXCEPT !.pc = "report"]
  OBVIOUS
<1>3. /\ stageManifest' = [stageManifest EXCEPT ![r] = m] /\ stageRun' = [stageRun EXCEPT ![r] = t]
      /\ UNCHANGED <<predictions, recoveryReport, tuneFiles, startedRuns, localized>>
      /\ s.pc = "predict" /\ Len(p) >= Len(StageExamples)
  BY <1>1, <1>2 DEF FinishStage, SetStage, AtStage, WrittenExamples
<1>4. StageProcess(r, s) /\ ArePrefix(p) /\ s.counted = Len(p) /\ Len(p) \in 0..Len(StageExamples)
  BY <1>3, WhilePredicting
<1>5. /\ IsAt(StageRuns, stageRun, stageRun', r, t) /\ IsAt(StageRuns, predictions, predictions', r, p)
      /\ IsAt(StageRuns, stageManifest, stageManifest', r, m)
  BY <1>0, <1>3, PutAt
<1>6. Len(p) = Len(StageExamples) /\ p = StageExamples
  <2>1. Len(p) = Len(StageExamples) /\ p = SubSeq(StageExamples, 1, Len(StageExamples))
    BY <1>3, <1>4, StageNumbers DEF ArePrefix
  <2>2. PICK S : StageExamples \in Seq(S)
    BY ExamplesAre
  <2>3. SubSeq(StageExamples, 1, Len(StageExamples)) = StageExamples
    BY <2>2
  <2> QED
    BY <2>1, <2>3
<1> HIDE DEF s
<1>7. StageProcess(r, t) /\ Moved(s, t, {"pc"}) /\ t.pc = "report"
  <2>1. "report" \in StagePlaces \ {"idle", "build", "fill"} /\ "report" \notin {"candidate", "rank"} \cup TunePlaces
    BY DEF StagePlaces, TunePlaces
  <2> QED
    BY <1>2, <1>3, <1>4, <2>1, GoFits
<1>8. m.status = "completed" /\ m.backend = s.backend /\ m.counted = Len(StageExamples)
  BY <1>1, <1>4, <1>6
<1>9. StageFiles(r, t, p, m)
  BY <1>4, <1>6, <1>7, <1>8 DEF StageFiles, StageProcess, StageData, TunePlaces
<1>10. recoveryReport' \in [StageRuns -> Reports] /\ TuneIs(tuneFiles')
  BY <1>0, <1>3
<1> QED
  BY <1>3, <1>5, <1>7, <1>9, <1>10, StageStepIs

LEMMA StageNextHolds == StageInv /\ [StageNext]_stageVars => StageInv'
PROOF
<1> SUFFICES ASSUME StageInv, [StageNext]_stageVars PROVE StageInv'
  OBVIOUS
<1>1. ASSUME UNCHANGED <<stageRun, predictions, stageManifest, recoveryReport, tuneFiles, startedRuns>>,
             localized' \in BOOLEAN
      PROVE  StageInv'
  <2>1. StageGlobals'
    BY <1>1 DEF StageInv, StageGlobals, TuneIs
  <2>2. ASSUME NEW r \in StageRuns
        PROVE  StageProcess(r, stageRun[r])' /\ StageFiles(r, stageRun[r], predictions[r], stageManifest[r])'
    <3>1. StageProcess(r, stageRun[r]) /\ StageFiles(r, stageRun[r], predictions[r], stageManifest[r])
      BY DEF StageInv
    <3> QED
      BY <1>1, <3>1 DEF StageProcess, StageData, StagePlace, StageFiles
  <2> QED
    BY <2>1, <2>2 DEF StageInv
<1>2. CASE UNCHANGED stageVars
  <2>1. localized \in BOOLEAN
    BY DEF StageInv, StageGlobals
  <2> QED
    BY <1>1, <1>2, <2>1 DEF stageVars
<1>3. CASE LocalizeEvidence
  BY <1>1, <1>3 DEF LocalizeEvidence
<1>4. ASSUME NEW r \in StageRuns, ResumeStage(r) \/ StartStage(r) \/ StageStep(r) \/ StageDies(r)
      PROVE  StageInv'
  <2>1. CASE ResumeStage(r) \/ ReportStage(r)
    BY <2>1, ResumeStageKeeps
  <2>2. CASE StartStage(r)
    BY <2>2, StartStageKeeps
  <2>3. CASE StageDies(r)
    BY <2>3, StageDiesKeeps
  <2>4. CASE BlockStage(r)
    BY <2>4, BlockStageKeeps
  <2>5. CASE SetupFails(r) \/ BuildFails(r) \/ MetricsRaise(r)
    BY <2>5, SetupFailsKeeps
  <2>6. CASE BuildBase(r)
    BY <2>6, BuildBaseKeeps
  <2>7. CASE BuildCandidate(r)
    BY <2>7, BuildCandidateKeeps
  <2>8. CASE LookUp(r)
    BY <2>8, LookUpKeeps
  <2>9. CASE ProbeBatch(r)
    BY <2>9, ProbeBatchKeeps
  <2>10. CASE OpenTemp(r)
    BY <2>10, OpenTempKeeps
  <2>11. CASE FillTemp(r)
    BY <2>11, FillTempKeeps
  <2>12. CASE ReplaceCache(r)
    BY <2>12, ReplaceCacheKeeps
  <2>13. CASE RankPlan(r)
    BY <2>13, RankPlanKeeps
  <2>14. CASE ChoosePlan(r)
    BY <2>14, ChoosePlanKeeps
  <2>15. CASE PredictBatch(r)
    BY <2>15, PredictBatchKeeps
  <2>16. CASE OutOfMemory(r)
    BY <2>16, OutOfMemoryKeeps
  <2>17. CASE AdapterRaises(r)
    BY <2>17, AdapterRaisesKeeps
  <2>18. CASE FinishStage(r)
    BY <2>18, FinishStageKeeps
  <2> QED
    BY <1>4, <2>1, <2>2, <2>3, <2>4, <2>5, <2>6, <2>7, <2>8, <2>9, <2>10, <2>11, <2>12, <2>13, <2>14, <2>15,
       <2>16, <2>17, <2>18 DEF StageStep
<1>5. QED
  BY <1>2, <1>3, <1>4 DEF StageNext

(* A completed manifest stands beside the predictions of every example,    *)
(* once each and in the order of the dataset, with the count it states,    *)
(* whatever was lowered, raised, tuned or crashed before; the mock backend *)
(* answers for it only when there is one plan and it could not be built    *)
(* (stage_kernels._run_predictions, runtime_recovery).                     *)
THEOREM StageResultsStand == StageSpec => []StageResultsHold
PROOF
<1>1. StageInv => StageResultsHold
  <2> SUFFICES ASSUME StageInv, NEW r \in StageRuns, stageManifest[r].status = "completed"
               PROVE  /\ predictions[r] = StageExamples
                      /\ stageManifest[r].counted = Len(StageExamples)
                      /\ stageManifest[r].backend = "mock" => Len(StagePlans[r]) = 1
    BY DEF StageResultsHold
  <2>1. StageFiles(r, stageRun[r], predictions[r], stageManifest[r])
    BY DEF StageInv
  <2> QED
    BY <2>1 DEF StageFiles
<1> QED
  BY <1>1, StageInitHolds, StageNextHolds, PTL DEF StageSpec

\* The fields of the stage runs keep to their values.
LEMMA StageTypeCorrect == StageSpec => []StageTypeOK
PROOF
<1>1. StageInv => StageTypeOK
  <2> SUFFICES ASSUME StageInv PROVE StageTypeOK
    OBVIOUS
  <2>1. \A r \in StageRuns : stageRun[r].backend \in StageBackends /\ stageRun[r].attempt \in 0..MaxAttempts + 1
    BY DEF StageInv, StageProcess, StageData
  <2>2. \A r \in StageRuns : stageManifest[r].status \in {"none", "completed", "blocked"}
    BY DEF StageInv, StageFiles
  <2>3. \A r \in StageRuns : recoveryReport[r] \in Reports
    BY ReportsStay
  <2>4. tuneFiles.cache \in 0..Len(tuneFiles.data) /\ tuneFiles.temp \in 0..Len(tuneFiles.data)
    <3>1. TuneIs(tuneFiles) /\ Cardinality(StageRuns) \in Nat
      BY CacheIs, StageNumbers
    <3>2. CASE tuneFiles.cache = 0 /\ tuneFiles.temp = 0 /\ tuneFiles.data = <<>>
      <4>1. Len(<<>>) = 0
        OBVIOUS
      <4> QED
        BY <3>2, <4>1
    <3>3. ASSUME tuneFiles.cache \in Inodes, tuneFiles.temp \in Inodes, NEW S,
                 tuneFiles.data \in [1..Cardinality(StageRuns) + 2 -> S]
          PROVE  tuneFiles.cache \in 0..Len(tuneFiles.data) /\ tuneFiles.temp \in 0..Len(tuneFiles.data)
      <4>1. PICK n, d : n = Cardinality(StageRuns) + 2 /\ d = tuneFiles.data
        OBVIOUS
      <4>2. n \in Nat /\ d \in [1..n -> S]
        BY <3>1, <3>3, <4>1
      <4>3. Len(d) = n
        BY <4>2
      <4> QED
        BY <3>3, <4>1, <4>3 DEF Inodes
    <3> QED
      BY <3>1, <3>2, <3>3 DEF TuneIs
  <2>5. startedRuns \in Together /\ localized \in BOOLEAN
    BY DEF StageInv, StageGlobals
  <2> QED
    BY <2>1, <2>2, <2>3, <2>4, <2>5 DEF StageTypeOK, Reports
<1> QED
  BY <1>1, StageInitHolds, StageNextHolds, PTL DEF StageSpec


----------------------------------------------------------------------------
(* The composition: a behaviour of all eight is one of each, in which the  *)
(* steps of the others are stuttering steps.                               *)

LEMMA ResearchBehaviours ==
    ResearchSpec => /\ ReleaseSpec /\ MemorySpec /\ StageSpec /\ SweepSpec
                    /\ TrainingSpec /\ GateSpec /\ CorrectionSpec /\ AcceptanceSpec
PROOF
<1>1. ResearchInit => /\ ReleaseInit /\ MemoryInit /\ StageInit /\ SweepInit
                      /\ TrainingInit /\ GateInit /\ CorrectionInit /\ AcceptanceInit
  BY DEF ResearchInit
<1>2. [ResearchNext]_researchVars => [ReleaseNext]_releaseVars
  BY DEF ResearchNext, researchVars
<1>3. [ResearchNext]_researchVars => [MemoryNext]_memoryVars
  BY DEF ResearchNext, researchVars
<1>4. [ResearchNext]_researchVars => [StageNext]_stageVars
  BY DEF ResearchNext, researchVars
<1>5. [ResearchNext]_researchVars => [SweepNext]_sweepVars
  BY DEF ResearchNext, researchVars
<1>6. [ResearchNext]_researchVars => [TrainingNext]_trainingVars
  BY DEF ResearchNext, researchVars
<1>7. [ResearchNext]_researchVars => [GateNext]_gateVars
  BY DEF ResearchNext, researchVars
<1>8. [ResearchNext]_researchVars => [CorrectionNext]_correctionVars
  BY DEF ResearchNext, researchVars
<1>9. [ResearchNext]_researchVars => [AcceptanceNext]_acceptanceVars
  BY DEF ResearchNext, researchVars
<1> QED
  BY <1>1, <1>2, <1>3, <1>4, <1>5, <1>6, <1>7, <1>8, <1>9, PTL
  DEF ResearchSpec, ReleaseSpec, MemorySpec, StageSpec, SweepSpec, TrainingSpec, GateSpec,
      CorrectionSpec, AcceptanceSpec

\* Whichever component of the research a behaviour is about, what it keeps stays well typed.
THEOREM ResearchTypeCorrect == ResearchSpec => []ResearchTypeOK
PROOF
<1>1. ReleaseTypeOK /\ MemoryTypeOK /\ StageTypeOK /\ SweepTypeOK /\ TrainingTypeOK /\ GateTypeOK
        /\ CorrectionTypeOK /\ AcceptanceTypeOK => ResearchTypeOK
  BY DEF ResearchTypeOK
<1>2. ReleaseSpec => []ReleaseTypeOK
  BY ReleaseInvariance, ReleaseTypesImply, PTL
<1>3. MemorySpec => []MemoryTypeOK
  BY MemoryInvariance, MemoryTypesImply, PTL
<1> QED
  BY <1>1, <1>2, <1>3, ResearchBehaviours, StageTypeCorrect, SweepTypeCorrect, TrainingTypeCorrect,
     GateTypeCorrect, CorrectionTypeCorrect, AcceptanceTypeCorrect, PTL
=============================================================================
