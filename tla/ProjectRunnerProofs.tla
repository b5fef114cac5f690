------------------------- MODULE ProjectRunnerProofs -------------------------
(***************************************************************************)
(* ProjectRunner for any limits and any number of interventions: types,    *)
(* the bound on the limit, and that no open request of its own is run over.*)
(***************************************************************************)
EXTENDS ProjectRunner, TLAPS

\* What the runner decides on: a request that was open when its pass ended, and
\* still is, is in the snapshot.
RunnerInv ==
    /\ RunnerTypeOK
    /\ rpc = "decide" /\ inbox = "own" => seen.request

LEMMA LeastMost ==
    ASSUME NEW a \in Nat, NEW b \in Nat
    PROVE  /\ Least(a, b) \in 0..b
           /\ Most(a, b) \in Nat
PROOF
  BY DEF Least, Most

LEMMA RunnerInitInv == RunnerInit => RunnerInv
PROOF
  BY RunnerAssumption DEF RunnerInit, RunnerInv, RunnerTypeOK, Idle, Stop, Verdicts, Nothing

\* A pass that ends leaves typed files and a typed result.
LEMMA PassType ==
    ASSUME NEW status \in Stop, NEW n \in Nat, PassEndsWith(status, n, "own")
    PROVE  /\ lifecycle' \in Idle \cup {"running"}
           /\ counted' \in Nat /\ inbox' \in {"none", "own", "other"}
           /\ latest' \in [status : Stop, iterations : Nat]
PROOF
  BY DEF PassEndsWith, Stop, Idle

LEMMA RunnerPassInv == ASSUME RunnerInv, RunnerPass PROVE RunnerInv'
PROOF
<1>1. /\ lifecycle' \in Idle \cup {"running"} /\ soft' \in BOOLEAN
      /\ counted' \in Nat /\ inbox' \in {"none", "own", "other"}
      /\ latest' \in [status : Stop, iterations : Nat]
  <2>1. CASE PassEndsWith("completed", counted, "own") /\ UNCHANGED soft
    BY <2>1, PassType DEF RunnerInv, RunnerTypeOK, Stop
  <2>2. CASE PassEndsWith("max-iterations", counted, "own") /\ UNCHANGED soft
    BY <2>2, PassType DEF RunnerInv, RunnerTypeOK, Stop
  <2>4. CASE ReturnStored /\ UNCHANGED soft
    BY <2>4 DEF ReturnStored, RunnerInv, RunnerTypeOK, Stop, Idle
  <2>3. CASE /\ \E n \in counted + 1 .. limit, status \in Stop : PassEndsWith(status, n, "own")
             /\ soft' \in {soft, TRUE}
    <3>1. PICK n \in counted + 1 .. limit, status \in Stop : PassEndsWith(status, n, "own")
      BY <2>3
    <3>2. n \in Nat
      BY RunnerAssumption DEF RunnerInv, RunnerTypeOK
    <3> QED
      BY <2>3, <3>1, <3>2, PassType DEF RunnerInv, RunnerTypeOK
  <2> QED
    BY <2>1, <2>2, <2>3, <2>4 DEF RunnerPass
<1> QED
  BY <1>1 DEF RunnerPass, RunnerInv, RunnerTypeOK

LEMMA RunnerDecidesInv == ASSUME RunnerInv, RunnerDecides PROVE RunnerInv'
PROOF
<1>1. \/ \E s \in Verdicts : RunnerReturns(s)
      \/ limit' = NextLimit /\ rpc' = "pass" /\ UNCHANGED verdict
  BY DEF RunnerDecides, Verdicts, Stop, RunnerInv, RunnerTypeOK
<1>2. NextLimit \in 0..MaxTotalIterations
  <2>1. latest.iterations \in Nat /\ limit \in Nat
    BY RunnerAssumption DEF RunnerInv, RunnerTypeOK
  <2>2. Most(latest.iterations, limit) + ChunkIterations \in Nat
    BY <2>1, RunnerAssumption DEF Most
  <2> QED
    BY <2>2, LeastMost, RunnerAssumption DEF NextLimit
<1>3. UNCHANGED <<missionFiles, detached, latest, seen, interventions>>
  BY DEF RunnerDecides
<1> QED
  BY <1>1, <1>2, <1>3 DEF RunnerReturns, RunnerInv, RunnerTypeOK, missionFiles

LEMMA RunnerLooksInv ==
    ASSUME RunnerInv, RunnerStarts \/ ReadMission \/ ReadInbox
    PROVE  RunnerInv'
PROOF
<1>1. CASE RunnerStarts
  <2>1. limit' \in 0..MaxTotalIterations
    BY <1>1, LeastMost, RunnerAssumption DEF RunnerStarts
  <2> QED
    BY <1>1, <2>1 DEF RunnerStarts, RunnerInv, RunnerTypeOK, Verdicts, missionFiles
<1>2. CASE ReadMission
  BY <1>2 DEF ReadMission, RunnerInv, RunnerTypeOK, IsLive, Nothing, missionFiles
<1>3. CASE ReadInbox
  BY <1>3 DEF ReadInbox, RunnerInv, RunnerTypeOK, missionFiles
<1> QED
  BY <1>1, <1>2, <1>3

LEMMA OthersInv ==
    ASSUME RunnerInv, DetachedRuns \/ DetachedStops \/ DetachedExits \/ RunAgain
    PROVE  RunnerInv'
PROOF
<1>1. CASE DetachedRuns
  BY <1>1 DEF DetachedRuns, Intervene, RunnerInv, RunnerTypeOK
<1>2. CASE DetachedStops
  <2>1. PICK status \in Stop :
          /\ lifecycle' = IF status = "max-iterations" THEN "paused" ELSE status
          /\ inbox' = IF status \in {"blocked", "failed"} THEN "other" ELSE "none"
    BY <1>2 DEF DetachedStops
  <2>2. lifecycle' \in Idle \cup {"running"} /\ inbox' \in {"none", "other"}
    BY <2>1 DEF Stop, Idle
  <2> QED
    BY <1>2, <2>2 DEF DetachedStops, Intervene, RunnerInv, RunnerTypeOK
<1>3. CASE DetachedExits
  BY <1>3 DEF DetachedExits, Intervene, RunnerInv, RunnerTypeOK, missionFiles
<1>4. CASE RunAgain
  BY <1>4 DEF RunAgain, Intervene, RunnerInv, RunnerTypeOK, missionFiles
<1> QED
  BY <1>1, <1>2, <1>3, <1>4

LEMMA RunnerStepInv == RunnerInv /\ [RunnerNext]_runnerVars => RunnerInv'
PROOF
<1>1. CASE UNCHANGED runnerVars
  BY <1>1 DEF runnerVars, RunnerInv, RunnerTypeOK
<1> QED
  BY <1>1, RunnerPassInv, RunnerDecidesInv, RunnerLooksInv, OthersInv
  DEF RunnerNext, RunnerStep

LEMMA RunnerInvariance == RunnerSpec => []RunnerInv
PROOF
  BY RunnerInitInv, RunnerStepInv, PTL DEF RunnerSpec

\* Every variable keeps its type; the iteration limit the runner gives to a pass
\* never exceeds max_total_iterations.
THEOREM RunnerTypes == RunnerSpec => []RunnerTypeOK
PROOF
<1>1. RunnerInv => RunnerTypeOK
  BY DEF RunnerInv
<1> QED
  BY <1>1, RunnerInvariance, PTL

\* With an open request in the snapshot the runner returns.
LEMMA RequestStops ==
    ASSUME RunnerInv, seen.request, RunnerDecides
    PROVE  rpc' = "returned"
PROOF
<1>1. Gate(seen) = "request"
  BY DEF Gate
<1>2. RequiresAction(seen) /\ ~SoftRecovery(seen)
  BY <1>1 DEF RequiresAction, SoftRecovery
<1> QED
  BY <1>2 DEF RunnerDecides, RunnerReturns

\* For any limits and interleaving with a detached runtime: the runner never starts
\* another pass over a request open at the end of its last one that nobody took back.
THEOREM RequestsAreRespected == RunnerSpec => RunnerRespectsRequest
PROOF
<1>1. RunnerInv /\ [RunnerNext]_runnerVars
        => [rpc = "decide" /\ rpc' = "pass" => inbox # "own"]_runnerVars
  <2> SUFFICES ASSUME RunnerInv, RunnerNext, rpc = "decide", rpc' = "pass", inbox = "own"
               PROVE  FALSE
    BY DEF runnerVars
  <2>1. RunnerDecides
    BY DEF RunnerNext, RunnerStep, RunnerStarts, RunnerPass, ReadMission, ReadInbox,
           DetachedRuns, DetachedStops, DetachedExits, RunAgain
  <2> QED
    BY <2>1, RequestStops DEF RunnerInv
<1> QED
  BY <1>1, RunnerInvariance, PTL DEF RunnerSpec, RunnerRespectsRequest
=============================================================================
