------------------------ MODULE MissionRuntimeProofs -------------------------
(***************************************************************************)
(* Proofs about MissionRuntime, for every state machine, every assignment  *)
(* of executors, and any number of passes, crashes and decisions.          *)
(***************************************************************************)
EXTENDS MissionRuntime, TLAPS

Given == AgentReports \cup {NoReport}
Works == [phase : Phase, iterations : Nat, report : Given]

LEMMA NoUpdateType == DOMAIN NoUpdate = {} /\ IsUpdate(NoUpdate)
PROOF
<1>1. DOMAIN NoUpdate = {}
  BY DEF NoUpdate
<1> QED
  BY <1>1 DEF IsUpdate

LEMMA GivenReports == \A r \in Given : IsReport(r)
PROOF
<1>1. IsReport(NoReport)
  BY PhaseAssumption, NoUpdateType DEF IsReport, NoReport
<1> QED
  BY <1>1, ReportAssumption DEF Given

----------------------------------------------------------------------------
(* The operators of the decision engine keep mission states well typed.    *)

LEMMA MergeOutputsType ==
    ASSUME NEW m \in MissionStates, NEW p \in Phase, NEW outputs \in SUBSET Output
    PROVE  MergeOutputs(m, p, outputs) \in MissionStates
BY DEF MergeOutputs, MissionStates

LEMMA NextPhaseForType ==
    ASSUME NEW p \in Phase, NEW fallback
    PROVE  NextPhaseFor(p, fallback) \in Phase
BY ContractAssumption DEF NextPhaseFor

\* The six fields a change of phase assigns.
PhaseUpdate(m, phase, next, history, outputs, keys, current) ==
    [m EXCEPT !.current_phase = phase, !.next_phase = next, !.phase_history = history,
              !.by_phase = outputs, !.recorded = keys, !.produced_outputs = current]

LEMMA PhaseUpdateType ==
    ASSUME NEW m \in MissionStates, NEW phase \in Phase, NEW next \in Phase,
           NEW history \in SUBSET Phase, NEW outputs \in [Phase -> SUBSET Output],
           NEW keys \in SUBSET Phase, NEW current \in SUBSET Output
    PROVE  PhaseUpdate(m, phase, next, history, outputs, keys, current) \in MissionStates
PROOF
<1> DEFINE m1 == [m EXCEPT !.current_phase = phase, !.next_phase = next,
                           !.phase_history = history]
           m2 == [m1 EXCEPT !.by_phase = outputs, !.recorded = keys,
                            !.produced_outputs = current]
<1>1. m1 \in MissionStates
  BY DEF MissionStates
<1>2. m2 \in MissionStates
  <2> HIDE DEF m1
  <2> QED
    BY <1>1 DEF MissionStates
<1> QED
  BY <1>2 DEF PhaseUpdate

LEMMA ApplyPhaseChangeType ==
    ASSUME NEW m \in MissionStates, NEW to \in Phase, NEW next
    PROVE  ApplyPhaseChange(m, to, next) \in MissionStates
PROOF
<1>1. NextPhaseFor(to, next) \in Phase
  BY NextPhaseForType
<1>2. CASE m.current_phase = to
  BY <1>1, <1>2 DEF ApplyPhaseChange, MissionStates
<1>3. CASE m.current_phase # to
  <2> DEFINE from == m.current_phase
             left == [MergeOutputs(m, from, m.produced_outputs)
                        EXCEPT !.completed_phases = @ \cup {from}]
  <2>1. left \in MissionStates
    <3>1. from \in Phase /\ m.produced_outputs \in SUBSET Output
      BY DEF MissionStates
    <3>2. MergeOutputs(m, from, m.produced_outputs) \in MissionStates
      BY <3>1, MergeOutputsType
    <3> QED
      BY <3>1, <3>2 DEF MissionStates
  <2> HIDE DEF left
  <2> DEFINE revisited == to \in m.phase_history
             cleared   == [left.by_phase EXCEPT ![to] = IF revisited THEN {} ELSE @]
             keys      == IF revisited THEN left.recorded \cup {to} ELSE left.recorded
             current   == IF revisited THEN {} ELSE left.by_phase[to]
             next1     == NextPhaseFor(to, next)
             history   == left.phase_history \cup {to}
  <2>2. ApplyPhaseChange(m, to, next) =
          PhaseUpdate(left, to, next1, history, cleared, keys, current)
    BY <1>3, <2>1 DEF ApplyPhaseChange, PhaseUpdate, left, MissionStates
  <2>3. /\ cleared \in [Phase -> SUBSET Output]
        /\ keys \in SUBSET Phase /\ history \in SUBSET Phase
        /\ current \in SUBSET Output
        /\ next1 \in Phase
    BY <1>1, <2>1 DEF MissionStates
  <2> HIDE DEF cleared, keys, current, next1, history
  <2> QED
    BY <2>1, <2>2, <2>3, PhaseUpdateType
<1> QED
  BY <1>2, <1>3

LEMMA DueOutputsType ==
    ASSUME NEW m \in MissionStates
    PROVE  DueOutputs(m) \in SUBSET Output
PROOF
<1>1. /\ m.current_phase \in Phase
      /\ m.due[m.current_phase] \in SUBSET Output
  BY DEF MissionStates
<1> QED
  BY <1>1, ContractAssumption, HintAssumption DEF DueOutputs, MissingOutputs

\* An agent's updates keep a mission state well typed.
LEMMA DeepMergeType ==
    ASSUME NEW m \in MissionStates, NEW u, IsUpdate(u)
    PROVE  DeepMerge(m, u) \in MissionStates
PROOF
<1> DEFINE outputs  == IF "by_phase" \in DOMAIN u THEN u.by_phase ELSE NoUpdate
           status   == IF "status" \in DOMAIN u THEN u.status ELSE m.status
           phase    == IF "current_phase" \in DOMAIN u THEN u.current_phase ELSE m.current_phase
           next     == IF "next_phase" \in DOMAIN u THEN u.next_phase ELSE m.next_phase
           current  == IF "produced_outputs" \in DOMAIN u THEN u.produced_outputs ELSE m.produced_outputs
           by_phase == [p \in Phase |-> IF p \in DOMAIN outputs THEN outputs[p] ELSE m.by_phase[p]]
           keys     == m.recorded \cup DOMAIN outputs
           called   == [m EXCEPT !.status = status]
<1>1. DOMAIN outputs \subseteq Phase /\ \A p \in DOMAIN outputs : outputs[p] \in SUBSET Output
  BY NoUpdateType, Zenon DEF IsUpdate
<1>2. /\ status \in MissionStatus /\ phase \in Phase /\ next \in Phase
      /\ current \in SUBSET Output
  BY DEF IsUpdate, MissionStates
<1>3. by_phase \in [Phase -> SUBSET Output] /\ keys \in SUBSET Phase
  <2> HIDE DEF outputs
  <2> QED
    BY <1>1 DEF MissionStates
<1>4. DeepMerge(m, u) = PhaseUpdate(called, phase, next, m.phase_history, by_phase, keys, current)
  BY DEF DeepMerge, PhaseUpdate, MissionStates
<1>5. called \in MissionStates
  <2> HIDE DEF status
  <2> QED
    BY <1>2 DEF MissionStates
<1>6. m.phase_history \in SUBSET Phase
  BY DEF MissionStates
<1> HIDE DEF called, phase, next, by_phase, keys, current
<1> QED
  BY <1>2, <1>3, <1>4, <1>5, <1>6, PhaseUpdateType

LEMMA PhaseAfterType ==
    ASSUME NEW r, IsReport(r), NEW transition
    PROVE  PhaseAfter(r, transition) \in Phase
BY DEF PhaseAfter, IsReport

LEMMA ApplyAgentResultType ==
    ASSUME NEW m \in MissionStates, NEW due \in SUBSET Output,
           NEW r, IsReport(r), NEW transition \in BOOLEAN
    PROVE  ApplyAgentResult(m, due, r, transition) \in MissionStates
PROOF
<1> DEFINE a        == r.of
           merged   == DeepMerge(m, r.updates)
           to       == PhaseAfter(r, transition)
           outputs  == AgentOutputs(due, r)
           by_phase == [merged.by_phase EXCEPT ![a] = @ \cup outputs]
<1>1. /\ to \in Phase /\ merged \in MissionStates
      /\ m.current_phase \in Phase /\ a \in Phase
  BY PhaseAfterType, DeepMergeType DEF IsReport, MissionStates
<1>2. outputs \in SUBSET Output
  BY <1>1, ContractAssumption DEF AgentOutputs
<1> DEFINE completed == [merged EXCEPT !.completed_phases =
                            IF m.current_phase = to THEN @ ELSE @ \cup {m.current_phase}]
           history   == merged.phase_history \cup {m.current_phase, to}
           keys      == IF outputs = {} THEN merged.recorded ELSE merged.recorded \cup {a}
           next1     == IF r.next = NoPhase THEN merged.next_phase ELSE r.next
           current   == by_phase[to]
<1> HIDE DEF merged, to, outputs, a
<1>3. by_phase \in [Phase -> SUBSET Output]
  BY <1>1, <1>2 DEF MissionStates
<1>4. by_phase[to] \in SUBSET Output
  BY <1>1, <1>3
<1>5. ApplyAgentResult(m, due, r, transition) =
        PhaseUpdate(completed, to, next1, history, by_phase, keys, current)
  BY <1>1 DEF ApplyAgentResult, PhaseUpdate, MissionStates, merged, to, outputs, a
<1>6. completed \in MissionStates
  BY <1>1 DEF MissionStates
<1>7. /\ history \in SUBSET Phase /\ keys \in SUBSET Phase
      /\ next1 \in Phase /\ current \in SUBSET Output
  BY <1>1, <1>4 DEF MissionStates, IsReport
<1> HIDE DEF by_phase, completed, history, keys, next1, current
<1> QED
  BY <1>1, <1>3, <1>5, <1>6, <1>7, PhaseUpdateType

LEMMA ActionResultType ==
    ASSUME NEW s \in {"completed", "blocked", "failed", "deferred", "max-iterations"}
    PROVE  ActionResult(s) \in ActionStatus
BY DEF ActionResult, ActionStatus

LEMMA PhaseReachedType ==
    ASSUME NEW m \in MissionStates, NEW r, IsReport(r)
    PROVE  PhaseReached(r, m.current_phase) \in Phase
BY DEF PhaseReached, IsReport, MissionStates

LEMMA ExecutorUpdatesType ==
    ASSUME NEW m \in MissionStates,
           NEW w \in Works,
           NEW s \in {"completed", "blocked", "failed", "deferred", "max-iterations"}
    PROVE  ExecutorUpdates(m, w, s) \in MissionStates
PROOF
<1> DEFINE p          == w.phase
           r          == w.report
           merged     == DeepMerge(m, r.updates)
           to         == PhaseReached(r, merged.current_phase)
           next       == IF r.next = NoPhase THEN merged.next_phase ELSE r.next
           controlled == IF w.iterations = 0 THEN m ELSE ApplyPhaseChange(merged, to, next)
           steered    == IF NextOnSuccess[p] # NoPhase /\ r.next = NoPhase
                         THEN [controlled EXCEPT !.next_phase = NextOnSuccess[p]]
                         ELSE controlled
<1>1. p \in Phase /\ m.due[p] \in SUBSET Output /\ IsReport(r)
  BY GivenReports DEF MissionStates, Works
<1>2. controlled \in MissionStates
  <2>1. merged \in MissionStates
    BY <1>1, DeepMergeType DEF IsReport
  <2>2. to \in Phase
    BY <1>1, <2>1, PhaseReachedType
  <2> HIDE DEF merged, to, next
  <2> QED
    BY <2>1, <2>2, ApplyPhaseChangeType
<1>3. steered \in MissionStates
  <2>1. NextOnSuccess[p] \in Phase \cup {NoPhase}
    BY <1>1, HintAssumption
  <2> HIDE DEF controlled
  <2> QED
    BY <1>2, <2>1 DEF MissionStates
<1>4. MergeOutputs(steered, p, m.due[p]) \in MissionStates
  <2> HIDE DEF steered, p
  <2> QED
    BY <1>1, <1>3, MergeOutputsType
<1>5. ExecutorUpdates(m, w, s) =
        [MergeOutputs(steered, p, m.due[p]) EXCEPT !.action[p] = ActionResult(s)]
  BY DEF ExecutorUpdates
<1>6. ActionResult(s) \in ActionStatus
  BY ActionResultType
<1> HIDE DEF steered, p
<1> QED
  BY <1>1, <1>4, <1>5, <1>6 DEF MissionStates

LEMMA StopStatusType ==
    ASSUME NEW m \in MissionStates,
           NEW s \in {"completed", "blocked", "failed", "max-iterations"}
    PROVE  StopStatus(m, s) \in MissionStates
BY DEF StopStatus, MissionStates, MissionStatus

LEMMA KeepInMemoryType ==
    ASSUME NEW m \in MissionStates, NEW d \in MissionStates
    PROVE  KeepInMemory(m, d) \in MissionStates
BY DEF KeepInMemory, MissionStates

LEMMA StatusType ==
    ASSUME NEW m \in MissionStates, NEW s \in MissionStatus
    PROVE  [m EXCEPT !.status = s] \in MissionStates
BY DEF MissionStates

----------------------------------------------------------------------------
(* What the operators leave alone.                                         *)

\* Everything Justified looks at.
SameRecord(m, n) ==
    /\ m.current_phase = n.current_phase /\ m.produced_outputs = n.produced_outputs
    /\ m.by_phase = n.by_phase /\ m.completed_phases = n.completed_phases
    /\ m.accepted = n.accepted /\ m.waived = n.waived

LEMMA JustifiedSame ==
    ASSUME NEW m, NEW n, SameRecord(m, n)
    PROVE  Justified(m) <=> Justified(n)
PROOF
<1>1. \A p : PhaseOutputs(m, p) = PhaseOutputs(n, p)
  BY DEF PhaseOutputs, SameRecord
<1>2. Evidence(m) <=> Evidence(n)
  BY <1>1 DEF Evidence, PhaseEvidence, SameRecord
<1>3. MissingOutputs(m) = MissingOutputs(n)
  BY DEF MissingOutputs, Observed, SameRecord
<1> QED
  BY <1>2, <1>3 DEF Justified, SameRecord

\* The engine selects COMPLETE only in a state that justifies it.
LEMMA SelectsCompleteJustified ==
    ASSUME NEW m \in MissionStates, NEW log, SelectsComplete(m, log)
    PROVE  Justified(m)
BY DEF SelectsComplete, SelectsHop, SelectsWork, CompletionContract, Justified

\* The fields that only the outer loop's own bookkeeping assigns.
Keeps(m, n) == n.status = m.status /\ n.runtime = m.runtime

LEMMA MergeOutputsKeeps ==
    ASSUME NEW m \in MissionStates, NEW p \in Phase, NEW outputs
    PROVE  Keeps(m, MergeOutputs(m, p, outputs))
BY DEF MergeOutputs, MissionStates, Keeps

LEMMA ApplyPhaseChangeKeeps ==
    ASSUME NEW m \in MissionStates, NEW to \in Phase, NEW next
    PROVE  Keeps(m, ApplyPhaseChange(m, to, next))
PROOF
<1> DEFINE from == m.current_phase
           merged == MergeOutputs(m, from, m.produced_outputs)
<1>1. from \in Phase /\ m.produced_outputs \in SUBSET Output
  BY DEF MissionStates
<1>2. merged \in MissionStates /\ Keeps(m, merged)
  BY <1>1, MergeOutputsType, MergeOutputsKeeps
<1>3. CASE from = to
  BY <1>3 DEF ApplyPhaseChange, MissionStates, Keeps
<1>4. CASE from # to
  <2> HIDE DEF merged
  <2>1. ApplyPhaseChange(m, to, next).status = merged.status
    BY <1>2, <1>4 DEF ApplyPhaseChange, MissionStates, merged
  <2>2. ApplyPhaseChange(m, to, next).runtime = merged.runtime
    BY <1>2, <1>4 DEF ApplyPhaseChange, MissionStates, merged
  <2> QED
    BY <1>2, <2>1, <2>2 DEF Keeps
<1> QED
  BY <1>3, <1>4

\* An agent's updates may rename the status, but not to "completed".
Follows(m, n) == n.status \in {m.status} \cup (MissionStatus \ {"completed"}) /\ n.runtime = m.runtime

LEMMA FollowsOn ==
    ASSUME NEW m, NEW k, NEW n, Follows(m, k), Keeps(k, n)
    PROVE  Follows(m, n)
BY DEF Follows, Keeps

LEMMA DeepMergeFollows ==
    ASSUME NEW m \in MissionStates, NEW r \in Given, ReportsLeaveCompletion
    PROVE  Follows(m, DeepMerge(m, r.updates))
PROOF
<1> DEFINE u == r.updates
<1>1. "status" \in DOMAIN u => u.status \in MissionStatus \ {"completed"}
  <2>1. CASE r \in AgentReports
    BY <2>1, ReportAssumption DEF ReportsLeaveCompletion, IsReport, IsUpdate
  <2>2. CASE r = NoReport
    BY <2>2, NoUpdateType DEF NoReport
  <2> QED
    BY <2>1, <2>2 DEF Given
<1>2. /\ DeepMerge(m, u).status = IF "status" \in DOMAIN u THEN u.status ELSE m.status
      /\ DeepMerge(m, u).runtime = m.runtime
  BY DEF DeepMerge, MissionStates
<1> QED
  BY <1>1, <1>2 DEF Follows

LEMMA ApplyAgentResultFollows ==
    ASSUME NEW m \in MissionStates, NEW due, NEW r \in Given, NEW transition, ReportsLeaveCompletion
    PROVE  Follows(m, ApplyAgentResult(m, due, r, transition))
PROOF
<1> DEFINE merged == DeepMerge(m, r.updates)
<1>1. merged \in MissionStates /\ Follows(m, merged)
  BY DeepMergeType, DeepMergeFollows, GivenReports DEF IsReport
<1> HIDE DEF merged
<1>2. Keeps(merged, ApplyAgentResult(m, due, r, transition))
  BY <1>1 DEF ApplyAgentResult, MissionStates, Keeps, merged
<1> QED
  BY <1>1, <1>2, FollowsOn

LEMMA ExecutorUpdatesFollows ==
    ASSUME NEW m \in MissionStates, NEW w \in Works, ReportsLeaveCompletion,
           NEW s \in {"completed", "blocked", "failed", "deferred", "max-iterations"}
    PROVE  Follows(m, ExecutorUpdates(m, w, s))
PROOF
<1> DEFINE p          == w.phase
           r          == w.report
           merged     == DeepMerge(m, r.updates)
           to         == PhaseReached(r, merged.current_phase)
           next       == IF r.next = NoPhase THEN merged.next_phase ELSE r.next
           controlled == IF w.iterations = 0 THEN m ELSE ApplyPhaseChange(merged, to, next)
           steered    == IF NextOnSuccess[p] # NoPhase /\ r.next = NoPhase
                         THEN [controlled EXCEPT !.next_phase = NextOnSuccess[p]]
                         ELSE controlled
           done       == MergeOutputs(steered, p, m.due[p])
<1>1. p \in Phase /\ m.due[p] \in SUBSET Output /\ r \in Given /\ IsReport(r)
  BY GivenReports DEF MissionStates, Works
<1>2. controlled \in MissionStates /\ Follows(m, controlled)
  <2>1. merged \in MissionStates /\ Follows(m, merged)
    BY <1>1, DeepMergeType, DeepMergeFollows DEF IsReport
  <2>2. to \in Phase
    BY <1>1, <2>1, PhaseReachedType
  <2> HIDE DEF merged, to, next
  <2>3. ApplyPhaseChange(merged, to, next) \in MissionStates /\ Keeps(merged, ApplyPhaseChange(merged, to, next))
    BY <2>1, <2>2, ApplyPhaseChangeType, ApplyPhaseChangeKeeps
  <2>4. Follows(m, m)
    BY DEF Follows
  <2> QED
    BY <2>1, <2>3, <2>4, FollowsOn
<1>3. steered \in MissionStates /\ Follows(m, steered)
  <2>1. NextOnSuccess[p] \in Phase \cup {NoPhase}
    BY <1>1, HintAssumption
  <2> HIDE DEF controlled
  <2> QED
    BY <1>2, <2>1 DEF MissionStates, Follows
<1>4. done \in MissionStates /\ Follows(m, done)
  <2> HIDE DEF steered, p
  <2> QED
    BY <1>1, <1>3, MergeOutputsType, MergeOutputsKeeps, FollowsOn
<1>5. ExecutorUpdates(m, w, s) = [done EXCEPT !.action[p] = ActionResult(s)]
  BY DEF ExecutorUpdates
<1> HIDE DEF done, p
<1> QED
  BY <1>4, <1>5 DEF MissionStates, Follows

LEMMA KeepInMemoryKeeps ==
    ASSUME NEW m \in MissionStates, NEW d
    PROVE  Keeps(m, KeepInMemory(m, d))
BY DEF KeepInMemory, MissionStates, Keeps
----------------------------------------------------------------------------
(* Type correctness.                                                       *)

PCs == Stopped \cup Writing \cup {"loop", "execute", "planner", "check"}

LEMMA NoWorkType == NoWork \in Works
BY PhaseAssumption DEF NoWork, Works, Given

LEMMA NextWorkType ==
    ASSUME NEW w \in Works, NEW r \in Given
    PROVE  [w EXCEPT !.iterations = @ + 1, !.report = r] \in Works
PROOF
<1>1. [w EXCEPT !.iterations = @ + 1] \in Works
  BY DEF Works
<1> QED
  BY <1>1 DEF Works

LEMMA EndIterationType ==
    ASSUME TypeOK, NEW m \in MissionStates, NEW s \in RuntimeStatus, EndIteration(m, s)
    PROVE  /\ mem' \in MissionStates /\ rt' \in RuntimeStates
           /\ pc' = "inbox" /\ resume' = "check" /\ work' \in Works
BY NoWorkType DEF EndIteration, BeginWrite, TypeOK, RuntimeStates

LEMMA SettleType ==
    ASSUME TypeOK, NEW m \in MissionStates,
           NEW s \in {"running", "blocked", "failed", "max-iterations"}, Settle(m, s)
    PROVE  /\ mem' \in MissionStates /\ rt' \in RuntimeStates
           /\ pc' = "inbox" /\ resume' = "check" /\ work' \in Works
PROOF
<1> DEFINE m1 == IF s = "running" THEN [m EXCEPT !.status = "running"] ELSE StopStatus(m, s)
<1>1. m1 \in MissionStates
  BY StatusType, StopStatusType DEF MissionStatus
<1>2. s \in RuntimeStatus
  BY DEF RuntimeStatus
<1>3. EndIteration(m1, s)
  BY DEF Settle
<1> HIDE DEF m1
<1> QED
  BY <1>1, <1>2, <1>3, EndIterationType

LEMMA InitType == Init => TypeOK
PROOF
<1> SUFFICES ASSUME Init PROVE TypeOK
  OBVIOUS
<1>1. disk \in MissionStates /\ mem \in MissionStates
  BY BoundAssumption DEF Init
<1>2. rs \in RuntimeStates /\ rt \in RuntimeStates
  BY DEF Init, RuntimeStates, RuntimeStatus
<1>3. work \in Works
  BY NoWorkType DEF Init
<1>4. pc \in PCs /\ resume \in {"check", "execute", "end"}
  BY DEF Init, PCs, Stopped
<1> QED
  BY <1>1, <1>2, <1>3, <1>4 DEF Init, TypeOK, PCs, Works, Given

LEMMA StartType ==
    ASSUME TypeOK, NEW b \in Budgets, LaunchPass(b) \/ LaunchCompleted(b)
    PROVE  TypeOK'
PROOF
<1>1. b \in Nat
  BY BoundAssumption
<1>2. CASE LaunchPass(b)
  BY <1>1, <1>2 DEF LaunchPass, Launch, TypeOK, files, RuntimeStates
<1>3. CASE LaunchCompleted(b)
  BY <1>1, <1>3 DEF LaunchCompleted, Launch, TypeOK, files, RuntimeStates, RuntimeStatus, Writing
<1> QED
  BY <1>2, <1>3

LEMMA WriteType ==
    ASSUME TypeOK, Write
    PROVE  TypeOK'
PROOF
<1>1. CASE WriteInbox
  <2>1. mem' = [mem EXCEPT !.operator_inbox = IF request' THEN "open" ELSE "clear",
                           !.runtime = rt]
    BY <1>1 DEF WriteInbox
  <2>2. mem' \in MissionStates
    BY <2>1 DEF TypeOK, MissionStates
  <2> QED
    BY <1>1, <2>2 DEF WriteInbox, TypeOK, steady, Writing
<1>2. CASE WriteMission
  BY <1>2 DEF WriteMission, TypeOK, steady, Writing
<1>3. CASE WriteRuntime
  BY <1>3 DEF WriteRuntime, TypeOK, steady, Stopped
<1> QED
  BY <1>1, <1>2, <1>3 DEF Write

LEMMA DecideType ==
    ASSUME TypeOK, Decide
    PROVE  TypeOK'
PROOF
<1> DEFINE p == disk.current_phase
<1>1. disk \in MissionStates /\ p \in Phase /\ disk.next_phase \in Phase
  BY DEF TypeOK, MissionStates
<1>2. DueOutputs(disk) \in SUBSET Output
  BY <1>1, DueOutputsType
<1>3. ASSUME Deciding, branches' \subseteq Branches,
             mem' \in MissionStates, rt' \in RuntimeStates, pc' = "inbox",
             resume' \in {"check", "execute"}, work' \in Works
      PROVE  TypeOK'
  BY <1>3 DEF Deciding, TypeOK, steady, Writing, Works, Given
<1>4. CASE DecideComplete
  <2>1. StopStatus(disk, "completed") \in MissionStates /\ "completed" \in RuntimeStatus
    BY <1>1, StopStatusType DEF RuntimeStatus
  <2> QED
    BY <1>3, <1>4, <2>1, EndIterationType DEF DecideComplete, TypeOK
<1>5. CASE DecideBlock
  <2>1. StopStatus(disk, "blocked") \in MissionStates /\ "blocked" \in RuntimeStatus
    BY <1>1, StopStatusType DEF RuntimeStatus
  <2> QED
    BY <1>3, <1>5, <2>1, EndIterationType DEF DecideBlock, TypeOK
<1>6. CASE DecideTransition
  <2> DEFINE to   == disk.next_phase
             meta == HopMeta(disk)
             m    == [ApplyPhaseChange(disk, to, to) EXCEPT !.status = "running"]
  <2>1. m \in MissionStates
    BY <1>1, ApplyPhaseChangeType, StatusType DEF MissionStatus
  <2>2. meta \in [branch : BranchStatus, recovery : RecoveryStatus]
    BY <1>1, ContractAssumption DEF HopMeta
  <2>3. [target |-> to, branch |-> meta.branch, recovery |-> meta.recovery] \in Branches
    BY <1>1, <2>2 DEF Branches
  <2>4. branches' \subseteq Branches
    BY <1>6, <2>3 DEF DecideTransition, TypeOK
  <2>5. EndIteration(m, "running") /\ Deciding
    BY <1>6 DEF DecideTransition
  <2> HIDE DEF m
  <2> QED
    BY <1>3, <2>1, <2>4, <2>5, EndIterationType DEF RuntimeStatus
<1>7. CASE DecideDispatch
  <2>1. mem' = [disk EXCEPT
                  !.action[p] = "in_progress",
                  !.due[p] = DueOutputs(disk),
                  !.bootstrap = IF Executor[p] = "self-healing-queue" /\ @ = "pending"
                                THEN "baseline-running" ELSE @]
    BY <1>7 DEF DecideDispatch
  <2>2. mem' \in MissionStates
    BY <1>1, <1>2, <2>1 DEF MissionStates, ActionStatus, BootstrapStatus
  <2>3. work' \in Works
    BY <1>1, <1>7 DEF DecideDispatch, Works, Given
  <2>4. rt' \in RuntimeStates
    BY <1>7 DEF DecideDispatch, TypeOK, RuntimeStates, RuntimeStatus
  <2> QED
    BY <1>3, <1>7, <2>2, <2>3, <2>4 DEF DecideDispatch, BeginWrite, TypeOK
<1>8. CASE DecideNoExecutor
  <2> DEFINE m == [disk EXCEPT !.action[p] = "blocked", !.due[p] = DueOutputs(disk)]
  <2>1. m \in MissionStates
    BY <1>1, <1>2 DEF MissionStates, ActionStatus
  <2>2. StopStatus(m, "blocked") \in MissionStates
    BY <2>1, StopStatusType
  <2>3. EndIteration(StopStatus(m, "blocked"), "blocked") /\ Deciding
    BY <1>8 DEF DecideNoExecutor
  <2> HIDE DEF m
  <2> QED
    BY <1>3, <1>8, <2>2, <2>3, EndIterationType DEF DecideNoExecutor, RuntimeStatus, TypeOK
<1> QED
  BY <1>4, <1>5, <1>6, <1>7, <1>8 DEF Decide

\* An agent's iteration writes a well-typed mission state, and leaves its copy of the
\* runtime state alone.
LEMMA AgentIterateEffect ==
    ASSUME TypeOK, AgentIterate
    PROVE  /\ disk' \in MissionStates /\ work' \in Works /\ strayed' \in BOOLEAN
           /\ ReportsLeaveCompletion => Follows(disk, disk')
PROOF
<1>1. disk \in MissionStates /\ work \in Works /\ work.phase \in Phase
  BY DEF TypeOK, Works, Given
<1>2. PICK r \in AgentReports, own \in BOOLEAN, transition \in BOOLEAN, s \in AgentResults :
        /\ r.of = IF own THEN work.phase ELSE disk.current_phase
        /\ own => disk.action[work.phase] \in {"pending", "in_progress", "deferred"}
        /\ disk' = [ApplyAgentResult(disk, IF own THEN disk.due[r.of] ELSE {}, r, transition)
                      EXCEPT !.action[work.phase] = IF own THEN s ELSE @]
        /\ work' = [work EXCEPT !.iterations = @ + 1, !.report = r]
        /\ strayed' = (strayed \/ Strays(r, transition))
  BY Zenon DEF AgentIterate
<1> DEFINE due == IF own THEN disk.due[r.of] ELSE {}
           m   == ApplyAgentResult(disk, due, r, transition)
<1>3. r \in Given /\ IsReport(r) /\ s \in ActionStatus
  BY GivenReports, BoundAssumption DEF Given
<1>4. due \in SUBSET Output
  BY <1>1, <1>3 DEF MissionStates, IsReport
<1> HIDE DEF due
<1>5. m \in MissionStates /\ (ReportsLeaveCompletion => Follows(disk, m))
  BY <1>1, <1>3, <1>4, ApplyAgentResultType, ApplyAgentResultFollows
<1>6. disk' = [m EXCEPT !.action[work.phase] = IF own THEN s ELSE @]
  BY <1>2 DEF due
<1>7. work' \in Works
  BY <1>1, <1>2, <1>3, NextWorkType
<1>8. strayed' \in BOOLEAN
  BY <1>2 DEF TypeOK, Strays
<1> HIDE DEF m
<1> QED
  BY <1>1, <1>3, <1>5, <1>6, <1>7, <1>8 DEF MissionStates, Follows

LEMMA ExecuteType ==
    ASSUME TypeOK, Execute
    PROVE  TypeOK'
PROOF
<1> DEFINE Statuses == {"completed", "blocked", "failed", "deferred", "max-iterations"}
<1>1. disk \in MissionStates /\ work \in Works /\ work.phase \in Phase
  BY DEF TypeOK, Works, Given
<1>2. ASSUME UNCHANGED <<files, steady, decisions>>, mem' \in MissionStates,
             rt' \in RuntimeStates, pc' = "inbox", resume' = "check", work' \in Works
      PROVE  TypeOK'
  BY <1>2 DEF TypeOK, files, steady, Writing, Works, Given
<1>3. CASE AgentIterate
  BY <1>3, AgentIterateEffect DEF AgentIterate, TypeOK, Works, Given
<1>4. ASSUME NEW s \in Statuses, ExecutorReturns(s)
      PROVE  TypeOK'
  <2>1. ExecutorUpdates(disk, work, s) \in MissionStates
    BY <1>1, ExecutorUpdatesType
  <2>2. RuntimeAfter(Executor[work.phase], s) \in {"running", "blocked", "failed", "max-iterations"}
    BY DEF RuntimeAfter
  <2>3. /\ Settle(ExecutorUpdates(disk, work, s), RuntimeAfter(Executor[work.phase], s))
        /\ UNCHANGED <<files, steady, decisions>>
    BY <1>4 DEF ExecutorReturns
  <2> QED
    BY <1>2, <2>1, <2>2, <2>3, SettleType
<1>5. CASE ExecutorRaises
  <2> DEFINE kept == [KeepInMemory(mem, disk) EXCEPT !.action[work.phase] = "blocked"]
  <2>1. KeepInMemory(mem, disk) \in MissionStates
    BY KeepInMemoryType DEF TypeOK
  <2>2. kept \in MissionStates
    BY <1>1, <2>1 DEF MissionStates, ActionStatus
  <2>3. Settle(kept, "failed") /\ UNCHANGED <<files, steady, decisions>>
    BY <1>5 DEF ExecutorRaises
  <2> HIDE DEF kept
  <2> QED
    BY <1>2, <2>2, <2>3, SettleType
<1>6. CASE CallPlanner
  <2>1. ExecutorUpdates(disk, work, "completed") \in MissionStates
    BY <1>1, ExecutorUpdatesType
  <2> QED
    BY <1>6, <2>1 DEF CallPlanner, TypeOK, steady
<1>7. CASE PlannerStages
  <2> DEFINE staged == [disk EXCEPT !.bootstrap = "followup-staged"]
  <2>1. staged \in MissionStates
    BY <1>1 DEF MissionStates, BootstrapStatus
  <2>2. Settle(staged, "running") /\ UNCHANGED <<files, steady, decisions>>
    BY <1>7 DEF PlannerStages
  <2> HIDE DEF staged
  <2> QED
    BY <1>2, <2>1, <2>2, SettleType
<1>8. CASE PlannerRaises
  BY <1>8, NoWorkType
     DEF PlannerRaises, TypeOK, files, steady, RuntimeStates, RuntimeStatus, Works, Given
<1> QED
  BY <1>3, <1>4, <1>5, <1>6, <1>7, <1>8 DEF Execute

LEMMA EndPassType ==
    ASSUME TypeOK, EndPass
    PROVE  TypeOK'
PROOF
<1>1. CASE NextIteration
  BY <1>1 DEF NextIteration, TypeOK, files, steady, Stopped
<1>2. CASE StopCondition
  <2>1. mem' \in MissionStates
    BY <1>2, StopStatusType DEF StopCondition, TypeOK
  <2> QED
    BY <1>2, <2>1
       DEF StopCondition, BeginWrite, TypeOK, files, steady, RuntimeStates, RuntimeStatus, Writing
<1>3. CASE StopAtLimit
  <2>1. mem' \in MissionStates
    BY <1>3, StopStatusType DEF StopAtLimit, TypeOK
  <2> QED
    BY <1>3, <2>1
       DEF StopAtLimit, BeginWrite, TypeOK, files, steady, RuntimeStates, RuntimeStatus, Writing
<1>4. CASE ReturnAtLimit
  BY <1>4 DEF ReturnAtLimit, TypeOK, files, steady, Stopped
<1> QED
  BY <1>1, <1>2, <1>3, <1>4 DEF EndPass

LEMMA EnvironmentType ==
    ASSUME TypeOK, Crash \/ OperatorFix
    PROVE  TypeOK'
PROOF
<1>1. CASE Crash
  BY <1>1, NoWorkType DEF Crash, TypeOK, files, Stopped, Works, Given
<1>2. CASE OperatorFix
  <2>1. disk' \in MissionStates
    BY <1>2 DEF OperatorFix, TypeOK, MissionStates
  <2> QED
    BY <1>2, <2>1 DEF OperatorFix, TypeOK, steady
<1> QED
  BY <1>1, <1>2

LEMMA StepType ==
    ASSUME TypeOK, [Next]_vars
    PROVE  TypeOK'
PROOF
<1>1. CASE UNCHANGED vars
  BY <1>1 DEF vars, TypeOK
<1> QED
  BY <1>1, StartType, WriteType, DecideType, ExecuteType, EndPassType, EnvironmentType
     DEF Next, PassStep, Start

\* Whatever state machine and executors a mission has, and wherever its process
\* dies, every file and every variable of a pass keeps its type.
THEOREM TypeCorrect == Spec => []TypeOK
PROOF
<1>1. Init => TypeOK
  BY InitType
<1>2. TypeOK /\ [Next]_vars => TypeOK'
  BY StepType
<1> QED
  BY <1>1, <1>2, PTL DEF Spec
----------------------------------------------------------------------------
(* The inductive invariant.                                                *)

LEMMA InitInv == Init => IInv
PROOF
<1> SUFFICES ASSUME Init PROVE IInv
  OBVIOUS
<1>1. TypeOK
  BY InitType
<1>2. disk.status # "completed" /\ disk.runtime.iterations = 0
  BY BoundAssumption DEF Init
<1> QED
  BY <1>1, <1>2
     DEF Init, IInv, CompletionNeedsEvidence, CompletionOnItsWay, CompletedIsLeftAlone,
         WrittenAgrees, CounterLeads, MissionFileLeads, Writing

\* While the loop decides or an executor works, the mission file is not
\* completed; a pass that then ends an iteration keeps the invariant unless it
\* completes a mission it may not complete.
LEMMA EndIterationInv ==
    ASSUME IInv, TypeOK', pc \in {"loop", "execute", "planner"}, UNCHANGED <<disk, rs>>,
           NEW m, NEW s, EndIteration(m, s),
           m.status = "completed" => s = "completed" /\ Justified(m)
    PROVE  IInv'
PROOF
<1>1. disk.status # "completed"
  BY DEF IInv, CompletedIsLeftAlone
<1>2. /\ mem' = m /\ rt' = [status |-> s, iterations |-> rt.iterations + 1]
      /\ pc' = "inbox" /\ resume' = "check"
  BY DEF EndIteration, BeginWrite
<1>3. CompletionOnItsWay'
  BY <1>2 DEF CompletionOnItsWay, Justified, Evidence, PhaseEvidence, PhaseOutputs,
              MissingOutputs, Observed
<1>4. CompletionNeedsEvidence' /\ CompletedIsLeftAlone'
  BY <1>1 DEF CompletionNeedsEvidence, CompletedIsLeftAlone
<1>5. CounterLeads' /\ MissionFileLeads'
  BY <1>2 DEF IInv, CounterLeads, MissionFileLeads, Writing
<1>6. WrittenAgrees'
  BY <1>2 DEF WrittenAgrees
<1> QED
  BY <1>3, <1>4, <1>5, <1>6 DEF IInv

\* An executor's outcome never completes the mission.
LEMMA SettleInv ==
    ASSUME IInv, TypeOK', pc \in {"execute", "planner"}, UNCHANGED <<disk, rs>>,
           NEW m \in MissionStates, NEW s \in {"running", "blocked", "failed", "max-iterations"},
           Settle(m, s)
    PROVE  IInv'
PROOF
<1> DEFINE m1 == IF s = "running" THEN [m EXCEPT !.status = "running"] ELSE StopStatus(m, s)
<1>1. m1.status # "completed"
  BY DEF StopStatus, MissionStates
<1>2. EndIteration(m1, s)
  BY DEF Settle
<1> HIDE DEF m1
<1> QED
  BY <1>1, <1>2, EndIterationInv

LEMMA StartInv ==
    ASSUME IInv, TypeOK', NEW b \in Budgets, LaunchPass(b) \/ LaunchCompleted(b)
    PROVE  IInv'
PROOF
<1>1. /\ mem' = disk /\ UNCHANGED <<disk, rs>>
      /\ CompletionNeedsEvidence /\ MissionFileLeads
  BY DEF LaunchPass, LaunchCompleted, Launch, files, IInv
<1>2. rs \in RuntimeStates
  BY DEF IInv, TypeOK
<1>3. CompletionNeedsEvidence' /\ MissionFileLeads'
  BY <1>1 DEF CompletionNeedsEvidence, MissionFileLeads, Justified, Evidence, PhaseEvidence,
              PhaseOutputs, MissingOutputs, Observed
<1>4. disk.status = "completed" => Justified(disk)
  BY <1>1 DEF CompletionNeedsEvidence
<1>5. Justified(disk) => Justified(mem)'
  BY <1>1 DEF Justified, Evidence, PhaseEvidence, PhaseOutputs, MissingOutputs, Observed
<1>6. Research(mem)' = Research(disk)'
  BY <1>1 DEF Research
<1>7. CASE LaunchPass(b)
  <2>1. disk.status # "completed" /\ rt' = rs /\ pc' = "loop"
    BY <1>7 DEF LaunchPass
  <2> QED
    BY <1>1, <1>2, <1>3, <2>1
       DEF IInv, CompletionOnItsWay, CompletedIsLeftAlone, WrittenAgrees, CounterLeads,
           RuntimeStates, Writing
<1>8. CASE LaunchCompleted(b)
  <2>1. rt' = [rs EXCEPT !.status = "completed"] /\ pc' = "inbox" /\ resume' = "end"
    BY <1>8 DEF LaunchCompleted
  <2>2. rt'.status = "completed" /\ rt'.iterations = rs.iterations
    BY <1>2, <2>1 DEF RuntimeStates
  <2> QED
    BY <1>1, <1>2, <1>3, <1>4, <1>5, <1>6, <2>1, <2>2
       DEF IInv, CompletionOnItsWay, CompletedIsLeftAlone, WrittenAgrees, CounterLeads,
           RuntimeStates, Writing
<1> QED
  BY <1>7, <1>8

LEMMA WriteInv ==
    ASSUME IInv, TypeOK', Write
    PROVE  IInv'
PROOF
<1> USE DEF Writing
<1>1. CASE WriteInbox
  <2>1. /\ mem' = [mem EXCEPT !.operator_inbox = IF request' THEN "open" ELSE "clear",
                              !.runtime = rt]
        /\ pc = "inbox" /\ pc' = "state" /\ UNCHANGED <<disk, rs, rt, resume>>
    BY <1>1 DEF WriteInbox
  <2>2. /\ SameRecord(mem', mem) /\ mem'.status = mem.status /\ mem'.runtime = rt
        /\ Research(mem)' = Research(mem) /\ Research(disk)' = Research(disk)
    BY <2>1 DEF IInv, TypeOK, MissionStates, SameRecord, Research
  <2>3. Justified(mem') <=> Justified(mem)
    BY <2>2, JustifiedSame
  <2>4. CompletionOnItsWay'
    BY <2>1, <2>2, <2>3 DEF IInv, CompletionOnItsWay
  <2>5. CompletedIsLeftAlone'
    BY <2>1, <2>2 DEF IInv, CompletedIsLeftAlone
  <2>6. CompletionNeedsEvidence'
    BY <2>1 DEF IInv, CompletionNeedsEvidence
  <2> QED
    BY <2>1, <2>2, <2>4, <2>5, <2>6 DEF IInv, WrittenAgrees, CounterLeads, MissionFileLeads
<1>2. CASE WriteMission
  <2>1. /\ disk' = mem /\ pc = "state" /\ pc' = "runtime"
        /\ UNCHANGED <<mem, rs, rt, resume>>
    BY <1>2 DEF WriteMission
  <2>2. CompletionOnItsWay' /\ CompletionNeedsEvidence'
    BY <2>1 DEF IInv, CompletionOnItsWay, CompletionNeedsEvidence
  <2>3. CompletedIsLeftAlone'
    BY <2>1 DEF CompletedIsLeftAlone, Research
  <2> QED
    BY <2>1, <2>2, <2>3 DEF IInv, WrittenAgrees, CounterLeads, MissionFileLeads
<1>3. CASE WriteRuntime
  <2>1. /\ rs' = rt /\ pc = "runtime" /\ UNCHANGED <<disk, mem, rt>>
        /\ pc' = IF resume = "end" THEN "idle" ELSE resume
        /\ resume \in {"check", "execute", "end"} /\ resume' = "check"
    BY <1>3 DEF WriteRuntime, IInv, TypeOK
  <2>2. disk = mem /\ mem.runtime = rt
    BY <2>1 DEF IInv, WrittenAgrees
  <2>3. CompletionOnItsWay' /\ CompletionNeedsEvidence'
    BY <2>1 DEF IInv, CompletionOnItsWay, CompletionNeedsEvidence
  <2>4. CompletedIsLeftAlone'
    BY <2>1, <2>2 DEF IInv, CompletionOnItsWay, CompletedIsLeftAlone
  <2>5. rt.iterations \in Nat
    BY DEF IInv, TypeOK, RuntimeStates
  <2> QED
    BY <2>1, <2>2, <2>3, <2>4, <2>5 DEF IInv, WrittenAgrees, CounterLeads, MissionFileLeads
<1> QED
  BY <1>1, <1>2, <1>3 DEF Write

LEMMA DecideInv ==
    ASSUME IInv, TypeOK', Decide
    PROVE  IInv'
PROOF
<1>1. pc = "loop" /\ UNCHANGED <<disk, rs>>
  BY DEF Decide, DecideComplete, DecideBlock, DecideTransition, DecideDispatch,
         DecideNoExecutor, Deciding
<1>2. disk \in MissionStates /\ disk.current_phase \in Phase /\ disk.next_phase \in Phase
  BY DEF IInv, TypeOK, MissionStates
<1>3. CASE DecideComplete
  <2> DEFINE m == StopStatus(disk, "completed")
  <2>1. Justified(disk)
    BY <1>2, <1>3, SelectsCompleteJustified DEF DecideComplete
  <2>2. SameRecord(m, disk)
    BY <1>2 DEF SameRecord, StopStatus, MissionStates
  <2>3. Justified(m)
    BY <2>1, <2>2, JustifiedSame
  <2>4. EndIteration(m, "completed")
    BY <1>3 DEF DecideComplete
  <2> HIDE DEF m
  <2> QED
    BY <1>1, <2>3, <2>4, EndIterationInv
<1>4. CASE DecideBlock
  <2>1. StopStatus(disk, "blocked").status = "blocked"
    BY <1>2 DEF StopStatus, MissionStates
  <2> QED
    BY <1>1, <1>4, <2>1, EndIterationInv DEF DecideBlock
<1>5. CASE DecideTransition
  <2> DEFINE m == [ApplyPhaseChange(disk, disk.next_phase, disk.next_phase)
                     EXCEPT !.status = "running"]
  <2>1. m.status = "running"
    BY <1>2, ApplyPhaseChangeType DEF MissionStates
  <2>2. EndIteration(m, "running")
    BY <1>5 DEF DecideTransition
  <2> HIDE DEF m
  <2> QED
    BY <1>1, <2>1, <2>2, EndIterationInv
<1>6. CASE DecideDispatch
  <2>1. /\ mem'.status = disk.status /\ pc' = "inbox"
        /\ rt' = [rt EXCEPT !.status = "running"]
    BY <1>2, <1>6 DEF DecideDispatch, BeginWrite, MissionStates
  <2>2. disk.status # "completed" /\ CounterLeads /\ MissionFileLeads
    BY <1>1 DEF IInv, CompletedIsLeftAlone
  <2>3. rt'.iterations = rt.iterations /\ rt.iterations = rs.iterations /\ rs.iterations \in Nat
    BY <1>1, <2>1, <2>2 DEF IInv, TypeOK, RuntimeStates, CounterLeads, Writing
  <2> QED
    BY <1>1, <2>1, <2>2, <2>3
       DEF IInv, CompletionNeedsEvidence, CompletionOnItsWay, CompletedIsLeftAlone,
           WrittenAgrees, CounterLeads, MissionFileLeads, Writing
<1>7. CASE DecideNoExecutor
  <2> DEFINE p == disk.current_phase
             m == [disk EXCEPT !.action[p] = "blocked", !.due[p] = DueOutputs(disk)]
  <2>1. StopStatus(m, "blocked").status = "blocked"
    BY <1>2 DEF StopStatus, MissionStates
  <2>2. EndIteration(StopStatus(m, "blocked"), "blocked")
    BY <1>7 DEF DecideNoExecutor
  <2> HIDE DEF m
  <2> QED
    BY <1>1, <2>1, <2>2, EndIterationInv
<1> QED
  BY <1>3, <1>4, <1>5, <1>6, <1>7 DEF Decide

LEMMA ExecuteInv ==
    ASSUME ReportsLeaveCompletion, IInv, TypeOK', Execute
    PROVE  IInv'
PROOF
<1> DEFINE Statuses == {"completed", "blocked", "failed", "deferred", "max-iterations"}
<1>1. /\ pc \in {"execute", "planner"}
      /\ disk.status # "completed"
  BY DEF Execute, AgentIterate, ExecutorReturns, ExecutorRaises, CallPlanner,
         PlannerStages, PlannerRaises, IInv, CompletedIsLeftAlone
<1>2. disk \in MissionStates /\ mem \in MissionStates /\ work \in Works /\ work.phase \in Phase
  BY DEF IInv, TypeOK, Works, Given
<1>3. /\ rt.iterations = rs.iterations /\ rs.iterations \in Nat
      /\ disk.runtime.iterations \in {rs.iterations, rs.iterations + 1}
  BY <1>1 DEF IInv, CounterLeads, MissionFileLeads, TypeOK, RuntimeStates, Writing
<1>4. CASE AgentIterate
  <2>1. Follows(disk, disk')
    BY <1>4, AgentIterateEffect DEF IInv
  <2>2. pc = "execute" /\ UNCHANGED <<rs, mem, rt, pc, resume>>
    BY <1>4 DEF AgentIterate
  <2>3. CompletionOnItsWay'
    BY <2>2 DEF IInv, CompletionOnItsWay, Writing, Justified, Evidence, PhaseEvidence,
                PhaseOutputs, MissingOutputs, Observed
  <2> QED
    BY <1>1, <1>3, <2>1, <2>2, <2>3
       DEF IInv, CompletionNeedsEvidence, CompletedIsLeftAlone, WrittenAgrees, CounterLeads,
           MissionFileLeads, Writing, Follows
<1>5. ASSUME NEW s \in Statuses, ExecutorReturns(s)
      PROVE  IInv'
  <2>1. ExecutorUpdates(disk, work, s) \in MissionStates
    BY <1>2, ExecutorUpdatesType
  <2>2. RuntimeAfter(Executor[work.phase], s) \in {"running", "blocked", "failed", "max-iterations"}
    BY DEF RuntimeAfter
  <2>3. /\ Settle(ExecutorUpdates(disk, work, s), RuntimeAfter(Executor[work.phase], s))
        /\ UNCHANGED <<disk, rs>>
    BY <1>5 DEF ExecutorReturns, files
  <2> QED
    BY <1>1, <2>1, <2>2, <2>3, SettleInv
<1>6. CASE ExecutorRaises
  <2> DEFINE kept == [KeepInMemory(mem, disk) EXCEPT !.action[work.phase] = "blocked"]
  <2>1. KeepInMemory(mem, disk) \in MissionStates
    BY <1>2, KeepInMemoryType
  <2>2. kept \in MissionStates
    BY <1>2, <2>1 DEF MissionStates, ActionStatus
  <2>3. Settle(kept, "failed") /\ UNCHANGED <<disk, rs>>
    BY <1>6 DEF ExecutorRaises, files
  <2> HIDE DEF kept
  <2> QED
    BY <1>1, <2>2, <2>3, SettleInv
<1>7. CASE CallPlanner
  <2> DEFINE updated == ExecutorUpdates(disk, work, "completed")
  <2>1. Follows(disk, updated)
    BY <1>2, ExecutorUpdatesFollows
  <2>2. disk' = updated /\ mem' = updated /\ pc' = "planner" /\ UNCHANGED <<rs, rt>>
    BY <1>7 DEF CallPlanner
  <2> HIDE DEF updated
  <2> QED
    BY <1>1, <1>3, <2>1, <2>2
       DEF IInv, CompletionNeedsEvidence, CompletionOnItsWay, CompletedIsLeftAlone,
           WrittenAgrees, CounterLeads, MissionFileLeads, Writing, Follows
<1>8. CASE PlannerStages
  <2> DEFINE staged == [disk EXCEPT !.bootstrap = "followup-staged"]
  <2>1. staged \in MissionStates
    BY <1>2 DEF MissionStates, BootstrapStatus
  <2>2. Settle(staged, "running") /\ UNCHANGED <<disk, rs>>
    BY <1>8 DEF PlannerStages, files
  <2> HIDE DEF staged
  <2> QED
    BY <1>1, <2>1, <2>2, SettleInv
<1>9. CASE PlannerRaises
  <2>1. mem' = disk /\ pc' = "loop" /\ UNCHANGED <<disk, rs>>
    BY <1>9 DEF PlannerRaises, files
  <2>2. rt'.iterations = rt.iterations
    BY <1>9 DEF PlannerRaises, IInv, TypeOK, RuntimeStates
  <2> QED
    BY <1>1, <1>3, <2>1, <2>2
       DEF IInv, CompletionNeedsEvidence, CompletionOnItsWay, CompletedIsLeftAlone,
           WrittenAgrees, CounterLeads, MissionFileLeads, Writing
<1> QED
  BY <1>4, <1>5, <1>6, <1>7, <1>8, <1>9 DEF Execute

LEMMA EndPassInv ==
    ASSUME IInv, TypeOK', EndPass
    PROVE  IInv'
PROOF
<1>1. UNCHANGED <<disk, rs>> /\ pc \in {"check", "loop"} /\ rt \in RuntimeStates
  BY DEF EndPass, NextIteration, StopCondition, StopAtLimit, ReturnAtLimit, AtLimit, files,
         IInv, TypeOK
<1>2. rt.iterations = rs.iterations /\ rs.iterations \in Nat /\ MissionFileLeads
  BY <1>1 DEF IInv, CounterLeads, TypeOK, RuntimeStates, Writing
<1>3. CompletionNeedsEvidence' /\ MissionFileLeads'
  BY <1>1, <1>2
     DEF IInv, CompletionNeedsEvidence, MissionFileLeads, Justified, Evidence, PhaseEvidence,
         PhaseOutputs, MissingOutputs, Observed
<1>4. pc = "check" => disk = mem
  BY DEF IInv, WrittenAgrees
<1>5. CASE NextIteration \/ ReturnAtLimit
  <2>1. /\ UNCHANGED <<mem, rt>> /\ pc' \in {"idle", "loop"}
        /\ pc' = "loop" => pc = "check" /\ rt.status \notin Terminal
    BY <1>5 DEF NextIteration, ReturnAtLimit
  <2>2. CompletionOnItsWay'
    BY <2>1 DEF IInv, CompletionOnItsWay, Writing, Justified, Evidence, PhaseEvidence,
                PhaseOutputs, MissingOutputs, Observed
  <2>3. pc' = "loop" => disk.status # "completed"
    BY <1>4, <2>1 DEF IInv, CompletionOnItsWay, Terminal
  <2> QED
    BY <1>1, <1>2, <1>3, <2>1, <2>2, <2>3
       DEF IInv, CompletedIsLeftAlone, WrittenAgrees, CounterLeads, Writing
<1>6. CASE StopCondition \/ StopAtLimit
  <2>1. disk.status # "completed"
    BY <1>1, <1>4, <1>6
       DEF IInv, CompletionOnItsWay, CompletedIsLeftAlone, StopCondition, StopAtLimit, AtLimit,
           Terminal
  <2>2. mem'.status = "paused"
    BY <1>6 DEF StopCondition, StopAtLimit, StopStatus, IInv, TypeOK, MissionStates
  <2>3. rt'.iterations = rt.iterations /\ pc' = "inbox"
    BY <1>1, <1>6 DEF StopCondition, StopAtLimit, BeginWrite, RuntimeStates
  <2> QED
    BY <1>1, <1>2, <1>3, <2>1, <2>2, <2>3
       DEF IInv, CompletionOnItsWay, CompletedIsLeftAlone, WrittenAgrees, CounterLeads, Writing
<1> QED
  BY <1>5, <1>6 DEF EndPass

LEMMA EnvironmentInv ==
    ASSUME IInv, TypeOK', Crash \/ OperatorFix
    PROVE  IInv'
PROOF
<1>1. CASE Crash
  <2>1. mem' = disk /\ rt' = rs /\ pc' = "down" /\ UNCHANGED <<disk, rs>>
    BY <1>1 DEF Crash, files
  <2>2. CompletionNeedsEvidence' /\ MissionFileLeads'
    BY <2>1 DEF IInv, CompletionNeedsEvidence, MissionFileLeads
  <2>3. CompletionOnItsWay'
    BY <2>1 DEF IInv, CompletionNeedsEvidence, CompletionOnItsWay, Writing
  <2> QED
    BY <2>1, <2>2, <2>3 DEF IInv, CompletedIsLeftAlone, WrittenAgrees, CounterLeads, Writing
<1>2. CASE OperatorFix
  <2>1. /\ pc \in Stopped /\ UNCHANGED <<rs, rt, pc>> /\ mem' = disk'
        /\ disk'.status # "completed" /\ disk'.runtime = disk.runtime
    BY <1>2 DEF OperatorFix, IInv, TypeOK, MissionStates
  <2> QED
    BY <2>1 DEF IInv, CompletionNeedsEvidence, CompletionOnItsWay, CompletedIsLeftAlone,
                WrittenAgrees, CounterLeads, MissionFileLeads, Stopped, Writing
<1> QED
  BY <1>1, <1>2

LEMMA StepInv ==
    ASSUME ReportsLeaveCompletion, IInv, [Next]_vars
    PROVE  IInv'
PROOF
<1>1. TypeOK'
  BY StepType DEF IInv
<1>2. CASE UNCHANGED vars
  BY <1>1, <1>2
     DEF vars, IInv, CompletionNeedsEvidence, CompletionOnItsWay, CompletedIsLeftAlone,
         WrittenAgrees, CounterLeads, MissionFileLeads, Justified, Evidence, PhaseEvidence,
         PhaseOutputs, MissingOutputs, Observed, Research
<1> QED
  BY <1>1, <1>2, StartInv, WriteInv, DecideInv, ExecuteInv, EndPassInv, EnvironmentInv
     DEF Next, PassStep, Start

\* The inductive invariant holds of every behaviour of the outer loop whose agents
\* leave it to the outer loop to say that the mission is completed.
THEOREM Invariance ==
    ASSUME ReportsLeaveCompletion
    PROVE  Spec => []IInv
PROOF
<1>1. Init => IInv
  BY InitInv
<1>2. IInv /\ [Next]_vars => IInv'
  BY StepInv
<1> QED
  BY <1>1, <1>2, PTL DEF Spec

----------------------------------------------------------------------------
(* What follows from it.                                                   *)

\* No mission file ever says "completed" without the evidence the completion
\* contract asks for, for any contract, any executors and any crashes, and whatever
\* phase or outputs the agents' updates name, as long as none names that status.
THEOREM CompletionIsJustified ==
    ASSUME ReportsLeaveCompletion
    PROVE  Spec => []CompletionNeedsEvidence
PROOF
<1>1. IInv => CompletionNeedsEvidence
  BY DEF IInv
<1> QED
  BY <1>1, Invariance, PTL

\* However often the process dies between its writes, the mission file counts
\* the iterations of the runtime file, or exactly one more.
THEOREM MissionFileIsAhead ==
    ASSUME ReportsLeaveCompletion
    PROVE  Spec => []MissionFileLeads
PROOF
<1>1. IInv => MissionFileLeads
  BY DEF IInv
<1> QED
  BY <1>1, Invariance, PTL

LEMMA CompletedStep ==
    ASSUME IInv, Next, disk.status = "completed"
    PROVE  Research(disk') = Research(disk)
PROOF
<1>1. pc \notin {"loop", "execute", "planner"}
  BY DEF IInv, CompletedIsLeftAlone
<1>2. ~Decide /\ ~Execute
  BY <1>1 DEF Decide, DecideComplete, DecideBlock, DecideTransition, DecideDispatch,
              DecideNoExecutor, Deciding, Execute, AgentIterate, ExecutorReturns, ExecutorRaises,
              CallPlanner, PlannerStages, PlannerRaises
<1>3. CASE Write
  <2>1. CASE WriteMission
    <3>1. disk' = mem /\ pc \in Writing
      BY <2>1 DEF WriteMission, Writing
    <3> QED
      BY <3>1 DEF IInv, CompletedIsLeftAlone
  <2>2. CASE WriteInbox \/ WriteRuntime
    BY <2>2 DEF WriteInbox, WriteRuntime
  <2> QED
    BY <1>3, <2>1, <2>2 DEF Write
<1>4. CASE EndPass
  BY <1>4 DEF EndPass, NextIteration, StopCondition, StopAtLimit, ReturnAtLimit, files
<1>5. CASE Start
  BY <1>5 DEF Start, LaunchPass, LaunchCompleted, Launch, files
<1>6. CASE Crash
  BY <1>6 DEF Crash, files
<1>7. ~OperatorFix
  BY DEF OperatorFix
<1> QED
  BY <1>2, <1>3, <1>4, <1>5, <1>6, <1>7 DEF Next, PassStep

\* A completed mission stays as it was completed: no relaunch, no crash and no
\* writer that comes late changes what it recorded.
THEOREM CompletionStays ==
    ASSUME ReportsLeaveCompletion
    PROVE  Spec => CompletionIsFinal
PROOF
<1> DEFINE A == disk.status = "completed" => Research(disk') = Research(disk)
<1>1. IInv /\ [Next]_vars => [A]_vars
  BY CompletedStep
<1>2. Spec => [][A]_vars
  BY <1>1, Invariance, PTL DEF Spec
<1> QED
  BY <1>2 DEF CompletionIsFinal

----------------------------------------------------------------------------
(* How a pass ends.                                                        *)

\* The mission status that goes with a runtime status.
StatusesAgree(m, s) ==
    /\ \A x \in {"completed", "blocked", "failed"} : s = x <=> m.status = x
    /\ s = "max-iterations" <=> m.status = "paused"

\* The operator is asked if, and only if, the pass stopped for a reason.
Told(m, s) ==
    /\ request <=> s \in {"blocked", "failed"}
    /\ request <=> m.operator_inbox = "open"

\* The inductive invariant behind CleanEndAgrees: what is written at the end of an
\* iteration agrees before it is written, so that the four places agree after it; and
\* a pass that has decided something does not leave by the limit without writing.
EndInv ==
    /\ pc \in Writing /\ resume # "execute" => StatusesAgree(mem, rt.status)
    /\ pc \in {"state", "runtime"} => Told(mem, rt.status)
    /\ pc = "check" =>
         /\ rs = rt /\ mem.runtime = rt
         /\ StatusesAgree(mem, rt.status) /\ Told(mem, rt.status)
    /\ pc \in Writing \cup {"check"} => rt.status # "initialized"
    /\ pc \in {"execute", "planner"} \/ (pc \in Writing /\ resume = "execute") =>
         rt.iterations < budget
    /\ pc = "loop" /\ decisions > 0 => rt.status = "running" \/ rt.iterations < budget
    /\ CleanEndAgrees

LEMMA EndInit == Init => EndInv
PROOF
<1> SUFFICES ASSUME Init PROVE EndInv
  OBVIOUS
<1>1. pc = "idle" /\ decisions = 0 /\ disk.status # "completed"
  BY BoundAssumption DEF Init
<1> QED
  BY <1>1 DEF EndInv, CleanEndAgrees, Writing

\* The end of an iteration asks only that the two statuses it writes agree.
LEMMA EndIterationEnds ==
    ASSUME NEW m, NEW s \in RuntimeStatus \ {"initialized"}, StatusesAgree(m, s),
           EndIteration(m, s)
    PROVE  EndInv'
PROOF
<1>1. /\ mem' = m /\ rt'.status = s
      /\ pc' = "inbox" /\ resume' = "check"
  BY DEF EndIteration, BeginWrite
<1> QED
  BY <1>1 DEF EndInv, CleanEndAgrees, Writing, StatusesAgree

LEMMA StopStatusAgrees ==
    ASSUME NEW m \in MissionStates,
           NEW s \in {"completed", "blocked", "failed", "max-iterations"}
    PROVE  StatusesAgree(StopStatus(m, s), s)
BY DEF StopStatus, StatusesAgree, MissionStates

LEMMA SettleEnds ==
    ASSUME NEW m \in MissionStates,
           NEW s \in {"running", "blocked", "failed", "max-iterations"}, Settle(m, s)
    PROVE  EndInv'
PROOF
<1> DEFINE m1 == IF s = "running" THEN [m EXCEPT !.status = "running"] ELSE StopStatus(m, s)
<1>1. StatusesAgree(m1, s)
  <2>1. CASE s = "running"
    BY <2>1 DEF StatusesAgree, MissionStates
  <2>2. CASE s # "running"
    BY <2>2, StopStatusAgrees
  <2> QED
    BY <2>1, <2>2
<1>2. EndIteration(m1, s) /\ s \in RuntimeStatus \ {"initialized"}
  BY DEF Settle, RuntimeStatus
<1> HIDE DEF m1
<1> QED
  BY <1>1, <1>2, EndIterationEnds

LEMMA StartEnds ==
    ASSUME IInv, EndInv, NEW b \in Budgets, LaunchPass(b) \/ LaunchCompleted(b)
    PROVE  EndInv'
PROOF
<1>1. CASE LaunchPass(b)
  BY <1>1 DEF LaunchPass, Launch, EndInv, CleanEndAgrees, Writing
<1>2. CASE LaunchCompleted(b)
  <2>1. /\ pc' = "inbox" /\ resume' = "end" /\ mem' = disk /\ disk.status = "completed"
        /\ rt' = [rs EXCEPT !.status = "completed"] /\ rs \in RuntimeStates
    BY <1>2 DEF LaunchCompleted, Launch, IInv, TypeOK
  <2>2. rt'.status = "completed"
    BY <2>1 DEF RuntimeStates
  <2> QED
    BY <2>1, <2>2 DEF EndInv, CleanEndAgrees, Writing, StatusesAgree
<1> QED
  BY <1>1, <1>2

LEMMA WriteEnds ==
    ASSUME IInv, EndInv, Write
    PROVE  EndInv'
PROOF
<1> USE DEF Writing
<1>1. CASE WriteInbox
  <2>1. /\ mem' = [mem EXCEPT !.operator_inbox = IF request' THEN "open" ELSE "clear",
                              !.runtime = rt]
        /\ request' = (rt.status \in {"blocked", "failed"})
        /\ pc = "inbox" /\ pc' = "state" /\ UNCHANGED <<rt, resume, budget>>
    BY <1>1 DEF WriteInbox, steady
  <2>2. /\ mem'.status = mem.status
        /\ mem'.operator_inbox = IF request' THEN "open" ELSE "clear"
    BY <2>1 DEF IInv, TypeOK, MissionStates
  <2>3. Told(mem, rt.status)'
    <3>1. rt.status \in {"blocked", "failed"} => request'
      BY <2>1, Zenon
    <3>2. rt.status \notin {"blocked", "failed"} => ~request'
      BY <2>1, Zenon
    <3>3. request' => mem'.operator_inbox = "open"
      BY <2>2, Zenon
    <3>4. ~request' => mem'.operator_inbox # "open"
      BY <2>2
    <3>5. rt' = rt
      BY <2>1
    <3> QED
      BY <3>1, <3>2, <3>3, <3>4, <3>5 DEF Told
  <2>4. resume # "execute" => StatusesAgree(mem, rt.status)'
    BY <2>1, <2>2 DEF EndInv, StatusesAgree
  <2>5. rt'.status # "initialized" /\ (resume = "execute" => rt'.iterations < budget')
    BY <2>1 DEF EndInv
  <2> QED
    BY <2>1, <2>3, <2>4, <2>5 DEF EndInv, CleanEndAgrees
<1>2. CASE WriteMission
  BY <1>2 DEF WriteMission, steady, EndInv, CleanEndAgrees, StatusesAgree, Told
<1>3. CASE WriteRuntime
  <2>1. /\ pc = "runtime" /\ rs' = rt /\ disk = mem /\ mem.runtime = rt
        /\ pc' = IF resume = "end" THEN "idle" ELSE resume
        /\ resume \in {"check", "execute", "end"}
        /\ UNCHANGED <<disk, request, mem, rt, budget>>
    BY <1>3 DEF WriteRuntime, steady, IInv, WrittenAgrees, TypeOK
  <2>2. CASE resume = "execute"
    BY <2>1, <2>2 DEF EndInv, CleanEndAgrees
  <2>3. CASE resume # "execute"
    <3>1. StatusesAgree(mem, rt.status) /\ Told(mem, rt.status) /\ rt.status # "initialized"
      BY <2>1, <2>3 DEF EndInv
    <3>2. CASE resume = "check"
      BY <2>1, <3>1, <3>2 DEF EndInv, CleanEndAgrees, StatusesAgree, Told
    <3>3. CASE resume = "end"
      <4>1. /\ rs' = disk'.runtime
            /\ request' <=> rs'.status \in {"blocked", "failed"}
            /\ request' <=> disk'.operator_inbox = "open"
        BY <2>1, <3>1 DEF Told
      <4>2. /\ \A s \in {"completed", "blocked", "failed"} : rs'.status = s <=> disk'.status = s
            /\ rs'.status = "max-iterations" <=> disk'.status = "paused"
        BY <2>1, <3>1 DEF StatusesAgree
      <4> QED
        BY <2>1, <3>3, <4>1, <4>2 DEF EndInv, CleanEndAgrees
    <3> QED
      BY <2>1, <2>3, <3>2, <3>3
  <2> QED
    BY <2>2, <2>3
<1> QED
  BY <1>1, <1>2, <1>3 DEF Write

LEMMA DecideEnds ==
    ASSUME IInv, EndInv, Decide
    PROVE  EndInv'
PROOF
<1> DEFINE p == disk.current_phase
<1>1. disk \in MissionStates /\ p \in Phase /\ disk.next_phase \in Phase
  BY DEF IInv, TypeOK, MissionStates
<1>2. {"completed", "blocked", "running"} \subseteq RuntimeStatus \ {"initialized"}
  BY DEF RuntimeStatus
<1>3. CASE DecideComplete
  BY <1>1, <1>2, <1>3, StopStatusAgrees, EndIterationEnds DEF DecideComplete
<1>4. CASE DecideBlock
  BY <1>1, <1>2, <1>4, StopStatusAgrees, EndIterationEnds DEF DecideBlock
<1>5. CASE DecideTransition
  <2> DEFINE m == [ApplyPhaseChange(disk, disk.next_phase, disk.next_phase)
                     EXCEPT !.status = "running"]
  <2>1. m.status = "running"
    BY <1>1, ApplyPhaseChangeType DEF MissionStates
  <2>2. EndIteration(m, "running")
    BY <1>5 DEF DecideTransition
  <2>3. StatusesAgree(m, "running")
    BY <2>1 DEF StatusesAgree
  <2> HIDE DEF m
  <2> QED
    BY <1>2, <2>2, <2>3, EndIterationEnds
<1>6. CASE DecideDispatch
  <2>1. /\ pc' = "inbox" /\ resume' = "execute" /\ rt' = [rt EXCEPT !.status = "running"]
        /\ rt.iterations < budget /\ budget' = budget
    BY <1>6 DEF DecideDispatch, BeginWrite, Deciding, steady
  <2>2. rt'.status = "running" /\ rt'.iterations = rt.iterations
    BY <2>1 DEF IInv, TypeOK, RuntimeStates
  <2> QED
    BY <2>1, <2>2 DEF EndInv, CleanEndAgrees, Writing
<1>7. CASE DecideNoExecutor
  <2> DEFINE m == [disk EXCEPT !.action[p] = "blocked", !.due[p] = DueOutputs(disk)]
  <2>1. m \in MissionStates
    BY <1>1, DueOutputsType DEF MissionStates, ActionStatus
  <2>2. EndIteration(StopStatus(m, "blocked"), "blocked")
    BY <1>7 DEF DecideNoExecutor
  <2> HIDE DEF m
  <2> QED
    BY <1>2, <2>1, <2>2, StopStatusAgrees, EndIterationEnds
<1> QED
  BY <1>3, <1>4, <1>5, <1>6, <1>7 DEF Decide

LEMMA ExecuteEnds ==
    ASSUME IInv, EndInv, Execute
    PROVE  EndInv'
PROOF
<1> DEFINE Statuses == {"completed", "blocked", "failed", "deferred", "max-iterations"}
<1>1. disk \in MissionStates /\ mem \in MissionStates /\ work \in Works /\ work.phase \in Phase
  BY DEF IInv, TypeOK, Works, Given
<1>2. CASE AgentIterate
  BY <1>2 DEF AgentIterate, EndInv, CleanEndAgrees, Writing
<1>3. ASSUME NEW s \in Statuses, ExecutorReturns(s)
      PROVE  EndInv'
  <2>1. ExecutorUpdates(disk, work, s) \in MissionStates
    BY <1>1, ExecutorUpdatesType
  <2>2. RuntimeAfter(Executor[work.phase], s) \in {"running", "blocked", "failed", "max-iterations"}
    BY DEF RuntimeAfter
  <2>3. Settle(ExecutorUpdates(disk, work, s), RuntimeAfter(Executor[work.phase], s))
    BY <1>3 DEF ExecutorReturns
  <2> QED
    BY <2>1, <2>2, <2>3, SettleEnds
<1>4. CASE ExecutorRaises
  <2> DEFINE kept == [KeepInMemory(mem, disk) EXCEPT !.action[work.phase] = "blocked"]
  <2>1. KeepInMemory(mem, disk) \in MissionStates
    BY <1>1, KeepInMemoryType
  <2>2. kept \in MissionStates
    BY <1>1, <2>1 DEF MissionStates, ActionStatus
  <2>3. Settle(kept, "failed")
    BY <1>4 DEF ExecutorRaises
  <2> HIDE DEF kept
  <2> QED
    BY <2>2, <2>3, SettleEnds
<1>5. CASE CallPlanner
  BY <1>5 DEF CallPlanner, steady, EndInv, CleanEndAgrees, Writing
<1>6. CASE PlannerStages
  <2> DEFINE staged == [disk EXCEPT !.bootstrap = "followup-staged"]
  <2>1. staged \in MissionStates
    BY <1>1 DEF MissionStates, BootstrapStatus
  <2>2. Settle(staged, "running")
    BY <1>6 DEF PlannerStages
  <2> HIDE DEF staged
  <2> QED
    BY <2>1, <2>2, SettleEnds
<1>7. CASE PlannerRaises
  <2>1. /\ pc = "planner" /\ pc' = "loop" /\ budget' = budget
        /\ rt' = [rt EXCEPT !.status = "failed"]
    BY <1>7 DEF PlannerRaises, steady
  <2>2. rt'.iterations = rt.iterations
    BY <2>1 DEF IInv, TypeOK, RuntimeStates
  <2> QED
    BY <2>1, <2>2 DEF EndInv, CleanEndAgrees, Writing
<1> QED
  BY <1>2, <1>3, <1>4, <1>5, <1>6, <1>7 DEF Execute

LEMMA EndPassEnds ==
    ASSUME IInv, EndInv, EndPass
    PROVE  EndInv'
PROOF
<1> USE DEF Writing
<1>1. /\ disk \in MissionStates /\ mem \in MissionStates /\ rt \in RuntimeStates
      /\ budget \in Nat /\ rt.iterations \in Nat
  BY DEF IInv, TypeOK, RuntimeStates
<1>2. CASE NextIteration
  <2>1. /\ pc = "check" /\ disk = mem
        /\ pc' = IF rt.status \in Terminal THEN "idle" ELSE "loop"
        /\ UNCHANGED <<disk, rs, request, mem, rt>>
    BY <1>2 DEF NextIteration, files, IInv, WrittenAgrees
  <2>2. CASE rt.status \in Terminal
    <3>1. /\ pc' = "idle" /\ rs = rt /\ mem.runtime = rt
          /\ StatusesAgree(mem, rt.status) /\ Told(mem, rt.status)
      BY <2>1, <2>2 DEF EndInv
    <3>2. CleanEndAgrees'
      BY <2>1, <3>1 DEF CleanEndAgrees, StatusesAgree, Told
    <3> QED
      BY <3>1, <3>2 DEF EndInv
  <2>3. CASE rt.status \notin Terminal
    <3>1. rt.status = "running" /\ pc' = "loop"
      BY <1>1, <2>1, <2>3 DEF EndInv, Terminal, RuntimeStates, RuntimeStatus
    <3> QED
      BY <2>1, <3>1 DEF EndInv, CleanEndAgrees
  <2> QED
    BY <2>2, <2>3
<1>3. CASE StopCondition \/ StopAtLimit
  <2> DEFINE m == IF StopCondition THEN mem ELSE disk
  <2>1. /\ pc' = "inbox" /\ resume' = "end"
        /\ rt' = [rt EXCEPT !.status = "max-iterations"]
        /\ mem' = StopStatus(mem, "max-iterations") \/ mem' = StopStatus(disk, "max-iterations")
    BY <1>3 DEF StopCondition, StopAtLimit, BeginWrite
  <2>2. rt'.status = "max-iterations"
    BY <1>1, <2>1 DEF RuntimeStates
  <2>3. StatusesAgree(mem', "max-iterations")
    BY <1>1, <2>1, StopStatusAgrees
  <2>4. StatusesAgree(mem, rt.status)'
    BY <2>2, <2>3 DEF StatusesAgree
  <2> QED
    BY <2>1, <2>2, <2>4 DEF EndInv, CleanEndAgrees
<1>4. CASE ReturnAtLimit
  <2>1. /\ pc = "loop" /\ pc' = "idle" /\ rt.status # "running" /\ rt.iterations >= budget
        /\ UNCHANGED <<disk, decisions>>
    BY <1>4 DEF ReturnAtLimit, AtLimit, files
  <2>2. ~(decisions > 0)
    BY <1>1, <2>1 DEF EndInv
  <2>3. disk.status # "completed"
    BY <2>1 DEF IInv, CompletedIsLeftAlone
  <2> QED
    BY <2>1, <2>2, <2>3 DEF EndInv, CleanEndAgrees
<1> QED
  BY <1>2, <1>3, <1>4 DEF EndPass

LEMMA EnvironmentEnds ==
    ASSUME IInv, EndInv, Crash \/ OperatorFix
    PROVE  EndInv'
PROOF
<1>1. CASE Crash
  BY <1>1 DEF Crash, EndInv, CleanEndAgrees, Writing
<1>2. CASE OperatorFix
  <2>1. /\ pc \in Stopped /\ UNCHANGED <<rs, request, pc, decisions>>
        /\ disk'.status = disk.status /\ disk'.runtime = disk.runtime
        /\ disk'.operator_inbox = disk.operator_inbox
    BY <1>2 DEF OperatorFix, IInv, TypeOK, MissionStates
  <2>2. CleanEndAgrees'
    BY <2>1 DEF EndInv, CleanEndAgrees
  <2> QED
    BY <2>1, <2>2 DEF EndInv, Stopped, Writing
<1> QED
  BY <1>1, <1>2

LEMMA StepEnds ==
    ASSUME IInv, EndInv, [Next]_vars
    PROVE  EndInv'
PROOF
<1>1. CASE UNCHANGED vars
  BY <1>1 DEF vars, EndInv, CleanEndAgrees, StatusesAgree, Told
<1> QED
  BY <1>1, StartEnds, WriteEnds, DecideEnds, ExecuteEnds, EndPassEnds, EnvironmentEnds
     DEF Next, PassStep, Start

\* When a pass that did something has returned, runtime file, mission file and operator
\* request tell the same end of it, whatever crashed before.
THEOREM CleanEndsAgree ==
    ASSUME ReportsLeaveCompletion
    PROVE  Spec => []CleanEndAgrees
PROOF
<1>1. Init => EndInv
  BY EndInit
<1>2. IInv /\ EndInv /\ [Next]_vars => EndInv'
  BY StepEnds
<1>3. EndInv => CleanEndAgrees
  BY DEF EndInv
<1> QED
  BY <1>1, <1>2, <1>3, Invariance, PTL DEF Spec

----------------------------------------------------------------------------
(* What an executor finds when it starts.                                  *)

\* A mission state that shows the dispatched action as under way.
Dispatched(m) ==
    /\ m.current_phase = work.phase
    /\ m.action[work.phase] = "in_progress"
    /\ Executor[work.phase] = "self-healing-queue" => m.bootstrap # "pending"

\* The inductive invariant behind IntentIsDurable: the pass that is about to start an
\* executor is writing the state that says so.
IntentInv ==
    /\ pc \in Writing /\ resume = "execute" => Dispatched(mem)
    /\ IntentIsDurable

LEMMA IntentElsewhere ==
    ASSUME pc' # "execute", ~(pc' \in Writing /\ resume' = "execute")
    PROVE  IntentInv'
BY DEF IntentInv, IntentIsDurable

LEMMA WriteIntent ==
    ASSUME IInv, IntentInv, Write
    PROVE  IntentInv'
PROOF
<1>1. UNCHANGED work
  BY DEF Write, WriteInbox, WriteMission, WriteRuntime
<1>2. CASE WriteInbox
  <2>1. /\ pc = "inbox" /\ pc' = "state" /\ resume' = resume
        /\ mem'.current_phase = mem.current_phase
        /\ mem'.action = mem.action
        /\ mem'.bootstrap = mem.bootstrap
    BY <1>2 DEF WriteInbox, IInv, TypeOK, MissionStates
  <2> QED
    BY <1>1, <2>1 DEF IntentInv, IntentIsDurable, Dispatched, Writing
<1>3. CASE WriteMission
  BY <1>1, <1>3 DEF WriteMission, IntentInv, IntentIsDurable, Dispatched, Writing
<1>4. CASE WriteRuntime
  <2>1. /\ pc = "runtime" /\ disk = mem /\ disk' = disk /\ resume' = "check"
        /\ pc' = IF resume = "end" THEN "idle" ELSE resume
        /\ resume \in {"check", "execute", "end"}
    BY <1>4 DEF WriteRuntime, IInv, WrittenAgrees, TypeOK
  <2>2. CASE resume = "execute"
    BY <1>1, <2>1, <2>2 DEF IntentInv, IntentIsDurable, Dispatched, Writing
  <2>3. CASE resume # "execute"
    BY <2>1, <2>3, IntentElsewhere DEF Writing
  <2> QED
    BY <2>2, <2>3
<1> QED
  BY <1>2, <1>3, <1>4 DEF Write

LEMMA DispatchIntent ==
    ASSUME IInv, DecideDispatch
    PROVE  IntentInv'
PROOF
<1> DEFINE p == disk.current_phase
<1>1. disk \in MissionStates /\ p \in Phase
  BY DEF IInv, TypeOK, MissionStates
<1>2. /\ pc' = "inbox" /\ work'.phase = p
      /\ mem' = [disk EXCEPT
                   !.action[p] = "in_progress",
                   !.due[p] = DueOutputs(disk),
                   !.bootstrap = IF Executor[p] = "self-healing-queue" /\ @ = "pending"
                                 THEN "baseline-running" ELSE @]
  BY DEF DecideDispatch, BeginWrite
<1>3. mem'.current_phase = p /\ mem'.action[p] = "in_progress"
  BY <1>1, <1>2 DEF MissionStates
<1>4. Executor[p] = "self-healing-queue" => mem'.bootstrap # "pending"
  BY <1>1, <1>2 DEF MissionStates
<1>5. Dispatched(mem)'
  BY <1>2, <1>3, <1>4 DEF Dispatched
<1> QED
  BY <1>2, <1>5 DEF IntentInv, IntentIsDurable

LEMMA StepIntent ==
    ASSUME IInv, IntentInv, [Next]_vars
    PROVE  IntentInv'
PROOF
<1>1. CASE UNCHANGED vars
  BY <1>1 DEF vars, IntentInv, IntentIsDurable, Dispatched
<1>2. CASE Write
  BY <1>2, WriteIntent
<1>3. CASE Decide
  <2>1. CASE DecideDispatch
    BY <2>1, DispatchIntent
  <2>2. CASE ~DecideDispatch
    <3>1. pc' = "inbox" /\ resume' = "check"
      BY <1>3, <2>2 DEF Decide, DecideComplete, DecideBlock, DecideTransition,
                        DecideNoExecutor, EndIteration, BeginWrite
    <3> QED
      BY <3>1, IntentElsewhere
  <2> QED
    BY <2>1, <2>2
<1>4. CASE Execute
  <2>1. CASE AgentIterate
    <3>1. /\ pc = "execute" /\ UNCHANGED <<pc, resume>>
          /\ \E r : work' = [work EXCEPT !.iterations = @ + 1, !.report = r]
      BY <2>1, Zenon DEF AgentIterate
    <3>2. work'.iterations # 0
      BY <3>1 DEF IInv, TypeOK
    <3> QED
      BY <3>1, <3>2 DEF IntentInv, IntentIsDurable, Writing
  <2>2. CASE ~AgentIterate
    <3>1. pc' \in {"inbox", "planner", "loop"} /\ (pc' = "inbox" => resume' = "check")
      BY <1>4, <2>2 DEF Execute, ExecutorReturns, ExecutorRaises, CallPlanner, PlannerStages,
                        PlannerRaises, Settle, EndIteration, BeginWrite
    <3> QED
      BY <3>1, IntentElsewhere DEF Writing
  <2> QED
    BY <2>1, <2>2
<1>5. CASE EndPass
  <2>1. pc' \in {"idle", "loop"} \/ resume' = "end"
    BY <1>5 DEF EndPass, NextIteration, StopCondition, StopAtLimit, ReturnAtLimit, BeginWrite
  <2>2. pc' # "execute"
    BY <1>5 DEF EndPass, NextIteration, StopCondition, StopAtLimit, ReturnAtLimit, BeginWrite
  <2> QED
    BY <2>1, <2>2, IntentElsewhere DEF Writing
<1>6. CASE Start
  <2>1. pc' = "loop" \/ (pc' = "inbox" /\ resume' = "end")
    BY <1>6 DEF Start, LaunchPass, LaunchCompleted
  <2> QED
    BY <2>1, IntentElsewhere DEF Writing
<1>7. CASE Crash \/ OperatorFix
  <2>1. pc' \in Stopped
    BY <1>7 DEF Crash, OperatorFix, Stopped
  <2> QED
    BY <2>1, IntentElsewhere DEF Stopped, Writing
<1> QED
  BY <1>1, <1>2, <1>3, <1>4, <1>5, <1>6, <1>7 DEF Next, PassStep

\* An executor starts only on a mission file that already shows its action in progress and
\* its baseline running: whenever the process dies, nothing ran that the file denies.
THEOREM IntentComesFirst ==
    ASSUME ReportsLeaveCompletion
    PROVE  Spec => []IntentIsDurable
PROOF
<1>1. Init => IntentInv
  BY DEF Init, IntentInv, IntentIsDurable, Writing
<1>2. IInv /\ IntentInv /\ [Next]_vars => IntentInv'
  BY StepIntent
<1>3. IntentInv => IntentIsDurable
  BY DEF IntentInv
<1> QED
  BY <1>1, <1>2, <1>3, Invariance, PTL DEF Spec

----------------------------------------------------------------------------
(* What a writer may take away.                                            *)

\* The two records of the current phase's outputs agree.
Agrees(m) == m.produced_outputs = m.by_phase[m.current_phase]

\* Every output d has on record is on record in n, except those of a phase n enters again.
Kept(d, n) ==
    \A p \in Phase :
        d.by_phase[p] \subseteq n.by_phase[p]
        \/ /\ p \in d.phase_history
           /\ d.current_phase # p /\ n.current_phase = p

\* What Agrees and Kept look at.
SameOutputs(m, n) ==
    /\ n.by_phase = m.by_phase /\ n.produced_outputs = m.produced_outputs
    /\ n.current_phase = m.current_phase

LEMMA SameOutputsKept ==
    ASSUME NEW m, NEW n, SameOutputs(m, n)
    PROVE  (Agrees(m) => Agrees(n)) /\ Kept(m, n)
BY DEF SameOutputs, Agrees, Kept

LEMMA KeptThenSame ==
    ASSUME NEW d, NEW m, NEW n, Kept(d, m), SameOutputs(m, n)
    PROVE  Kept(d, n)
BY DEF SameOutputs, Kept

LEMMA MergeOutputsKept ==
    ASSUME NEW m \in MissionStates, NEW p \in Phase, NEW outputs \in SUBSET Output, Agrees(m)
    PROVE  /\ Agrees(MergeOutputs(m, p, outputs))
           /\ MergeOutputs(m, p, outputs).current_phase = m.current_phase
           /\ MergeOutputs(m, p, outputs).phase_history = m.phase_history
           /\ \A q \in Phase : m.by_phase[q] \subseteq MergeOutputs(m, p, outputs).by_phase[q]
PROOF
<1>1. CASE outputs = {}
  BY <1>1 DEF MergeOutputs
<1>2. CASE outputs # {}
  <2> DEFINE n == MergeOutputs(m, p, outputs)
  <2>1. /\ n.by_phase = [m.by_phase EXCEPT ![p] = @ \cup outputs]
        /\ n.current_phase = m.current_phase /\ n.phase_history = m.phase_history
        /\ n.produced_outputs = IF p = m.current_phase THEN m.produced_outputs \cup outputs
                                                       ELSE m.produced_outputs
    BY <1>2 DEF MergeOutputs, MissionStates
  <2>2. m.by_phase \in [Phase -> SUBSET Output] /\ m.current_phase \in Phase
    BY DEF MissionStates
  <2> HIDE DEF n
  <2>3. Agrees(n) /\ \A q \in Phase : m.by_phase[q] \subseteq n.by_phase[q]
    BY <2>1, <2>2 DEF Agrees
  <2> QED
    BY <2>1, <2>3 DEF n
<1> QED
  BY <1>1, <1>2

\* Changing phase loses only what the phase entered had on record.
LEMMA ApplyPhaseChangeKept ==
    ASSUME NEW m \in MissionStates, NEW to \in Phase, NEW next, Agrees(m)
    PROVE  /\ Agrees(ApplyPhaseChange(m, to, next))
           /\ Kept(m, ApplyPhaseChange(m, to, next))
           /\ m.current_phase = to => SameOutputs(m, ApplyPhaseChange(m, to, next))
PROOF
<1> DEFINE from   == m.current_phase
           merged == MergeOutputs(m, from, m.produced_outputs)
           n      == ApplyPhaseChange(m, to, next)
<1>1. from \in Phase /\ m.produced_outputs \in SUBSET Output
  BY DEF MissionStates
<1>2. CASE from = to
  <2>1. SameOutputs(m, n)
    BY <1>2 DEF ApplyPhaseChange, MissionStates, SameOutputs
  <2> QED
    BY <2>1, SameOutputsKept
<1>3. CASE from # to
  <2>1. /\ merged \in MissionStates
        /\ merged.current_phase = from /\ merged.phase_history = m.phase_history
        /\ \A q \in Phase : m.by_phase[q] \subseteq merged.by_phase[q]
    BY <1>1, MergeOutputsType, MergeOutputsKept
  <2> HIDE DEF merged
  <2>2. /\ n.current_phase = to
        /\ n.by_phase = [merged.by_phase EXCEPT ![to] = IF to \in m.phase_history THEN {} ELSE @]
        /\ n.produced_outputs = IF to \in m.phase_history THEN {} ELSE merged.by_phase[to]
    BY <1>3, <2>1 DEF ApplyPhaseChange, MissionStates, merged
  <2>3. merged.by_phase \in [Phase -> SUBSET Output]
    BY <2>1 DEF MissionStates
  <2> HIDE DEF n
  <2>4. Agrees(n)
    BY <2>2, <2>3 DEF Agrees
  <2>5. Kept(m, n)
    BY <1>3, <2>1, <2>2, <2>3 DEF Kept
  <2> QED
    BY <1>3, <2>4, <2>5 DEF n
<1> QED
  BY <1>2, <1>3

\* What an update may not hold for the two records to be as the agent runtime left them.
SettledIn(r, phase) ==
    /\ {"produced_outputs", "by_phase"} \cap DOMAIN r.updates = {}
    /\ "current_phase" \in DOMAIN r.updates => r.updates.current_phase = phase

LEMMA DeepMergeKept ==
    ASSUME NEW m \in MissionStates, NEW r, {"produced_outputs", "by_phase"} \cap DOMAIN r.updates = {}
    PROVE  /\ DeepMerge(m, r.updates).by_phase = m.by_phase
           /\ DeepMerge(m, r.updates).produced_outputs = m.produced_outputs
           /\ SettledIn(r, m.current_phase) => SameOutputs(m, DeepMerge(m, r.updates))
PROOF
<1> DEFINE n == DeepMerge(m, r.updates)
<1>1. /\ n.by_phase = [p \in Phase |-> m.by_phase[p]]
      /\ n.produced_outputs = m.produced_outputs
  BY NoUpdateType DEF DeepMerge, MissionStates
<1>2. m.by_phase \in [Phase -> SUBSET Output]
  BY DEF MissionStates
<1>3. n.by_phase = m.by_phase
  BY <1>1, <1>2
<1>4. n.current_phase = IF "current_phase" \in DOMAIN r.updates
                        THEN r.updates.current_phase ELSE m.current_phase
  BY DEF DeepMerge, MissionStates
<1> HIDE DEF n
<1>5. SettledIn(r, m.current_phase) => SameOutputs(m, n)
  BY <1>1, <1>3, <1>4 DEF SettledIn, SameOutputs
<1> QED
  BY <1>1, <1>3, <1>5 DEF n

\* An agent's result adds outputs and shows those of the phase it leaves the mission in,
\* as long as its updates leave the outputs alone.
LEMMA ApplyAgentResultKept ==
    ASSUME NEW m \in MissionStates, NEW due \in SUBSET Output,
           NEW r, IsReport(r), NEW transition \in BOOLEAN, ~Strays(r, transition)
    PROVE  /\ Agrees(ApplyAgentResult(m, due, r, transition))
           /\ Kept(m, ApplyAgentResult(m, due, r, transition))
           /\ ApplyAgentResult(m, due, r, transition).current_phase = PhaseAfter(r, transition)
PROOF
<1> DEFINE merged   == DeepMerge(m, r.updates)
           to       == PhaseAfter(r, transition)
           outputs  == AgentOutputs(due, r)
           by_phase == [merged.by_phase EXCEPT ![r.of] = @ \cup outputs]
           n        == ApplyAgentResult(m, due, r, transition)
<1>1. {"produced_outputs", "by_phase"} \cap DOMAIN r.updates = {}
  BY DEF Strays
<1>2. merged \in MissionStates /\ merged.by_phase = m.by_phase
  BY <1>1, DeepMergeType, DeepMergeKept DEF IsReport
<1> HIDE DEF merged, to, outputs
<1>3. n.current_phase = to /\ n.by_phase = by_phase /\ n.produced_outputs = by_phase[to]
  BY <1>2 DEF ApplyAgentResult, MissionStates, merged, to, outputs
<1>4. \A p \in Phase : m.by_phase[p] \subseteq by_phase[p]
  BY <1>2 DEF MissionStates
<1> HIDE DEF n, by_phase
<1> QED
  BY <1>3, <1>4 DEF Agrees, Kept, n, to

\* The outer loop finds the phase the agent runtime settled on, and its updates settled.
LEMMA PhaseSettles ==
    ASSUME NEW r, IsReport(r), NEW transition \in BOOLEAN
    PROVE  PhaseReached(r, PhaseAfter(r, transition)) = PhaseAfter(r, transition)
BY DEF PhaseReached, PhaseAfter

Settled(w, phase) == SettledIn(w.report, phase) /\ PhaseReached(w.report, phase) = phase

\* The outer loop's own record of an executor's outputs only adds to the file.
LEMMA ExecutorUpdatesKept ==
    ASSUME NEW m \in MissionStates, NEW w \in Works, Agrees(m),
           w.iterations # 0 => Settled(w, m.current_phase),
           NEW s \in {"completed", "blocked", "failed", "deferred", "max-iterations"}
    PROVE  /\ Agrees(ExecutorUpdates(m, w, s))
           /\ Kept(m, ExecutorUpdates(m, w, s))
PROOF
<1> DEFINE p          == w.phase
           r          == w.report
           before     == DeepMerge(m, r.updates)
           to         == PhaseReached(r, before.current_phase)
           next       == IF r.next = NoPhase THEN before.next_phase ELSE r.next
           controlled == IF w.iterations = 0 THEN m ELSE ApplyPhaseChange(before, to, next)
           steered    == IF NextOnSuccess[p] # NoPhase /\ r.next = NoPhase
                         THEN [controlled EXCEPT !.next_phase = NextOnSuccess[p]]
                         ELSE controlled
           merged     == MergeOutputs(steered, p, m.due[p])
<1>1. p \in Phase /\ m.current_phase \in Phase /\ m.due[p] \in SUBSET Output /\ IsReport(r)
  BY GivenReports DEF MissionStates, Works
<1>2. controlled \in MissionStates /\ SameOutputs(m, controlled)
  <2>1. CASE w.iterations = 0
    BY <2>1 DEF SameOutputs
  <2>2. CASE w.iterations # 0
    <3>1. before \in MissionStates /\ SameOutputs(m, before)
      BY <1>1, <2>2, DeepMergeType, DeepMergeKept DEF IsReport, Settled, SettledIn
    <3>2. before.current_phase = m.current_phase /\ to = m.current_phase
      BY <2>2, <3>1 DEF Settled, SameOutputs
    <3>3. Agrees(before)
      BY <3>1, SameOutputsKept
    <3> HIDE DEF before, to, next
    <3>4. /\ ApplyPhaseChange(before, to, next) \in MissionStates
          /\ SameOutputs(before, ApplyPhaseChange(before, to, next))
      BY <1>1, <3>1, <3>2, <3>3, ApplyPhaseChangeType, ApplyPhaseChangeKept
    <3> QED
      BY <2>2, <3>1, <3>4 DEF SameOutputs
  <2> QED
    BY <2>1, <2>2
<1>3. steered \in MissionStates /\ SameOutputs(m, steered)
  <2>1. NextOnSuccess[p] \in Phase \cup {NoPhase}
    BY <1>1, HintAssumption
  <2> HIDE DEF controlled
  <2> QED
    BY <1>2, <2>1 DEF MissionStates, SameOutputs
<1>4. /\ merged \in MissionStates /\ Agrees(merged)
      /\ \A q \in Phase : m.by_phase[q] \subseteq merged.by_phase[q]
  <2>1. Agrees(steered)
    BY <1>3, SameOutputsKept
  <2> HIDE DEF steered, p
  <2> QED
    BY <1>1, <1>3, <2>1, MergeOutputsType, MergeOutputsKept DEF SameOutputs
<1>5. ExecutorUpdates(m, w, s) = [merged EXCEPT !.action[p] = ActionResult(s)]
  BY DEF ExecutorUpdates
<1> HIDE DEF merged, p
<1>6. SameOutputs(merged, ExecutorUpdates(m, w, s))
  BY <1>4, <1>5 DEF MissionStates, SameOutputs
<1> QED
  BY <1>4, <1>6, SameOutputsKept DEF Kept, SameOutputs

\* No executor raises once an agent of its dispatch has written the mission file: after
\* such a raise the outer loop puts its older copy of the file back (KeepInMemory).
NoLateRaise == [][ExecutorRaises => work.iterations = 0]_vars

\* The inductive invariant behind CurrentOutputsAgree and NoLostOutputs: the state being
\* written was computed from the file it replaces, and what an agent reported last is
\* settled in the file it left.
OutputsInv ==
    /\ Agrees(disk) /\ Agrees(mem)
    /\ pc \in {"inbox", "state"} => Kept(disk, mem)
    /\ pc = "execute" /\ work.iterations = 0 => disk = mem
    /\ pc = "execute" /\ work.iterations # 0 => Settled(work, disk.current_phase)
    /\ pc \notin {"execute", "planner"} => work.iterations = 0

\* An iteration that ends with a state computed from the file keeps the invariant.
LEMMA EndIterationOutputs ==
    ASSUME OutputsInv, UNCHANGED disk, NEW m, NEW s, EndIteration(m, s),
           Agrees(m), Kept(disk, m)
    PROVE  OutputsInv'
PROOF
<1>1. mem' = m /\ pc' = "inbox" /\ work'.iterations = 0
  BY DEF EndIteration, BeginWrite, NoWork
<1> QED
  BY <1>1 DEF OutputsInv, Agrees, Kept

LEMMA StatusOutputs ==
    ASSUME NEW m \in MissionStates, NEW s
    PROVE  SameOutputs(m, [m EXCEPT !.status = s]) /\ SameOutputs(m, StopStatus(m, s))
BY DEF StopStatus, MissionStates, SameOutputs

LEMMA StopStatusKept ==
    ASSUME NEW d, NEW m \in MissionStates, NEW s, Agrees(m), Kept(d, m)
    PROVE  /\ Agrees([m EXCEPT !.status = s]) /\ Kept(d, [m EXCEPT !.status = s])
           /\ Agrees(StopStatus(m, s)) /\ Kept(d, StopStatus(m, s))
BY StatusOutputs, SameOutputsKept, KeptThenSame

LEMMA KeptItself ==
    ASSUME NEW m
    PROVE  Kept(m, m)
BY DEF Kept

LEMMA SettleOutputs ==
    ASSUME OutputsInv, UNCHANGED disk, NEW m \in MissionStates, NEW s, Settle(m, s),
           Agrees(m), Kept(disk, m)
    PROVE  OutputsInv'
PROOF
<1> DEFINE m1 == IF s = "running" THEN [m EXCEPT !.status = "running"] ELSE StopStatus(m, s)
<1>1. Agrees(m1) /\ Kept(disk, m1)
  BY StopStatusKept
<1>2. EndIteration(m1, s)
  BY DEF Settle
<1> HIDE DEF m1
<1> QED
  BY <1>1, <1>2, EndIterationOutputs

LEMMA WriteOutputs ==
    ASSUME IInv, OutputsInv, Write
    PROVE  OutputsInv' /\ Kept(disk, disk')
PROOF
<1>1. CASE WriteInbox
  <2>1. /\ pc = "inbox" /\ pc' = "state" /\ UNCHANGED <<disk, work>>
        /\ SameOutputs(mem, mem')
    BY <1>1 DEF WriteInbox, IInv, TypeOK, MissionStates, SameOutputs
  <2>2. Agrees(mem') /\ Kept(disk, mem')
    BY <2>1, SameOutputsKept, KeptThenSame DEF OutputsInv
  <2> QED
    BY <2>1, <2>2, KeptItself DEF OutputsInv, Agrees, Kept
<1>2. CASE WriteMission
  BY <1>2 DEF WriteMission, OutputsInv, Agrees, Kept
<1>3. CASE WriteRuntime
  <2>1. /\ pc = "runtime" /\ pc' \notin {"inbox", "state"}
        /\ disk = mem /\ UNCHANGED <<disk, mem, work>>
    BY <1>3 DEF WriteRuntime, IInv, TypeOK, WrittenAgrees
  <2> QED
    BY <2>1, KeptItself DEF OutputsInv, Agrees
<1> QED
  BY <1>1, <1>2, <1>3 DEF Write

LEMMA DecideOutputs ==
    ASSUME IInv, OutputsInv, Decide
    PROVE  OutputsInv' /\ Kept(disk, disk')
PROOF
<1> DEFINE p == disk.current_phase
<1>1. disk \in MissionStates /\ p \in Phase /\ disk.next_phase \in Phase
  BY DEF IInv, TypeOK, MissionStates
<1>2. UNCHANGED disk /\ Agrees(disk) /\ Kept(disk, disk)
  BY KeptItself DEF Decide, DecideComplete, DecideBlock, DecideTransition, DecideDispatch,
                    DecideNoExecutor, Deciding, OutputsInv
<1>3. CASE DecideComplete \/ DecideBlock
  <2>1. PICK s : EndIteration(StopStatus(disk, s), s)
    BY <1>3 DEF DecideComplete, DecideBlock
  <2> QED
    BY <1>1, <1>2, <2>1, StopStatusKept, EndIterationOutputs
<1>4. CASE DecideTransition
  <2> DEFINE m == ApplyPhaseChange(disk, disk.next_phase, disk.next_phase)
  <2>1. m \in MissionStates /\ Agrees(m) /\ Kept(disk, m)
    BY <1>1, <1>2, ApplyPhaseChangeType, ApplyPhaseChangeKept
  <2>2. EndIteration([m EXCEPT !.status = "running"], "running")
    BY <1>4 DEF DecideTransition
  <2> HIDE DEF m
  <2> QED
    BY <1>2, <2>1, <2>2, StopStatusKept, EndIterationOutputs
<1>5. CASE DecideDispatch
  <2>1. SameOutputs(disk, mem') /\ pc' = "inbox" /\ work'.iterations = 0
    BY <1>1, <1>5 DEF DecideDispatch, BeginWrite, MissionStates, SameOutputs
  <2>2. Agrees(mem') /\ Kept(disk, mem')
    BY <1>2, <2>1, SameOutputsKept
  <2> QED
    BY <1>2, <2>1, <2>2 DEF OutputsInv, Agrees, Kept
<1>6. CASE DecideNoExecutor
  <2> DEFINE m == [disk EXCEPT !.action[p] = "blocked", !.due[p] = DueOutputs(disk)]
  <2>1. m \in MissionStates /\ SameOutputs(disk, m)
    BY <1>1, DueOutputsType DEF MissionStates, ActionStatus, SameOutputs
  <2>2. EndIteration(StopStatus(m, "blocked"), "blocked")
    BY <1>6 DEF DecideNoExecutor
  <2> HIDE DEF m
  <2>3. Agrees(m) /\ Kept(disk, m)
    BY <1>2, <2>1, SameOutputsKept
  <2> QED
    BY <1>2, <2>1, <2>2, <2>3, StopStatusKept, EndIterationOutputs
<1> QED
  BY <1>2, <1>3, <1>4, <1>5, <1>6 DEF Decide

LEMMA AgentIterateOutputs ==
    ASSUME IInv, OutputsInv, AgentIterate, ~strayed'
    PROVE  OutputsInv' /\ Kept(disk, disk')
PROOF
<1>1. disk \in MissionStates /\ work \in Works /\ work.phase \in Phase
  BY DEF IInv, TypeOK, Works, Given
<1>2. PICK r \in AgentReports, own \in BOOLEAN, transition \in BOOLEAN, s \in AgentResults :
        /\ r.of = IF own THEN work.phase ELSE disk.current_phase
        /\ own => disk.action[work.phase] \in {"pending", "in_progress", "deferred"}
        /\ disk' = [ApplyAgentResult(disk, IF own THEN disk.due[r.of] ELSE {}, r, transition)
                      EXCEPT !.action[work.phase] = IF own THEN s ELSE @]
        /\ work' = [work EXCEPT !.iterations = @ + 1, !.report = r]
        /\ strayed' = (strayed \/ Strays(r, transition))
  BY Zenon DEF AgentIterate
<1> DEFINE due == IF own THEN disk.due[r.of] ELSE {}
           m   == ApplyAgentResult(disk, due, r, transition)
<1>3. IsReport(r) /\ ~Strays(r, transition)
  BY <1>2, ReportAssumption
<1>4. due \in SUBSET Output
  BY <1>1, <1>3 DEF MissionStates, IsReport
<1>5. disk' = [m EXCEPT !.action[work.phase] = IF own THEN s ELSE @]
  BY <1>2
<1> HIDE DEF due
<1>6. /\ m \in MissionStates /\ Agrees(m) /\ Kept(disk, m)
      /\ m.current_phase = PhaseAfter(r, transition)
  BY <1>1, <1>3, <1>4, ApplyAgentResultType, ApplyAgentResultKept
<1> HIDE DEF m
<1>7. SameOutputs(m, disk')
  BY <1>5, <1>6 DEF MissionStates, SameOutputs
<1>8. Agrees(disk') /\ Kept(disk, disk')
  BY <1>6, <1>7, SameOutputsKept, KeptThenSame
<1>9. work'.iterations # 0 /\ work'.report = r
  BY <1>1, <1>2 DEF Works
<1>10. Settled(work', disk'.current_phase)
  <2>1. disk'.current_phase = PhaseAfter(r, transition)
    BY <1>6, <1>7 DEF SameOutputs
  <2>2. SettledIn(r, PhaseAfter(r, transition))
    BY <1>3 DEF SettledIn, Strays
  <2> QED
    BY <1>3, <1>9, <2>1, <2>2, PhaseSettles DEF Settled
<1>11. pc' = "execute" /\ mem' = mem
  BY DEF AgentIterate
<1> QED
  BY <1>8, <1>9, <1>10, <1>11 DEF OutputsInv, Agrees

LEMMA ExecuteOutputs ==
    ASSUME IInv, OutputsInv, Execute, ExecutorRaises => work.iterations = 0, ~strayed'
    PROVE  OutputsInv' /\ Kept(disk, disk')
PROOF
<1> DEFINE Statuses == {"completed", "blocked", "failed", "deferred", "max-iterations"}
<1>1. disk \in MissionStates /\ mem \in MissionStates /\ work \in Works /\ work.phase \in Phase
  BY DEF IInv, TypeOK, Works, Given
<1>2. Agrees(disk) /\ Kept(disk, disk) /\ Agrees(mem)
  BY KeptItself DEF OutputsInv
<1>3. CASE AgentIterate
  BY <1>3, AgentIterateOutputs
<1>4. ASSUME NEW s \in Statuses, ExecutorReturns(s)
      PROVE  OutputsInv' /\ Kept(disk, disk')
  <2> DEFINE updated == ExecutorUpdates(disk, work, s)
  <2>1. updated \in MissionStates /\ Agrees(updated) /\ Kept(disk, updated)
    BY <1>1, <1>2, <1>4, ExecutorUpdatesType, ExecutorUpdatesKept DEF ExecutorReturns, OutputsInv
  <2>2. Settle(updated, RuntimeAfter(Executor[work.phase], s)) /\ UNCHANGED disk
    BY <1>4 DEF ExecutorReturns, files
  <2> HIDE DEF updated
  <2> QED
    BY <1>2, <2>1, <2>2, SettleOutputs
<1>5. CASE ExecutorRaises
  <2> DEFINE kept == [KeepInMemory(mem, disk) EXCEPT !.action[work.phase] = "blocked"]
  <2>1. KeepInMemory(mem, disk) \in MissionStates
    BY <1>1, KeepInMemoryType
  <2>2. kept \in MissionStates
    BY <1>1, <2>1 DEF MissionStates, ActionStatus
  <2>3. Settle(kept, "failed") /\ UNCHANGED disk /\ pc = "execute"
    BY <1>5 DEF ExecutorRaises, files
  <2>4. disk = mem
    BY <1>5, <2>3 DEF OutputsInv
  <2>5. SameOutputs(disk, kept)
    BY <1>1, <2>4 DEF KeepInMemory, MissionStates, SameOutputs
  <2> HIDE DEF kept
  <2>6. Agrees(kept) /\ Kept(disk, kept)
    BY <1>2, <2>5, SameOutputsKept
  <2> QED
    BY <1>2, <2>2, <2>3, <2>6, SettleOutputs
<1>6. CASE CallPlanner
  <2> DEFINE updated == ExecutorUpdates(disk, work, "completed")
  <2>1. Agrees(updated) /\ Kept(disk, updated)
    BY <1>1, <1>2, <1>6, ExecutorUpdatesKept DEF CallPlanner, OutputsInv
  <2>2. disk' = updated /\ mem' = updated /\ pc' = "planner"
    BY <1>6 DEF CallPlanner
  <2> HIDE DEF updated
  <2> QED
    BY <2>1, <2>2 DEF OutputsInv, Agrees
<1>7. CASE PlannerStages
  <2> DEFINE staged == [disk EXCEPT !.bootstrap = "followup-staged"]
  <2>1. staged \in MissionStates /\ SameOutputs(disk, staged)
    BY <1>1 DEF MissionStates, BootstrapStatus, SameOutputs
  <2>2. Settle(staged, "running") /\ UNCHANGED disk
    BY <1>7 DEF PlannerStages, files
  <2> HIDE DEF staged
  <2>3. Agrees(staged) /\ Kept(disk, staged)
    BY <1>2, <2>1, SameOutputsKept
  <2> QED
    BY <1>2, <2>1, <2>2, <2>3, SettleOutputs
<1>8. CASE PlannerRaises
  <2>1. mem' = disk /\ pc' = "loop" /\ UNCHANGED disk /\ work'.iterations = 0
    BY <1>8 DEF PlannerRaises, files, NoWork
  <2> QED
    BY <1>2, <2>1 DEF OutputsInv, Agrees
<1> QED
  BY <1>3, <1>4, <1>5, <1>6, <1>7, <1>8 DEF Execute

LEMMA EndPassOutputs ==
    ASSUME IInv, OutputsInv, EndPass
    PROVE  OutputsInv' /\ Kept(disk, disk')
PROOF
<1>1. /\ disk \in MissionStates /\ mem \in MissionStates
      /\ Agrees(disk) /\ Agrees(mem) /\ Kept(disk, disk)
  BY KeptItself DEF IInv, TypeOK, OutputsInv
<1>2. CASE NextIteration \/ ReturnAtLimit
  <2>1. UNCHANGED <<disk, mem, work>> /\ pc \in {"check", "loop"} /\ pc' \in {"idle", "loop"}
    BY <1>2 DEF NextIteration, ReturnAtLimit, AtLimit, files
  <2> QED
    BY <1>1, <2>1 DEF OutputsInv, Agrees
<1>3. CASE StopCondition \/ StopAtLimit
  <2>1. /\ UNCHANGED <<disk, work>> /\ pc \in {"check", "loop"} /\ pc' = "inbox"
        /\ mem' = StopStatus(disk, "max-iterations")
    BY <1>3 DEF StopCondition, StopAtLimit, AtLimit, BeginWrite, files, IInv, WrittenAgrees
  <2>2. /\ Agrees(StopStatus(disk, "max-iterations"))
        /\ Kept(disk, StopStatus(disk, "max-iterations"))
    BY <1>1, StopStatusKept
  <2>3. Agrees(mem') /\ Kept(disk, mem')
    BY <2>1, <2>2
  <2> QED
    BY <1>1, <2>1, <2>3 DEF OutputsInv, Agrees, Kept
<1> QED
  BY <1>2, <1>3 DEF EndPass

LEMMA OutsideOutputs ==
    ASSUME IInv, OutputsInv, Start \/ Crash \/ OperatorFix
    PROVE  OutputsInv' /\ Kept(disk, disk')
PROOF
<1> USE DEF Stopped
<1>1. /\ mem' = disk' /\ SameOutputs(disk, disk')
      /\ pc' \in {"loop", "inbox", "down", "idle"}
  BY DEF Start, LaunchPass, LaunchCompleted, Launch, Crash, OperatorFix, files,
         IInv, TypeOK, MissionStates, SameOutputs
<1>2. Agrees(disk') /\ Kept(disk, disk')
  BY <1>1, SameOutputsKept DEF OutputsInv
<1>3. Kept(disk', mem')
  BY <1>1, KeptItself
<1>4. work'.iterations = 0
  <2>1. CASE Crash
    BY <2>1 DEF Crash, NoWork
  <2>2. CASE Start \/ OperatorFix
    BY <2>2 DEF Start, LaunchPass, LaunchCompleted, Launch, OperatorFix, OutputsInv
  <2> QED
    BY <2>1, <2>2
<1> QED
  BY <1>1, <1>2, <1>3, <1>4 DEF OutputsInv, Agrees, Kept

LEMMA StrayedStays ==
    ASSUME strayed, [Next]_vars
    PROVE  strayed'
BY DEF Next, PassStep, Write, WriteInbox, WriteMission, WriteRuntime, Decide, DecideComplete,
       DecideBlock, DecideTransition, DecideDispatch, DecideNoExecutor, Deciding, Execute,
       AgentIterate, ExecutorReturns, ExecutorRaises, CallPlanner, PlannerStages, PlannerRaises,
       EndPass, NextIteration, StopCondition, StopAtLimit, ReturnAtLimit, Start, LaunchPass,
       LaunchCompleted, Launch, Crash, OperatorFix, steady, vars

LEMMA StepOutputs ==
    ASSUME IInv, OutputsInv, [Next]_vars, [ExecutorRaises => work.iterations = 0]_vars, ~strayed'
    PROVE  OutputsInv' /\ Kept(disk, disk')
PROOF
<1>1. CASE UNCHANGED vars
  BY <1>1, KeptItself DEF vars, OutputsInv, Agrees, Kept, Settled
<1>2. CASE ExecutorRaises => work.iterations = 0
  BY <1>1, <1>2, WriteOutputs, DecideOutputs, ExecuteOutputs, EndPassOutputs, OutsideOutputs
     DEF Next, PassStep
<1> QED
  BY <1>1, <1>2

LEMMA OutputsInvariance ==
    ASSUME ReportsLeaveCompletion
    PROVE  Spec /\ NoLateRaise => [](strayed \/ OutputsInv)
PROOF
<1>1. Init => OutputsInv
  BY BoundAssumption DEF Init, OutputsInv, Agrees, NoWork
<1>2. IInv /\ (strayed \/ OutputsInv) /\ [Next]_vars /\ [ExecutorRaises => work.iterations = 0]_vars
        => (strayed \/ OutputsInv)'
  BY StepOutputs, StrayedStays
<1> QED
  BY <1>1, <1>2, Invariance, PTL DEF Spec, NoLateRaise

\* Agent and outer loop never leave two different records of the current phase's outputs,
\* whatever status, next phase and matching phase the agents' updates name, as long as no
\* report strays and no executor raises after its agent has written.
THEOREM OutputRecordsAgree ==
    ASSUME ReportsLeaveCompletion
    PROVE  Spec /\ NoLateRaise => []CurrentOutputsAgree
PROOF
<1>1. strayed \/ OutputsInv => CurrentOutputsAgree
  BY DEF OutputsInv, Agrees, CurrentOutputsAgree
<1> QED
  BY <1>1, OutputsInvariance, PTL

\* Under the same condition no writer, whatever crashes, takes from the file an output
\* that was on record, except by entering its phase again.
THEOREM OutputsAreKept ==
    ASSUME ReportsLeaveCompletion
    PROVE  Spec /\ NoLateRaise => NoLostOutputs
PROOF
<1> DEFINE A == \A p \in Phase :
                   strayed' \/ disk.by_phase[p] \subseteq disk'.by_phase[p]
                   \/ /\ p \in disk.phase_history
                      /\ disk.current_phase # p /\ disk'.current_phase = p
<1>1. IInv /\ (strayed \/ OutputsInv) /\ [Next]_vars /\ [ExecutorRaises => work.iterations = 0]_vars
        => [A]_vars
  BY StepOutputs, StrayedStays DEF Kept
<1>2. Spec /\ NoLateRaise => [][A]_vars
  BY <1>1, Invariance, OutputsInvariance, PTL DEF Spec, NoLateRaise
<1> QED
  BY <1>2 DEF NoLostOutputs

\* Where executors never raise (run agents), the condition is no condition.
THEOREM QuietExecutorsKeepOutputs ==
    ASSUME MayRaise = FALSE, ReportsLeaveCompletion
    PROVE  Spec => []CurrentOutputsAgree /\ NoLostOutputs
PROOF
<1>1. [Next]_vars => [ExecutorRaises => work.iterations = 0]_vars
  BY DEF ExecutorRaises
<1>2. Spec => NoLateRaise
  BY <1>1, PTL DEF Spec, NoLateRaise
<1> QED
  BY <1>2, OutputRecordsAgree, OutputsAreKept, PTL

----------------------------------------------------------------------------
(* The way to the final report.                                            *)

\* A set of outputs holds all of critique's or none of them.
Whole(S) == S \cap Required[Critique] = {} \/ Required[Critique] \subseteq S

\* Critique's outputs are recorded and declared together.
RecordsAreWhole(m) ==
    /\ Whole(m.produced_outputs)
    /\ \A p \in Phase : Whole(m.by_phase[p]) /\ Whole(m.due[p])

\* What an open critique action declares covers them.
CritiqueIsDue(m) ==
    \/ Required[Critique] \subseteq m.due[Critique]
    \/ m.due[Critique] = {} /\ m.action[Critique] \notin {"pending", "in_progress"}

Sound(m) == RecordsAreWhole(m) /\ CritiqueIsDue(m) /\ PromotedOnGrounds(m)

\* The phases the report names are promoted, if any is, on grounds in m.
NamesOnGrounds(r, m) == Named(r) \cap Promoted # {} => Grounded(m)

\* The dispatched action and what its agent reported last rest on what m has on record.
WorkIsGrounded(m) ==
    /\ work.phase = Critique => Required[Critique] \subseteq m.due[Critique]
    /\ work.phase \in Promoted => Grounded(m)
    /\ work.iterations # 0 => NamesOnGrounds(work.report, m) /\ Settled(work, m.current_phase)

CritiqueInv ==
    /\ Sound(disk) /\ Sound(mem)
    /\ pc = "execute" =>
         /\ WorkIsGrounded(disk)
         /\ mem.due = disk.due /\ \A p \in Phase : mem.by_phase[p] \subseteq disk.by_phase[p]
    /\ pc \in Writing /\ resume = "execute" => WorkIsGrounded(mem)

LEMMA WholeUnion ==
    ASSUME NEW S, NEW T, Whole(S), Whole(T)
    PROVE  Whole(S \cup T)
BY DEF Whole

LEMMA RequiredIsWhole ==
    ASSUME CritiqueOpensReport, NEW p \in Phase
    PROVE  Whole(Required[p]) /\ Whole(Produces[p]) /\ Whole({})
PROOF
<1>1. Critique \in Phase
  BY PhaseAssumption
<1>2. CASE p = Critique
  BY <1>1, <1>2 DEF CritiqueOpensReport, Whole
<1>3. CASE p # Critique
  BY <1>3 DEF CritiqueOpensReport, Whole
<1> QED
  BY <1>2, <1>3

\* The fields Sound looks at.
SameGrounds(m, n) ==
    /\ n.by_phase = m.by_phase /\ n.produced_outputs = m.produced_outputs
    /\ n.current_phase = m.current_phase /\ n.next_phase = m.next_phase
    /\ n.due = m.due /\ n.action = m.action

LEMMA SameGroundsSound ==
    ASSUME NEW m, NEW n, SameGrounds(m, n), Sound(m)
    PROVE  Sound(n)
BY DEF SameGrounds, Sound, RecordsAreWhole, CritiqueIsDue, PromotedOnGrounds, Grounded

LEMMA StatusGrounds ==
    ASSUME NEW m \in MissionStates, NEW s
    PROVE  SameGrounds(m, [m EXCEPT !.status = s]) /\ SameGrounds(m, StopStatus(m, s))
BY DEF StopStatus, MissionStates, SameGrounds

\* Closing an action, or opening one that declares critique's outputs.
LEMMA ActionSound ==
    ASSUME NEW m \in MissionStates, NEW p \in Phase, NEW s, Sound(m),
           p = Critique /\ s \in {"pending", "in_progress"}
             => Required[Critique] \subseteq m.due[Critique]
    PROVE  Sound([m EXCEPT !.action[p] = s])
PROOF
<1> DEFINE n == [m EXCEPT !.action[p] = s]
<1>1. /\ n.by_phase = m.by_phase /\ n.produced_outputs = m.produced_outputs
      /\ n.current_phase = m.current_phase /\ n.next_phase = m.next_phase /\ n.due = m.due
      /\ n.action = [m.action EXCEPT ![p] = s] /\ m.action \in [Phase -> ActionStatus]
  BY DEF MissionStates
<1>2. Critique \in Phase
  BY PhaseAssumption
<1> HIDE DEF n
<1>3. RecordsAreWhole(n) /\ PromotedOnGrounds(n)
  BY <1>1 DEF Sound, RecordsAreWhole, PromotedOnGrounds, Grounded
<1>4. CritiqueIsDue(n)
  <2>1. CASE p = Critique
    BY <1>1, <1>2, <2>1 DEF Sound, CritiqueIsDue
  <2>2. CASE p # Critique
    BY <1>1, <1>2, <2>2 DEF Sound, CritiqueIsDue
  <2> QED
    BY <2>1, <2>2
<1> QED
  BY <1>3, <1>4 DEF Sound, n

LEMMA NextSound ==
    ASSUME NEW m \in MissionStates, NEW q \in Phase, Sound(m), q \in Promoted => Grounded(m)
    PROVE  Sound([m EXCEPT !.next_phase = q])
PROOF
<1> DEFINE n == [m EXCEPT !.next_phase = q]
<1>1. /\ n.by_phase = m.by_phase /\ n.produced_outputs = m.produced_outputs
      /\ n.current_phase = m.current_phase /\ n.next_phase = q
      /\ n.due = m.due /\ n.action = m.action
  BY DEF MissionStates
<1> HIDE DEF n
<1>2. Sound(n)
  BY <1>1 DEF Sound, RecordsAreWhole, CritiqueIsDue, PromotedOnGrounds, Grounded
<1> QED
  BY <1>2 DEF n

\* What a selected action declares covers critique's outputs.
LEMMA SelectedIsDue ==
    ASSUME CritiqueOpensReport, NEW m \in MissionStates, NEW log, Sound(m), SelectsWork(m, log)
    PROVE  /\ Whole(DueOutputs(m))
           /\ m.current_phase = Critique => Required[Critique] \subseteq DueOutputs(m)
PROOF
<1> DEFINE p == m.current_phase
<1>1. p \in Phase /\ Critique \in Phase
  BY PhaseAssumption DEF MissionStates
<1>2. Whole(Observed(m)) /\ Whole(m.due[p]) /\ Whole(Required[p]) /\ Whole(Produces[p])
  BY <1>1, RequiredIsWhole DEF Observed, Sound, RecordsAreWhole
<1>3. Whole(MissingOutputs(m))
  BY <1>2 DEF MissingOutputs, Whole
<1>4. p = Critique => MissingOutputs(m) = {} \/ Required[Critique] \subseteq MissingOutputs(m)
  BY <1>2 DEF MissingOutputs, Whole
<1>5. CASE HasPendingAction(m)
  BY <1>1, <1>2, <1>5 DEF DueOutputs, HasPendingAction, Sound, CritiqueIsDue
<1>6. CASE ~HasPendingAction(m) /\ Produces[p] # {}
  BY <1>1, <1>2, <1>6 DEF DueOutputs, CritiqueOpensReport
<1>7. CASE ~HasPendingAction(m) /\ Produces[p] = {}
  <2>1. MissingOutputs(m) # {}
    BY <1>7 DEF SelectsWork
  <2> QED
    BY <1>3, <1>4, <1>7, <2>1 DEF DueOutputs
<1> QED
  BY <1>5, <1>6, <1>7

\* The first transition of a phase leads to promotion only from promoted phases.
LEMMA NextPhaseGrounded ==
    ASSUME CritiqueOpensReport, NEW p \in Phase, NEW next, NextPhaseFor(p, next) \in Promoted
    PROVE  next \in Promoted \/ p \in Promoted
PROOF
<1>1. CASE next \in Transitions[p]
  BY <1>1 DEF NextPhaseFor
<1>2. CASE next \notin Transitions[p]
  <2>1. FirstTransition[p] \in Promoted
    BY <1>2 DEF NextPhaseFor
  <2>2. CASE Transitions[p] = {}
    BY <2>1, <2>2, ContractAssumption
  <2>3. CASE Transitions[p] # {}
    <3>1. FirstTransition[p] \in Transitions[p]
      BY <2>3, ContractAssumption
    <3>2. p \in {Critique, Replication} /\ p # Critique
      BY <2>1, <3>1 DEF CritiqueOpensReport
    <3> QED
      BY <3>2 DEF Promoted
  <2> QED
    BY <2>2, <2>3
<1> QED
  BY <1>1, <1>2

LEMMA MergeOutputsSound ==
    ASSUME CritiqueOpensReport, NEW m \in MissionStates, NEW p \in Phase,
           NEW outputs \in SUBSET Output, Whole(outputs), Sound(m)
    PROVE  /\ Sound(MergeOutputs(m, p, outputs))
           /\ Grounded(m) => Grounded(MergeOutputs(m, p, outputs))
           /\ p = Critique /\ Required[Critique] \subseteq outputs
                => Grounded(MergeOutputs(m, p, outputs))
           /\ MergeOutputs(m, p, outputs).due = m.due
PROOF
<1>1. CASE outputs = {}
  BY <1>1 DEF MergeOutputs, Grounded
<1>2. CASE outputs # {}
  <2> DEFINE n == MergeOutputs(m, p, outputs)
  <2>1. /\ n.by_phase = [m.by_phase EXCEPT ![p] = @ \cup outputs]
        /\ n.produced_outputs = IF p = m.current_phase THEN m.produced_outputs \cup outputs
                                                       ELSE m.produced_outputs
        /\ n.current_phase = m.current_phase /\ n.next_phase = m.next_phase
        /\ n.due = m.due /\ n.action = m.action
    BY <1>2 DEF MergeOutputs, MissionStates
  <2>2. m.by_phase \in [Phase -> SUBSET Output] /\ Critique \in Phase
    BY PhaseAssumption DEF MissionStates
  <2> HIDE DEF n
  <2>3. RecordsAreWhole(n)
    BY <2>1, <2>2, WholeUnion DEF Sound, RecordsAreWhole
  <2>4. /\ Grounded(m) => Grounded(n)
        /\ p = Critique /\ Required[Critique] \subseteq outputs => Grounded(n)
    BY <2>1, <2>2 DEF Grounded
  <2>5. CritiqueIsDue(n) /\ PromotedOnGrounds(n)
    BY <2>1, <2>4 DEF Sound, CritiqueIsDue, PromotedOnGrounds
  <2> QED
    BY <2>1, <2>3, <2>4, <2>5 DEF Sound, n
<1> QED
  BY <1>1, <1>2

LEMMA ApplyPhaseChangeSound ==
    ASSUME CritiqueOpensReport, NEW m \in MissionStates, NEW to \in Phase, NEW next, Sound(m),
           to \in Promoted \/ next \in Promoted => Grounded(m),
           to \in {m.current_phase, next}
    PROVE  /\ Sound(ApplyPhaseChange(m, to, next))
           /\ to = m.current_phase =>
                (Grounded(m) => Grounded(ApplyPhaseChange(m, to, next)))
           /\ ApplyPhaseChange(m, to, next).due = m.due
PROOF
<1> DEFINE from   == m.current_phase
           merged == MergeOutputs(m, from, m.produced_outputs)
           n      == ApplyPhaseChange(m, to, next)
           q      == NextPhaseFor(to, next)
<1>1. from \in Phase /\ m.produced_outputs \in SUBSET Output /\ Whole(m.produced_outputs)
  BY DEF MissionStates, Sound, RecordsAreWhole
<1>2. q \in Promoted => Grounded(m)
  BY NextPhaseGrounded
<1>3. CASE from = to
  <2>1. /\ n.by_phase = m.by_phase /\ n.produced_outputs = m.produced_outputs
        /\ n.current_phase = m.current_phase /\ n.next_phase = q
        /\ n.due = m.due /\ n.action = m.action
    BY <1>3 DEF ApplyPhaseChange, MissionStates
  <2> HIDE DEF n, q
  <2>2. Sound(n) /\ (Grounded(m) => Grounded(n))
    BY <1>2, <2>1 DEF Sound, RecordsAreWhole, CritiqueIsDue, PromotedOnGrounds, Grounded
  <2> QED
    BY <2>1, <2>2 DEF n
<1>4. CASE from # to
  <2>1. /\ merged \in MissionStates /\ Sound(merged) /\ merged.due = m.due
        /\ Grounded(m) => Grounded(merged)
    BY <1>1, MergeOutputsType, MergeOutputsSound
  <2> HIDE DEF merged
  <2>2. /\ n.current_phase = to /\ n.next_phase = q
        /\ n.by_phase = [merged.by_phase EXCEPT ![to] = IF to \in m.phase_history THEN {} ELSE @]
        /\ n.produced_outputs = IF to \in m.phase_history THEN {} ELSE merged.by_phase[to]
        /\ n.due = merged.due /\ n.action = merged.action
    <3>1. merged.phase_history = m.phase_history
      BY <1>1 DEF merged, MergeOutputs, MissionStates
    <3> QED
      BY <1>4, <2>1, <3>1 DEF ApplyPhaseChange, MissionStates, merged
  <2>3. merged.by_phase \in [Phase -> SUBSET Output] /\ Critique \in Phase
    BY <2>1, PhaseAssumption DEF MissionStates
  <2>4. Whole({})
    BY DEF Whole
  <2> HIDE DEF n, q
  <2>5. RecordsAreWhole(n) /\ CritiqueIsDue(n)
    BY <2>1, <2>2, <2>3, <2>4 DEF Sound, RecordsAreWhole, CritiqueIsDue
  <2>6. CASE to \in Promoted \/ q \in Promoted
    <3>1. Grounded(m) /\ to # Critique
      <4>1. CASE to \in Promoted
        BY <4>1 DEF CritiqueOpensReport
      <4>2. CASE to \notin Promoted
        <5>1. q \in Promoted /\ next \notin Promoted
          BY <1>4, <2>6, <4>2
        <5> QED
          BY <4>2, <5>1, NextPhaseGrounded DEF q
      <4> QED
        BY <4>1, <4>2
    <3>2. Grounded(n)
      BY <2>1, <2>2, <2>3, <3>1 DEF Grounded
    <3> QED
      BY <1>4, <2>1, <2>2, <2>5, <3>2 DEF Sound, PromotedOnGrounds, n
  <2>7. CASE ~(to \in Promoted \/ q \in Promoted)
    BY <1>4, <2>1, <2>2, <2>5, <2>7 DEF Sound, PromotedOnGrounds, n
  <2> QED
    BY <2>6, <2>7
<1> QED
  BY <1>3, <1>4

\* Settled updates leave a mission state as sound as the phases they name allow.
LEMMA DeepMergeSound ==
    ASSUME NEW m \in MissionStates, NEW r, IsReport(r), Sound(m),
           {"produced_outputs", "by_phase"} \cap DOMAIN r.updates = {}
    PROVE  LET n == DeepMerge(m, r.updates)
           IN  /\ n \in MissionStates /\ n.by_phase = m.by_phase
               /\ n.due = m.due /\ n.action = m.action
               /\ n.current_phase \in {m.current_phase} \cup Named(r)
               /\ n.next_phase \in {m.next_phase} \cup Named(r)
               /\ NamesOnGrounds(r, m) => Sound(n)
PROOF
<1> DEFINE n == DeepMerge(m, r.updates)
<1>1. n \in MissionStates /\ n.by_phase = m.by_phase /\ n.produced_outputs = m.produced_outputs
  BY DeepMergeType, DeepMergeKept DEF IsReport
<1>2. n.due = m.due /\ n.action = m.action
  BY DEF DeepMerge, MissionStates
<1>3. /\ n.current_phase = IF "current_phase" \in DOMAIN r.updates
                           THEN r.updates.current_phase ELSE m.current_phase
      /\ n.next_phase = IF "next_phase" \in DOMAIN r.updates
                        THEN r.updates.next_phase ELSE m.next_phase
  BY DEF DeepMerge, MissionStates
<1>4. /\ "current_phase" \in DOMAIN r.updates => r.updates.current_phase \in Named(r)
      /\ "next_phase" \in DOMAIN r.updates => r.updates.next_phase \in Named(r)
  BY DEF Named
<1> HIDE DEF n
<1>5. /\ n.current_phase \in {m.current_phase} \cup Named(r)
      /\ n.next_phase \in {m.next_phase} \cup Named(r)
  BY <1>3, <1>4
<1>6. ASSUME NamesOnGrounds(r, m) PROVE Sound(n)
  BY <1>1, <1>2, <1>5, <1>6
     DEF Sound, RecordsAreWhole, CritiqueIsDue, PromotedOnGrounds, NamesOnGrounds, Grounded
<1> QED
  BY <1>1, <1>2, <1>5, <1>6 DEF n

\* A report that does not stray names a promoted phase from critique, whose outputs it is
\* credited with then, or from a promoted phase.
LEMMA ApplyAgentResultSound ==
    ASSUME CritiqueOpensReport, NEW m \in MissionStates, NEW due \in SUBSET Output,
           NEW r, IsReport(r), NEW transition \in BOOLEAN, ~Strays(r, transition),
           Sound(m), Whole(due), r.of \in Promoted => Grounded(m),
           r.of = Critique => due = {} \/ Required[Critique] \subseteq due
    PROVE  LET n == ApplyAgentResult(m, due, r, transition)
           IN  /\ Sound(n) /\ n.due = m.due
               /\ Grounded(m) => Grounded(n)
               /\ NamesOnGrounds(r, n)
               /\ \A p \in Phase : m.by_phase[p] \subseteq n.by_phase[p]
PROOF
<1> DEFINE a        == r.of
           merged   == DeepMerge(m, r.updates)
           to       == PhaseAfter(r, transition)
           outputs  == AgentOutputs(due, r)
           by_phase == [m.by_phase EXCEPT ![a] = @ \cup outputs]
           n        == ApplyAgentResult(m, due, r, transition)
<1>1. /\ merged \in MissionStates /\ merged.by_phase = m.by_phase
      /\ merged.due = m.due /\ merged.action = m.action
      /\ merged.next_phase \in {m.next_phase} \cup Named(r)
  BY DeepMergeSound DEF Strays
<1>2. a \in Phase /\ to \in Phase /\ to \in Named(r)
  BY PhaseAfterType DEF IsReport, PhaseAfter, Named
<1>3. Whole(outputs)
  BY <1>2, RequiredIsWhole DEF AgentOutputs
<1> HIDE DEF merged, to, outputs
<1>4. /\ n.current_phase = to /\ n.by_phase = by_phase /\ n.produced_outputs = by_phase[to]
      /\ n.next_phase = IF r.next = NoPhase THEN merged.next_phase ELSE r.next
      /\ n.due = m.due /\ n.action = m.action
  BY <1>1 DEF ApplyAgentResult, MissionStates, merged, to, outputs
<1>5. n.next_phase \in {m.next_phase} \cup Named(r)
  BY <1>1, <1>4 DEF Named
<1>6. m.by_phase \in [Phase -> SUBSET Output] /\ Critique \in Phase
      /\ Critique \notin Promoted /\ NoPhase \notin Promoted
  BY PhaseAssumption DEF MissionStates, Promoted, CritiqueOpensReport
<1>7. Named(r) \cap Promoted # {} => (a = Critique /\ Required[Critique] \subseteq outputs) \/ Grounded(m)
  <2> SUFFICES ASSUME Named(r) \cap Promoted # {}, a \notin Promoted
               PROVE  a = Critique /\ Required[Critique] \subseteq outputs
    OBVIOUS
  <2>1. a = Critique /\ r.current = Critique /\ r.next \in Promoted
    BY DEF Strays
  <2>2. r.next \notin {NoPhase, Critique}
    BY <1>6, <2>1
  <2> QED
    BY <2>1, <2>2 DEF AgentOutputs, outputs
<1> HIDE DEF n
<1>8. /\ \A p \in Phase : m.by_phase[p] \subseteq n.by_phase[p]
      /\ Grounded(m) => Grounded(n)
      /\ NamesOnGrounds(r, n)
  BY <1>2, <1>4, <1>6, <1>7 DEF Grounded, NamesOnGrounds
<1>9. RecordsAreWhole(n)
  <2>1. \A p \in Phase : Whole(by_phase[p])
    BY <1>2, <1>3, <1>6, WholeUnion DEF Sound, RecordsAreWhole
  <2> HIDE DEF by_phase
  <2> QED
    BY <1>2, <1>4, <2>1 DEF Sound, RecordsAreWhole
<1>10. CritiqueIsDue(n)
  BY <1>4 DEF Sound, CritiqueIsDue
<1>11. PromotedOnGrounds(n)
  BY <1>2, <1>4, <1>5, <1>8 DEF Sound, PromotedOnGrounds, NamesOnGrounds
<1> QED
  BY <1>4, <1>8, <1>9, <1>10, <1>11 DEF Sound, n

LEMMA ExecutorUpdatesSound ==
    ASSUME CritiqueOpensReport, NEW m \in MissionStates, work \in Works, Sound(m),
           WorkIsGrounded(m),
           NEW s \in {"completed", "blocked", "failed", "deferred", "max-iterations"}
    PROVE  Sound(ExecutorUpdates(m, work, s))
PROOF
<1> DEFINE p          == work.phase
           r          == work.report
           before     == DeepMerge(m, r.updates)
           to         == PhaseReached(r, before.current_phase)
           next       == IF r.next = NoPhase THEN before.next_phase ELSE r.next
           controlled == IF work.iterations = 0 THEN m ELSE ApplyPhaseChange(before, to, next)
           steering   == NextOnSuccess[p] # NoPhase /\ r.next = NoPhase
           steered    == IF steering THEN [controlled EXCEPT !.next_phase = NextOnSuccess[p]]
                         ELSE controlled
           early      == MergeOutputs(controlled, p, m.due[p])
           merged     == MergeOutputs(steered, p, m.due[p])
<1>1. /\ p \in Phase /\ m.current_phase \in Phase /\ m.due[p] \in SUBSET Output
      /\ Whole(m.due[p]) /\ IsReport(r)
  BY GivenReports DEF MissionStates, Works, Sound, RecordsAreWhole
<1>2. /\ controlled \in MissionStates /\ Sound(controlled)
      /\ Grounded(m) => Grounded(controlled)
  <2>1. CASE work.iterations = 0
    BY <2>1
  <2>2. CASE work.iterations # 0
    <3>1. /\ NamesOnGrounds(r, m) /\ Settled(work, m.current_phase)
          /\ {"produced_outputs", "by_phase"} \cap DOMAIN r.updates = {}
      BY <2>2 DEF WorkIsGrounded, Settled, SettledIn
    <3>2. /\ before \in MissionStates /\ Sound(before) /\ before.by_phase = m.by_phase
          /\ before.next_phase \in {m.next_phase} \cup Named(r)
      BY <1>1, <3>1, DeepMergeSound
    <3>3. before.current_phase = m.current_phase /\ to = m.current_phase
      BY <3>1, DeepMergeKept DEF Settled, SameOutputs
    <3>4. to \in Promoted \/ next \in Promoted => Grounded(before)
      <4>1. next \in {m.next_phase} \cup Named(r)
        BY <3>2 DEF Named
      <4> QED
        BY <3>1, <3>2, <3>3, <4>1 DEF Sound, PromotedOnGrounds, NamesOnGrounds, Grounded
    <3>5. Grounded(m) => Grounded(before)
      BY <3>2 DEF Grounded
    <3> HIDE DEF before, to, next
    <3>6. /\ ApplyPhaseChange(before, to, next) \in MissionStates
          /\ Sound(ApplyPhaseChange(before, to, next))
          /\ Grounded(before) => Grounded(ApplyPhaseChange(before, to, next))
      BY <1>1, <3>2, <3>3, <3>4, ApplyPhaseChangeType, ApplyPhaseChangeSound
    <3> QED
      BY <2>2, <3>5, <3>6
  <2> QED
    BY <2>1, <2>2
<1>3. NextOnSuccess[p] \in Phase \cup {NoPhase}
  BY <1>1, HintAssumption
<1> HIDE DEF controlled
<1>4. /\ early \in MissionStates /\ Sound(early)
      /\ Grounded(controlled) => Grounded(early)
      /\ p = Critique => Grounded(early)
  <2>1. p = Critique => Required[Critique] \subseteq m.due[p]
    BY DEF WorkIsGrounded
  <2> HIDE DEF p
  <2> QED
    BY <1>1, <1>2, <2>1, MergeOutputsType, MergeOutputsSound
<1>5. CASE ~steering
  <2>1. merged = early
    BY <1>5
  <2>2. ExecutorUpdates(m, work, s) = [early EXCEPT !.action[p] = ActionResult(s)]
    BY <2>1 DEF ExecutorUpdates, controlled
  <2>3. ActionResult(s) \notin {"pending", "in_progress"}
    BY DEF ActionResult
  <2> HIDE DEF early, p
  <2> QED
    BY <1>1, <1>4, <2>2, <2>3, ActionSound
<1>6. CASE steering
  <2> DEFINE q == NextOnSuccess[p]
  <2>1. q \in Phase
    BY <1>3, <1>6
  <2>2. q \in Promoted => Grounded(early)
    <3>1. q \in Promoted => p \in {Critique, Replication}
      BY <1>1 DEF CritiqueOpensReport
    <3>2. p = Replication => Grounded(m)
      BY DEF WorkIsGrounded, Promoted
    <3> QED
      BY <1>2, <1>4, <3>1, <3>2
  <2>3. merged = [early EXCEPT !.next_phase = q]
    <3> HIDE DEF p, q
    <3>1. steered = [controlled EXCEPT !.next_phase = q]
      BY <1>6 DEF q
    <3> QED
      BY <1>2, <3>1 DEF MergeOutputs, MissionStates
  <2>4. ExecutorUpdates(m, work, s) = [merged EXCEPT !.action[p] = ActionResult(s)]
    BY DEF ExecutorUpdates, controlled
  <2>5. ActionResult(s) \notin {"pending", "in_progress"}
    BY DEF ActionResult
  <2>6. merged \in MissionStates /\ Sound(merged)
    <3> HIDE DEF merged, early, p, q
    <3>1. Sound(merged)
      BY <1>4, <2>1, <2>2, <2>3, NextSound
    <3>2. merged \in MissionStates
      BY <1>4, <2>1, <2>3 DEF MissionStates
    <3> QED
      BY <3>1, <3>2
  <2> HIDE DEF merged, p
  <2> QED
    BY <1>1, <2>4, <2>5, <2>6, ActionSound
<1> QED
  BY <1>5, <1>6

\* Outside the dispatch and the run of an executor, sound states are all that is needed.
LEMMA CritiqueElsewhere ==
    ASSUME Sound(disk'), Sound(mem'),
           pc' # "execute", ~(pc' \in Writing /\ resume' = "execute")
    PROVE  CritiqueInv'
BY DEF CritiqueInv, Sound, RecordsAreWhole, CritiqueIsDue, PromotedOnGrounds, Grounded, Whole

LEMMA StatusSound ==
    ASSUME NEW m \in MissionStates, NEW s, Sound(m)
    PROVE  Sound([m EXCEPT !.status = s]) /\ Sound(StopStatus(m, s))
BY StatusGrounds, SameGroundsSound

LEMMA EndIterationSound ==
    ASSUME UNCHANGED disk, Sound(disk), NEW m, NEW s, EndIteration(m, s), Sound(m)
    PROVE  CritiqueInv'
BY CritiqueElsewhere DEF EndIteration, BeginWrite

LEMMA SettleSound ==
    ASSUME UNCHANGED disk, Sound(disk), NEW m \in MissionStates, NEW s, Settle(m, s), Sound(m)
    PROVE  CritiqueInv'
PROOF
<1> DEFINE m1 == IF s = "running" THEN [m EXCEPT !.status = "running"] ELSE StopStatus(m, s)
<1>1. Sound(m1)
  BY StatusSound
<1>2. EndIteration(m1, s)
  BY DEF Settle
<1> HIDE DEF m1
<1> QED
  BY <1>1, <1>2, EndIterationSound

LEMMA InitSound ==
    ASSUME CritiqueOpensReport, StartsBeforeReport, Init
    PROVE  CritiqueInv
PROOF
<1>1. /\ disk \in InitialStates /\ mem = disk /\ pc = "idle"
      /\ disk \in MissionStates /\ disk.produced_outputs = disk.by_phase[disk.current_phase]
  BY BoundAssumption DEF Init
<1>2. /\ disk.current_phase \in Phase /\ disk.produced_outputs = {}
      /\ disk.current_phase \notin Promoted /\ disk.next_phase \notin Promoted
      /\ \A p \in Phase : disk.by_phase[p] = {} /\ disk.due[p] = {}
      /\ disk.action[Critique] = "none" /\ Critique \in Phase
  BY <1>1, PhaseAssumption DEF StartsBeforeReport, MissionStates
<1>3. Sound(disk)
  BY <1>2 DEF Sound, RecordsAreWhole, Whole, CritiqueIsDue, PromotedOnGrounds
<1> QED
  BY <1>1, <1>3 DEF CritiqueInv, Writing

LEMMA WriteSound ==
    ASSUME IInv, CritiqueInv, Write
    PROVE  CritiqueInv'
PROOF
<1>1. UNCHANGED work /\ Sound(disk) /\ Sound(mem)
  BY DEF Write, WriteInbox, WriteMission, WriteRuntime, CritiqueInv
<1>2. CASE WriteInbox
  <2>1. /\ pc = "inbox" /\ pc' = "state" /\ disk' = disk /\ resume' = resume
        /\ SameGrounds(mem, mem')
    BY <1>2 DEF WriteInbox, IInv, TypeOK, MissionStates, SameGrounds
  <2>2. Sound(disk') /\ Sound(mem')
    BY <1>1, <2>1, SameGroundsSound
  <2>3. CASE resume = "execute"
    <3>1. WorkIsGrounded(mem)
      BY <2>1, <2>3 DEF CritiqueInv, Writing
    <3>2. WorkIsGrounded(mem)'
      BY <1>1, <2>1, <3>1 DEF WorkIsGrounded, NamesOnGrounds, Grounded, Settled, SameGrounds
    <3> QED
      BY <2>1, <2>2, <3>2
         DEF CritiqueInv, Sound, RecordsAreWhole, CritiqueIsDue, PromotedOnGrounds, Grounded
  <2>4. CASE resume # "execute"
    BY <2>1, <2>2, <2>4, CritiqueElsewhere
  <2> QED
    BY <2>3, <2>4
<1>3. CASE WriteMission
  <2>1. pc = "state" /\ pc' = "runtime" /\ disk' = mem /\ mem' = mem /\ resume' = resume
    BY <1>3 DEF WriteMission
  <2>2. CASE resume = "execute"
    <3>1. WorkIsGrounded(mem)
      BY <2>1, <2>2 DEF CritiqueInv, Writing
    <3>2. WorkIsGrounded(mem)'
      BY <1>1, <2>1, <3>1 DEF WorkIsGrounded, NamesOnGrounds, Grounded, Settled
    <3> QED
      BY <1>1, <2>1, <3>2
         DEF CritiqueInv, Sound, RecordsAreWhole, CritiqueIsDue, PromotedOnGrounds, Grounded
  <2>3. CASE resume # "execute"
    BY <1>1, <2>1, <2>3, CritiqueElsewhere
  <2> QED
    BY <2>2, <2>3
<1>4. CASE WriteRuntime
  <2>1. /\ pc = "runtime" /\ disk = mem /\ disk' = disk /\ mem' = mem /\ resume' = "check"
        /\ pc' = IF resume = "end" THEN "idle" ELSE resume
        /\ resume \in {"check", "execute", "end"}
    BY <1>4 DEF WriteRuntime, IInv, WrittenAgrees, TypeOK
  <2>2. CASE resume = "execute"
    <3>1. WorkIsGrounded(mem)
      BY <2>1, <2>2 DEF CritiqueInv, Writing
    <3>2. WorkIsGrounded(disk)'
      BY <1>1, <2>1, <3>1 DEF WorkIsGrounded, NamesOnGrounds, Grounded, Settled
    <3> QED
      BY <1>1, <2>1, <2>2, <3>2
         DEF CritiqueInv, Writing, Sound, RecordsAreWhole, CritiqueIsDue, PromotedOnGrounds,
             Grounded
  <2>3. CASE resume # "execute"
    BY <1>1, <2>1, <2>3, CritiqueElsewhere
  <2> QED
    BY <2>2, <2>3
<1> QED
  BY <1>2, <1>3, <1>4 DEF Write

LEMMA DueSound ==
    ASSUME NEW m \in MissionStates, NEW p \in Phase, NEW due \in SUBSET Output, NEW s,
           Sound(m), Whole(due),
           p = Critique => Required[Critique] \subseteq due
    PROVE  Sound([m EXCEPT !.action[p] = s, !.due[p] = due])
PROOF
<1> DEFINE n == [m EXCEPT !.action[p] = s, !.due[p] = due]
<1>1. /\ n.by_phase = m.by_phase /\ n.produced_outputs = m.produced_outputs
      /\ n.current_phase = m.current_phase /\ n.next_phase = m.next_phase
      /\ n.due = [m.due EXCEPT ![p] = due] /\ n.action = [m.action EXCEPT ![p] = s]
      /\ m.action \in [Phase -> ActionStatus] /\ m.due \in [Phase -> SUBSET Output]
  BY DEF MissionStates
<1>2. Critique \in Phase
  BY PhaseAssumption
<1> HIDE DEF n
<1>3. RecordsAreWhole(n) /\ PromotedOnGrounds(n)
  BY <1>1 DEF Sound, RecordsAreWhole, PromotedOnGrounds, Grounded
<1>4. CritiqueIsDue(n)
  <2>1. CASE p = Critique
    BY <1>1, <1>2, <2>1 DEF CritiqueIsDue
  <2>2. CASE p # Critique
    BY <1>1, <1>2, <2>2 DEF Sound, CritiqueIsDue
  <2> QED
    BY <2>1, <2>2
<1> QED
  BY <1>3, <1>4 DEF Sound, n

LEMMA DecideSound ==
    ASSUME CritiqueOpensReport, IInv, CritiqueInv, Decide
    PROVE  CritiqueInv'
PROOF
<1> DEFINE p == disk.current_phase
           due == DueOutputs(disk)
<1>1. disk \in MissionStates /\ p \in Phase /\ disk.next_phase \in Phase /\ due \in SUBSET Output
  BY DueOutputsType DEF IInv, TypeOK, MissionStates
<1>2. UNCHANGED disk /\ Sound(disk)
  BY DEF Decide, DecideComplete, DecideBlock, DecideTransition, DecideDispatch,
         DecideNoExecutor, Deciding, CritiqueInv
<1>3. CASE DecideComplete \/ DecideBlock
  <2>1. PICK s : EndIteration(StopStatus(disk, s), s)
    BY <1>3 DEF DecideComplete, DecideBlock
  <2> QED
    BY <1>1, <1>2, <2>1, StatusSound, EndIterationSound
<1>4. CASE DecideTransition
  <2> DEFINE to == disk.next_phase
             m  == ApplyPhaseChange(disk, to, to)
  <2>1. to \in Promoted => Grounded(disk)
    BY <1>2 DEF Sound, PromotedOnGrounds
  <2>2. m \in MissionStates /\ Sound(m)
    <3> HIDE DEF to
    <3> QED
      BY <1>1, <1>2, <2>1, ApplyPhaseChangeType, ApplyPhaseChangeSound DEF to
  <2>3. EndIteration([m EXCEPT !.status = "running"], "running")
    BY <1>4 DEF DecideTransition
  <2> HIDE DEF m
  <2>4. Sound([m EXCEPT !.status = "running"])
    BY <2>2, StatusSound
  <2> QED
    BY <1>2, <2>3, <2>4, EndIterationSound
<1>5. ASSUME SelectsWork(disk, branches)
      PROVE  Whole(due) /\ (p = Critique => Required[Critique] \subseteq due)
  BY <1>1, <1>2, <1>5, SelectedIsDue
<1>6. CASE DecideDispatch
  <2> DEFINE m == [disk EXCEPT !.action[p] = "in_progress", !.due[p] = due]
  <2>1. Whole(due) /\ (p = Critique => Required[Critique] \subseteq due) /\ Sound(m)
    <3>1. SelectsWork(disk, branches)
      BY <1>6 DEF DecideDispatch
    <3> HIDE DEF p, due
    <3> QED
      BY <1>1, <1>2, <1>5, <3>1, DueSound
  <2>2. /\ pc' = "inbox" /\ resume' = "execute" /\ work'.phase = p /\ work'.iterations = 0
        /\ mem' = [disk EXCEPT
                     !.action[p] = "in_progress",
                     !.due[p] = due,
                     !.bootstrap = IF Executor[p] = "self-healing-queue" /\ @ = "pending"
                                   THEN "baseline-running" ELSE @]
    BY <1>6 DEF DecideDispatch, BeginWrite
  <2>3. SameGrounds(m, mem') /\ mem'.due = [disk.due EXCEPT ![p] = due]
        /\ mem'.by_phase = disk.by_phase
    BY <1>1, <2>2 DEF MissionStates, SameGrounds
  <2> HIDE DEF m
  <2>4. Sound(disk') /\ Sound(mem')
    BY <1>2, <2>1, <2>3, SameGroundsSound
  <2>5. disk.due \in [Phase -> SUBSET Output] /\ NoPhase \notin Promoted
    BY <1>1, PhaseAssumption DEF MissionStates, Promoted
  <2>6. p \in Promoted => Grounded(disk)
    BY <1>2 DEF Sound, PromotedOnGrounds
  <2> HIDE DEF p, due
  <2>7. WorkIsGrounded(mem)'
    BY <1>1, <2>1, <2>2, <2>3, <2>5, <2>6 DEF WorkIsGrounded, Grounded
  <2> QED
    BY <2>2, <2>4, <2>7
       DEF CritiqueInv, Sound, RecordsAreWhole, CritiqueIsDue, PromotedOnGrounds, Grounded
<1>7. CASE DecideNoExecutor
  <2> DEFINE m == [disk EXCEPT !.action[p] = "blocked", !.due[p] = due]
  <2>1. m \in MissionStates
    BY <1>1 DEF MissionStates, ActionStatus
  <2>2. EndIteration(StopStatus(m, "blocked"), "blocked")
    BY <1>7 DEF DecideNoExecutor
  <2>3. Sound(m)
    <3>1. SelectsWork(disk, branches)
      BY <1>7 DEF DecideNoExecutor
    <3> HIDE DEF p, due
    <3> QED
      BY <1>1, <1>2, <1>5, <3>1, DueSound
  <2> HIDE DEF m
  <2>4. Sound(StopStatus(m, "blocked"))
    BY <2>1, <2>3, StatusSound
  <2> QED
    BY <1>2, <2>2, <2>4, EndIterationSound
<1> QED
  BY <1>3, <1>4, <1>6, <1>7 DEF Decide

LEMMA AgentIterateSound ==
    ASSUME CritiqueOpensReport, IInv, CritiqueInv, AgentIterate, ~strayed'
    PROVE  CritiqueInv'
PROOF
<1>1. /\ disk \in MissionStates /\ work \in Works /\ work.phase \in Phase
      /\ disk.current_phase \in Phase
  BY DEF IInv, TypeOK, Works, Given, MissionStates
<1>2. /\ pc = "execute" /\ pc' = "execute" /\ mem' = mem /\ Sound(disk) /\ Sound(mem)
      /\ WorkIsGrounded(disk)
      /\ mem.due = disk.due /\ \A p \in Phase : mem.by_phase[p] \subseteq disk.by_phase[p]
  BY DEF AgentIterate, CritiqueInv
<1>3. PICK r \in AgentReports, own \in BOOLEAN, transition \in BOOLEAN, s \in AgentResults :
        /\ r.of = IF own THEN work.phase ELSE disk.current_phase
        /\ own => disk.action[work.phase] \in {"pending", "in_progress", "deferred"}
        /\ disk' = [ApplyAgentResult(disk, IF own THEN disk.due[r.of] ELSE {}, r, transition)
                      EXCEPT !.action[work.phase] = IF own THEN s ELSE @]
        /\ work' = [work EXCEPT !.iterations = @ + 1, !.report = r]
        /\ strayed' = (strayed \/ Strays(r, transition))
  BY Zenon DEF AgentIterate
<1> DEFINE due == IF own THEN disk.due[r.of] ELSE {}
           m   == ApplyAgentResult(disk, due, r, transition)
           t   == IF own THEN s ELSE m.action[work.phase]
<1>4. IsReport(r) /\ ~Strays(r, transition) /\ r.of \in Phase
  BY <1>3, ReportAssumption DEF IsReport
<1>5. due \in SUBSET Output
  BY <1>1, <1>4 DEF MissionStates
<1>6. /\ Whole(due) /\ (r.of \in Promoted => Grounded(disk))
      /\ r.of = Critique => due = {} \/ Required[Critique] \subseteq due
  <2>1. CASE own
    BY <1>1, <1>2, <1>3, <2>1 DEF Sound, RecordsAreWhole, WorkIsGrounded
  <2>2. CASE ~own
    BY <1>2, <1>3, <2>2 DEF Sound, PromotedOnGrounds, Whole
  <2> QED
    BY <2>1, <2>2
<1>7. disk' = [m EXCEPT !.action[work.phase] = t]
  BY <1>3
<1> HIDE DEF due
<1>8. /\ m \in MissionStates /\ Sound(m) /\ m.due = disk.due
      /\ Grounded(disk) => Grounded(m)
      /\ NamesOnGrounds(r, m)
      /\ \A p \in Phase : disk.by_phase[p] \subseteq m.by_phase[p]
      /\ m.current_phase = PhaseAfter(r, transition)
  <2>1. m.current_phase = PhaseAfter(r, transition)
    <3>1. DeepMerge(disk, r.updates) \in MissionStates
      BY <1>1, <1>4, DeepMergeType DEF IsReport
    <3> QED
      BY <3>1 DEF ApplyAgentResult, MissionStates
  <2> QED
    BY <1>1, <1>2, <1>4, <1>5, <1>6, <2>1, ApplyAgentResultType, ApplyAgentResultSound
<1>9. work'.phase = work.phase /\ work'.report = r
  BY <1>1, <1>3 DEF Works
<1>10. work.phase = Critique => Required[Critique] \subseteq m.due[Critique]
  BY <1>2, <1>8 DEF WorkIsGrounded
<1> HIDE DEF m, t
<1>11. Sound(disk')
  BY <1>1, <1>7, <1>8, <1>10, ActionSound
<1>12. /\ disk'.due = m.due /\ disk'.by_phase = m.by_phase
       /\ disk'.current_phase = m.current_phase
  BY <1>7, <1>8 DEF MissionStates
<1>13. Settled(work', disk'.current_phase)
  <2>1. SettledIn(r, PhaseAfter(r, transition))
    BY <1>4 DEF SettledIn, Strays
  <2> QED
    BY <1>4, <1>8, <1>9, <1>12, <2>1, PhaseSettles DEF Settled
<1>14. WorkIsGrounded(disk)'
  <2>1. /\ Grounded(disk) => Grounded(disk')
        /\ NamesOnGrounds(r, disk')
        /\ work.phase = Critique => Required[Critique] \subseteq disk'.due[Critique]
    BY <1>8, <1>10, <1>12 DEF Grounded, NamesOnGrounds
  <2> QED
    BY <1>2, <1>9, <1>13, <2>1 DEF WorkIsGrounded, Grounded, NamesOnGrounds, Settled
<1>15. mem'.due = disk'.due /\ \A p \in Phase : mem'.by_phase[p] \subseteq disk'.by_phase[p]
  BY <1>2, <1>8, <1>12
<1> QED
  BY <1>2, <1>11, <1>14, <1>15
     DEF CritiqueInv, Writing, Sound, RecordsAreWhole, CritiqueIsDue, PromotedOnGrounds, Grounded

\* An executor that raises leaves the records of one of the two copies, each with all it
\* needs: the file's hold whatever those in memory hold.
LEMMA KeepInMemorySound ==
    ASSUME NEW m \in MissionStates, NEW d \in MissionStates, Sound(m), Sound(d),
           \A p \in Phase : m.by_phase[p] \subseteq d.by_phase[p]
    PROVE  Sound(KeepInMemory(m, d))
PROOF
<1> DEFINE n == KeepInMemory(m, d)
<1>1. /\ n.by_phase \in {m.by_phase, d.by_phase}
      /\ n.produced_outputs \in {m.produced_outputs, d.produced_outputs}
      /\ n.current_phase = m.current_phase /\ n.next_phase = m.next_phase
      /\ n.due = m.due /\ n.action = m.action
  BY DEF KeepInMemory, MissionStates
<1>2. Critique \in Phase
  BY PhaseAssumption
<1> HIDE DEF n
<1>3. Sound(n)
  BY <1>1, <1>2 DEF Sound, RecordsAreWhole, CritiqueIsDue, PromotedOnGrounds, Grounded
<1> QED
  BY <1>3 DEF n

LEMMA ExecuteSound ==
    ASSUME CritiqueOpensReport, IInv, CritiqueInv, Execute, ~strayed'
    PROVE  CritiqueInv'
PROOF
<1> DEFINE Statuses == {"completed", "blocked", "failed", "deferred", "max-iterations"}
<1>1. disk \in MissionStates /\ mem \in MissionStates /\ work \in Works /\ work.phase \in Phase
  BY DEF IInv, TypeOK, Works, Given
<1>2. Sound(disk) /\ Sound(mem)
  BY DEF CritiqueInv
<1>3. CASE AgentIterate
  BY <1>3, AgentIterateSound
<1>4. ASSUME NEW s \in Statuses, ExecutorReturns(s)
      PROVE  CritiqueInv'
  <2> DEFINE updated == ExecutorUpdates(disk, work, s)
  <2>1. WorkIsGrounded(disk)
    BY <1>4 DEF ExecutorReturns, CritiqueInv
  <2>2. updated \in MissionStates /\ Sound(updated)
    BY <1>1, <1>2, <2>1, ExecutorUpdatesType, ExecutorUpdatesSound
  <2>3. Settle(updated, RuntimeAfter(Executor[work.phase], s)) /\ UNCHANGED disk
    BY <1>4 DEF ExecutorReturns, files
  <2> HIDE DEF updated
  <2> QED
    BY <1>2, <2>2, <2>3, SettleSound
<1>5. CASE ExecutorRaises
  <2> DEFINE kept == [KeepInMemory(mem, disk) EXCEPT !.action[work.phase] = "blocked"]
  <2>1. KeepInMemory(mem, disk) \in MissionStates
    BY <1>1, KeepInMemoryType
  <2>2. kept \in MissionStates
    BY <1>1, <2>1 DEF MissionStates, ActionStatus
  <2>3. /\ Settle(kept, "failed") /\ UNCHANGED disk
        /\ \A p \in Phase : mem.by_phase[p] \subseteq disk.by_phase[p]
    BY <1>5 DEF ExecutorRaises, files, CritiqueInv
  <2>4. Sound(KeepInMemory(mem, disk))
    BY <1>1, <1>2, <2>3, KeepInMemorySound
  <2>5. Sound(kept)
    BY <1>1, <2>1, <2>4, ActionSound
  <2> HIDE DEF kept
  <2> QED
    BY <1>2, <2>2, <2>3, <2>5, SettleSound
<1>6. CASE CallPlanner
  <2> DEFINE updated == ExecutorUpdates(disk, work, "completed")
  <2>1. WorkIsGrounded(disk)
    BY <1>6 DEF CallPlanner, CritiqueInv
  <2>2. Sound(updated)
    BY <1>1, <1>2, <2>1, ExecutorUpdatesSound
  <2>3. disk' = updated /\ mem' = updated /\ pc' = "planner"
    BY <1>6 DEF CallPlanner
  <2> HIDE DEF updated
  <2> QED
    BY <2>2, <2>3, CritiqueElsewhere DEF Writing
<1>7. CASE PlannerStages
  <2> DEFINE staged == [disk EXCEPT !.bootstrap = "followup-staged"]
  <2>1. staged \in MissionStates /\ SameGrounds(disk, staged)
    BY <1>1 DEF MissionStates, BootstrapStatus, SameGrounds
  <2>2. Settle(staged, "running") /\ UNCHANGED disk
    BY <1>7 DEF PlannerStages, files
  <2> HIDE DEF staged
  <2>3. Sound(staged)
    BY <1>2, <2>1, SameGroundsSound
  <2> QED
    BY <1>2, <2>1, <2>2, <2>3, SettleSound
<1>8. CASE PlannerRaises
  <2>1. mem' = disk /\ pc' = "loop" /\ UNCHANGED disk
    BY <1>8 DEF PlannerRaises, files
  <2> QED
    BY <1>2, <2>1, CritiqueElsewhere DEF Writing
<1> QED
  BY <1>3, <1>4, <1>5, <1>6, <1>7, <1>8 DEF Execute

LEMMA EndPassSound ==
    ASSUME IInv, CritiqueInv, EndPass
    PROVE  CritiqueInv'
PROOF
<1>1. disk \in MissionStates /\ Sound(disk) /\ Sound(mem)
  BY DEF IInv, TypeOK, CritiqueInv
<1>2. CASE NextIteration \/ ReturnAtLimit
  <2>1. UNCHANGED <<disk, mem>> /\ pc' \in {"idle", "loop"}
    BY <1>2 DEF NextIteration, ReturnAtLimit, files
  <2> QED
    BY <1>1, <2>1, CritiqueElsewhere DEF Writing
<1>3. CASE StopCondition \/ StopAtLimit
  <2>1. /\ disk' = disk /\ pc' = "inbox" /\ resume' = "end"
        /\ mem' = StopStatus(disk, "max-iterations")
    BY <1>3 DEF StopCondition, StopAtLimit, BeginWrite, files, IInv, WrittenAgrees
  <2>2. Sound(StopStatus(disk, "max-iterations"))
    BY <1>1, StatusSound
  <2>3. Sound(mem') /\ Sound(disk')
    BY <1>1, <2>1, <2>2
  <2> QED
    BY <2>1, <2>3, CritiqueElsewhere
<1> QED
  BY <1>2, <1>3 DEF EndPass

LEMMA OutsideSound ==
    ASSUME IInv, CritiqueInv, Start \/ Crash \/ OperatorFix
    PROVE  CritiqueInv'
PROOF
<1>1. mem' = disk' /\ SameGrounds(disk, disk')
  BY DEF Start, LaunchPass, LaunchCompleted, Launch, Crash, OperatorFix, files,
         IInv, TypeOK, MissionStates, SameGrounds
<1>2. /\ pc' # "execute"
      /\ pc' \in Writing => resume' = "end"
  BY DEF Start, LaunchPass, LaunchCompleted, BeginWrite, Crash, OperatorFix, Stopped, Writing
<1>3. Sound(disk') /\ Sound(mem')
  BY <1>1, SameGroundsSound DEF CritiqueInv
<1> QED
  BY <1>2, <1>3, CritiqueElsewhere

LEMMA StepSound ==
    ASSUME CritiqueOpensReport, IInv, CritiqueInv, [Next]_vars, ~strayed'
    PROVE  CritiqueInv'
PROOF
<1>1. CASE UNCHANGED vars
  BY <1>1 DEF vars, CritiqueInv, Sound, RecordsAreWhole, CritiqueIsDue, PromotedOnGrounds,
              Grounded, WorkIsGrounded, NamesOnGrounds, Settled
<1> QED
  BY <1>1, WriteSound, DecideSound, ExecuteSound, EndPassSound, OutsideSound
     DEF Next, PassStep

LEMMA CritiqueInvariance ==
    ASSUME ReportsLeaveCompletion, CritiqueOpensReport, StartsBeforeReport
    PROVE  Spec => [](strayed \/ CritiqueInv)
PROOF
<1>1. Init => CritiqueInv
  BY InitSound
<1>2. IInv /\ (strayed \/ CritiqueInv) /\ [Next]_vars => (strayed \/ CritiqueInv)'
  BY StepSound, StrayedStays
<1> QED
  BY <1>1, <1>2, Invariance, PTL DEF Spec

\* Under the shipped contract, whatever executors raise, whichever writer comes last and
\* whatever other phases agents name, a mission that stands in replication or the final
\* report, or is told to go there, has critique's outputs in its file, until a report strays.
THEOREM CritiqueBacksPromotion ==
    ASSUME ReportsLeaveCompletion, CritiqueOpensReport, StartsBeforeReport
    PROVE  Spec => []PromotionIsGrounded
PROOF
<1>1. strayed \/ CritiqueInv => PromotionIsGrounded
  BY DEF CritiqueInv, Sound, PromotionIsGrounded
<1> QED
  BY <1>1, CritiqueInvariance, PTL

\* Under the same contract no agent and no decision enters the final report before critique
\* has produced what the contract asks of it, until a report strays.
THEOREM CritiqueComesFirst ==
    ASSUME ReportsLeaveCompletion, CritiqueOpensReport, StartsBeforeReport
    PROVE  Spec => NoReportWithoutCritique
PROOF
<1> DEFINE A == (disk'.current_phase = FinalReport /\ disk.current_phase # FinalReport) =>
                   strayed' \/ PhaseEvidence(disk', Critique)
<1>1. ASSUME CritiqueInv', disk'.current_phase = FinalReport
      PROVE  PhaseEvidence(disk', Critique)
  <2>1. Grounded(disk') /\ Critique # FinalReport
    BY <1>1 DEF CritiqueInv, Sound, PromotedOnGrounds, Promoted, Grounded, CritiqueOpensReport
  <2> QED
    BY <1>1, <2>1 DEF Grounded, PhaseEvidence, PhaseOutputs
<1>2. (strayed \/ CritiqueInv)' /\ [Next]_vars => [A]_vars
  BY <1>1
<1>3. Spec => [][A]_vars
  BY <1>2, CritiqueInvariance, PTL DEF Spec
<1> QED
  BY <1>3 DEF NoReportWithoutCritique

----------------------------------------------------------------------------
(* How many decisions a pass takes.                                        *)

QueueAt(p) == Executor[p] = "self-healing-queue"

\* How often in a row the baseline queue can still run in the phase m stands in: on an
\* action left open, which may declare less than is missing; on what one of the two
\* records of outputs lacks; on what both lack.
Reruns(m) ==
    IF ~QueueAt(m.current_phase) THEN 0
    ELSE IF HasPendingAction(m) THEN 3
    ELSE IF MissingOutputs(m) = {} THEN 0
    ELSE IF m.produced_outputs = {} THEN 2 ELSE 1

\* The same once the queue dispatched in phase p has returned.
Left(m, p) ==
    LET outputs == m.produced_outputs \cup m.due[p]
    IN  IF Required[p] \subseteq outputs THEN 0
        ELSE IF outputs = {} THEN 2 ELSE 1

\* What the decision under way may cost.
Affordable(m) ==
    /\ rt.iterations < budget /\ decisions <= 4 * rt.iterations + 4
    /\ QueueAt(work.phase) =>
         /\ work.iterations = 0
         /\ m.current_phase = work.phase
         /\ decisions + Left(m, work.phase) <= 4 * rt.iterations + 3

\* The inductive invariant: a counted iteration pays for four decisions, its own and
\* three of a queue whose planner raised.
CountInv ==
    /\ decisions <= 4 * budget
    /\ pc = "loop" /\ rt.iterations < budget =>
         decisions + Reruns(disk) <= 4 * rt.iterations + 3
    /\ pc \in Writing /\ resume = "execute" => Affordable(mem)
    /\ pc = "execute" => Affordable(disk)
    /\ pc = "planner" =>
         rt.iterations < budget /\ decisions + Reruns(disk) <= 4 * rt.iterations + 3
    /\ pc = "check" \/ (pc \in Writing /\ resume # "execute") => decisions <= 4 * rt.iterations

LEMMA RerunsBounds ==
    ASSUME NEW m
    PROVE  Reruns(m) \in 0..3
BY DEF Reruns

LEMMA LeftBounds ==
    ASSUME NEW m, NEW p
    PROVE  Left(m, p) \in 0..2
BY DEF Left

\* Running the queue once leaves one rerun less.
LEMMA DispatchLeaves ==
    ASSUME QueueHintsCover, NEW m \in MissionStates, NEW n, NEW log, SelectsWork(m, log),
           QueueAt(m.current_phase),
           n.produced_outputs = m.produced_outputs,
           n.due = [m.due EXCEPT ![m.current_phase] = DueOutputs(m)]
    PROVE  Left(n, m.current_phase) + 1 <= Reruns(m)
PROOF
<1> DEFINE p       == m.current_phase
           outputs == m.produced_outputs \cup DueOutputs(m)
<1>1. p \in Phase /\ n.due[p] = DueOutputs(m)
  BY DEF MissionStates
<1>2. Left(n, p) = IF Required[p] \subseteq outputs THEN 0 ELSE IF outputs = {} THEN 2 ELSE 1
  BY <1>1 DEF Left
<1>3. CASE HasPendingAction(m)
  BY <1>2, <1>3 DEF Reruns
<1>4. CASE ~HasPendingAction(m)
  <2>1. MissingOutputs(m) # {}
    BY <1>4 DEF SelectsWork
  <2>2. DueOutputs(m) = IF Produces[p] # {} THEN Produces[p] ELSE MissingOutputs(m)
    BY <1>4 DEF DueOutputs
  <2>3. CASE m.produced_outputs = {}
    <3>1. outputs # {}
      BY <2>1, <2>2
    <3>2. Reruns(m) = 2
      BY <1>4, <2>1, <2>3 DEF Reruns
    <3> HIDE DEF outputs
    <3> QED
      BY <1>2, <3>1, <3>2
  <2>4. CASE m.produced_outputs # {}
    <3>1. MissingOutputs(m) = Required[p] \ m.produced_outputs
      BY <2>4 DEF MissingOutputs, Observed
    <3>2. Required[p] \subseteq outputs
      BY <1>1, <2>2, <3>1 DEF QueueHintsCover, QueueAt
    <3>3. Reruns(m) = 1
      BY <1>4, <2>1, <2>4 DEF Reruns
    <3> HIDE DEF outputs
    <3> QED
      BY <1>2, <3>2, <3>3
  <2> QED
    BY <2>3, <2>4
<1> QED
  BY <1>3, <1>4

\* What a queue that has returned leaves to do.
LEMMA ReturnLeaves ==
    ASSUME NEW m \in MissionStates, work \in Works,
           QueueAt(work.phase), work.iterations = 0, m.current_phase = work.phase
    PROVE  Reruns(ExecutorUpdates(m, work, "completed")) <= Left(m, work.phase)
PROOF
<1> DEFINE p       == work.phase
           outputs == m.produced_outputs \cup m.due[p]
           n       == ExecutorUpdates(m, work, "completed")
<1>1. p \in Phase /\ m.action \in [Phase -> ActionStatus]
  BY DEF Works, MissionStates
<1>2. /\ n.current_phase = p /\ n.produced_outputs = outputs
      /\ n.action = [m.action EXCEPT ![p] = "completed"]
  BY <1>1 DEF ExecutorUpdates, MergeOutputs, ActionResult, MissionStates
<1>3. ~HasPendingAction(n)
  BY <1>1, <1>2 DEF HasPendingAction
<1> HIDE DEF n
<1>4. MissingOutputs(n) = {} \/ ~(Required[p] \subseteq outputs)
  BY <1>2 DEF MissingOutputs, Observed
<1>5. Left(m, p) = IF Required[p] \subseteq outputs THEN 0 ELSE IF outputs = {} THEN 2 ELSE 1
  BY DEF Left
<1>6. Reruns(n) = IF MissingOutputs(n) = {} THEN 0 ELSE IF outputs = {} THEN 2 ELSE 1
  BY <1>2, <1>3 DEF Reruns
<1> HIDE DEF outputs
<1>7. Reruns(n) <= Left(m, p)
  BY <1>4, <1>5, <1>6
<1> QED
  BY <1>7 DEF n

LEMMA CountsAreNat ==
    ASSUME TypeOK
    PROVE  /\ rt.iterations \in Nat /\ rs.iterations \in Nat
           /\ budget \in Nat /\ decisions \in Nat
BY DEF TypeOK, RuntimeStates

\* A decision that is paid for by the iteration it ends.
LEMMA EndIterationCount ==
    ASSUME TypeOK, NEW m, NEW s, EndIteration(m, s), budget' = budget,
           decisions' <= 4 * rt.iterations + 4, rt.iterations < budget, decisions' \in Nat
    PROVE  CountInv'
PROOF
<1>1. pc' = "inbox" /\ resume' = "check" /\ rt'.iterations = rt.iterations + 1
  BY DEF EndIteration, BeginWrite
<1>2. rt.iterations \in Nat /\ budget \in Nat
  BY CountsAreNat
<1>3. decisions' <= 4 * budget' /\ decisions' <= 4 * rt'.iterations
  BY <1>1, <1>2
<1> QED
  BY <1>1, <1>3 DEF CountInv

LEMMA SettleCount ==
    ASSUME TypeOK, NEW m, NEW s, Settle(m, s), UNCHANGED <<budget, decisions>>,
           decisions <= 4 * rt.iterations + 4, rt.iterations < budget
    PROVE  CountInv'
PROOF
<1>1. PICK n : EndIteration(n, s)
  BY DEF Settle
<1>2. decisions' \in Nat /\ decisions' <= 4 * rt.iterations + 4 /\ budget' = budget
  BY CountsAreNat
<1> QED
  BY <1>1, <1>2, EndIterationCount

LEMMA WriteCount ==
    ASSUME IInv, CountInv, Write
    PROVE  CountInv'
PROOF
<1>1. /\ UNCHANGED <<work, rt, budget, decisions>> /\ decisions <= 4 * budget
      /\ rt.iterations \in Nat /\ decisions \in Nat
  BY CountsAreNat
     DEF Write, WriteInbox, WriteMission, WriteRuntime, steady, CountInv, IInv
<1>2. CASE WriteInbox \/ WriteMission
  <2>1. /\ pc \in Writing /\ pc' \in Writing /\ resume' = resume
        /\ mem'.current_phase = mem.current_phase /\ mem'.due = mem.due
        /\ mem'.produced_outputs = mem.produced_outputs
    BY <1>2 DEF WriteInbox, WriteMission, Writing, IInv, TypeOK, MissionStates
  <2>2. CASE resume = "execute"
    <3>1. Affordable(mem)
      BY <2>1, <2>2 DEF CountInv
    <3>2. Affordable(mem)'
      BY <1>1, <2>1, <3>1 DEF Affordable, Left
    <3> QED
      BY <1>1, <2>1, <2>2, <3>2 DEF CountInv, Writing
  <2>3. CASE resume # "execute"
    BY <1>1, <2>1, <2>3 DEF CountInv, Writing
  <2> QED
    BY <2>2, <2>3
<1>3. CASE WriteRuntime
  <2>1. /\ pc = "runtime" /\ disk = mem /\ disk' = disk /\ mem' = mem /\ resume' = "check"
        /\ pc' = IF resume = "end" THEN "idle" ELSE resume
        /\ resume \in {"check", "execute", "end"}
    BY <1>3 DEF WriteRuntime, IInv, WrittenAgrees, TypeOK
  <2>2. CASE resume = "execute"
    <3>1. Affordable(mem)
      BY <2>1, <2>2 DEF CountInv, Writing
    <3>2. Affordable(disk)'
      BY <1>1, <2>1, <3>1 DEF Affordable, Left
    <3> QED
      BY <1>1, <2>1, <2>2, <3>2 DEF CountInv, Writing
  <2>3. CASE resume # "execute"
    BY <1>1, <2>1, <2>3 DEF CountInv, Writing
  <2> QED
    BY <2>2, <2>3
<1> QED
  BY <1>2, <1>3 DEF Write

LEMMA DispatchCount ==
    ASSUME QueueHintsCover, IInv, CountInv, DecideDispatch
    PROVE  CountInv'
PROOF
<1> DEFINE p == disk.current_phase
<1>1. disk \in MissionStates /\ p \in Phase
  BY DEF IInv, TypeOK, MissionStates
<1>2. /\ rt.iterations \in Nat /\ budget \in Nat /\ decisions \in Nat
      /\ Reruns(disk) \in 0..3
  BY CountsAreNat, RerunsBounds DEF IInv
<1>3. /\ pc = "loop" /\ rt.iterations < budget /\ budget' = budget
      /\ decisions' = decisions + 1 /\ rt'.iterations = rt.iterations
      /\ pc' = "inbox" /\ resume' = "execute" /\ work'.phase = p /\ work'.iterations = 0
      /\ SelectsWork(disk, branches)
  BY DEF DecideDispatch, Deciding, BeginWrite, steady, IInv, TypeOK, RuntimeStates
<1>4. decisions + Reruns(disk) <= 4 * rt.iterations + 3
  BY <1>3 DEF CountInv
<1>5. /\ mem'.current_phase = p /\ mem'.produced_outputs = disk.produced_outputs
      /\ mem'.due = [disk.due EXCEPT ![p] = DueOutputs(disk)]
  BY <1>1 DEF DecideDispatch, MissionStates
<1>6. QueueAt(p) => Left(mem', p) + 1 <= Reruns(disk)
  BY <1>1, <1>3, <1>5, DispatchLeaves
<1>7. Left(mem', p) \in 0..2
  BY LeftBounds
<1> HIDE DEF p
<1>8. Affordable(mem)'
  BY <1>2, <1>3, <1>4, <1>5, <1>6, <1>7 DEF Affordable, QueueAt, Left
<1>9. decisions' <= 4 * budget'
  BY <1>2, <1>3, <1>4
<1> QED
  BY <1>3, <1>8, <1>9 DEF CountInv

LEMMA DecideCount ==
    ASSUME QueueHintsCover, IInv, CountInv, Decide
    PROVE  CountInv'
PROOF
<1>1. CASE DecideDispatch
  BY <1>1, DispatchCount
<1>2. CASE ~DecideDispatch
  <2>1. /\ pc = "loop" /\ rt.iterations < budget /\ budget' = budget
        /\ decisions' = decisions + 1
        /\ \E m, s : EndIteration(m, s)
    BY <1>2 DEF Decide, DecideComplete, DecideBlock, DecideTransition, DecideNoExecutor,
                Deciding, steady
  <2>2. TypeOK /\ rt.iterations \in Nat /\ decisions \in Nat /\ Reruns(disk) \in 0..3
    BY CountsAreNat, RerunsBounds DEF IInv
  <2>3. decisions + Reruns(disk) <= 4 * rt.iterations + 3
    BY <2>1 DEF CountInv
  <2>4. decisions' <= 4 * rt.iterations + 4 /\ decisions' \in Nat
    BY <2>1, <2>2, <2>3
  <2> QED
    BY <2>1, <2>2, <2>4, EndIterationCount
<1> QED
  BY <1>1, <1>2

LEMMA ExecuteCount ==
    ASSUME IInv, CountInv, Execute
    PROVE  CountInv'
PROOF
<1>1. /\ UNCHANGED <<budget, decisions>> /\ decisions <= 4 * budget
      /\ rt.iterations \in Nat /\ decisions \in Nat /\ budget \in Nat /\ TypeOK
      /\ work \in Works /\ disk \in MissionStates
  BY CountsAreNat
     DEF Execute, AgentIterate, ExecutorReturns, ExecutorRaises, CallPlanner, PlannerStages,
         PlannerRaises, steady, CountInv, IInv, TypeOK, Works, Given
<1>2. CASE AgentIterate
  <2>1. /\ Affordable(disk) /\ pc' = "execute" /\ UNCHANGED <<rt, resume>>
        /\ Executor[work.phase] = "recursive-agent" /\ work'.phase = work.phase
    BY <1>1, <1>2 DEF AgentIterate, CountInv, Works
  <2>2. Affordable(disk)'
    BY <1>1, <2>1 DEF Affordable, QueueAt
  <2> QED
    BY <1>1, <2>1, <2>2 DEF CountInv, Writing
<1>3. CASE (\E s : ExecutorReturns(s)) \/ ExecutorRaises
  <2>1. Affordable(disk) /\ \E m, s : Settle(m, s)
    BY <1>3 DEF ExecutorReturns, ExecutorRaises, CountInv
  <2> QED
    BY <1>1, <2>1, SettleCount DEF Affordable
<1>4. CASE CallPlanner
  <2> DEFINE updated == ExecutorUpdates(disk, work, "completed")
  <2>1. /\ Affordable(disk) /\ QueueAt(work.phase)
        /\ disk' = updated /\ pc' = "planner" /\ UNCHANGED <<rt, resume>>
    BY <1>4 DEF CallPlanner, StagesFollowup, QueueAt, CountInv
  <2>2. Reruns(updated) <= Left(disk, work.phase)
    BY <1>1, <2>1, ReturnLeaves DEF Affordable
  <2>3. Reruns(updated) \in 0..3 /\ Left(disk, work.phase) \in 0..2
    BY RerunsBounds, LeftBounds
  <2> HIDE DEF updated
  <2>4. decisions + Reruns(updated) <= 4 * rt.iterations + 3 /\ rt.iterations < budget
    BY <1>1, <2>1, <2>2, <2>3 DEF Affordable
  <2>5. (Reruns(disk))' = Reruns(updated)
    BY <2>1 DEF Reruns, HasPendingAction, MissingOutputs, Observed
  <2> QED
    BY <1>1, <2>1, <2>4, <2>5 DEF CountInv, Writing
<1>5. CASE PlannerStages
  <2>1. /\ rt.iterations < budget /\ decisions + Reruns(disk) <= 4 * rt.iterations + 3
        /\ \E m, s : Settle(m, s)
    BY <1>5 DEF PlannerStages, CountInv
  <2>2. Reruns(disk) \in 0..3
    BY RerunsBounds
  <2>3. decisions <= 4 * rt.iterations + 4
    BY <1>1, <2>1, <2>2
  <2> QED
    BY <1>1, <2>1, <2>3, SettleCount
<1>6. CASE PlannerRaises
  <2>1. /\ decisions + Reruns(disk) <= 4 * rt.iterations + 3
        /\ disk' = disk /\ pc' = "loop" /\ rt'.iterations = rt.iterations
    BY <1>6 DEF PlannerRaises, files, CountInv, IInv, TypeOK, RuntimeStates
  <2>2. (Reruns(disk))' = Reruns(disk)
    BY <2>1 DEF Reruns, HasPendingAction, MissingOutputs, Observed
  <2> QED
    BY <1>1, <2>1, <2>2 DEF CountInv, Writing
<1> QED
  BY <1>2, <1>3, <1>4, <1>5, <1>6 DEF Execute

LEMMA EndPassCount ==
    ASSUME IInv, CountInv, EndPass
    PROVE  CountInv'
PROOF
<1>1. /\ UNCHANGED <<budget, decisions, disk>> /\ decisions <= 4 * budget
      /\ rt'.iterations = rt.iterations
      /\ rt.iterations \in Nat /\ decisions \in Nat /\ budget \in Nat
  BY CountsAreNat
     DEF EndPass, NextIteration, StopCondition, StopAtLimit, ReturnAtLimit, files, steady,
         CountInv, IInv, TypeOK, RuntimeStates
<1>2. CASE NextIteration
  <2>1. decisions <= 4 * rt.iterations /\ pc' \in {"idle", "loop"}
    BY <1>2 DEF NextIteration, CountInv
  <2>2. (Reruns(disk))' \in 0..3
    BY RerunsBounds
  <2> QED
    BY <1>1, <2>1, <2>2 DEF CountInv, Writing
<1>3. CASE StopCondition \/ StopAtLimit
  <2>1. pc' = "inbox" /\ resume' = "end"
    BY <1>3 DEF StopCondition, StopAtLimit, BeginWrite
  <2>2. decisions <= 4 * rt.iterations
    BY <1>1, <1>3 DEF StopCondition, StopAtLimit, AtLimit, CountInv
  <2> QED
    BY <1>1, <2>1, <2>2 DEF CountInv
<1>4. CASE ReturnAtLimit
  BY <1>1, <1>4 DEF ReturnAtLimit, CountInv, Writing
<1> QED
  BY <1>2, <1>3, <1>4 DEF EndPass

LEMMA OutsideCount ==
    ASSUME IInv, CountInv, Start \/ Crash \/ OperatorFix
    PROVE  CountInv'
PROOF
<1>1. CASE Start
  <2>1. /\ decisions' = 0 /\ rt'.iterations = rs.iterations
        /\ budget' \in Nat
        /\ pc' = "loop" \/ (pc' = "inbox" /\ resume' = "end")
    BY <1>1, BoundAssumption
       DEF Start, LaunchPass, LaunchCompleted, Launch, BeginWrite, IInv, TypeOK, RuntimeStates
  <2>2. rs.iterations \in Nat /\ (Reruns(disk))' \in 0..3
    BY CountsAreNat, RerunsBounds DEF IInv
  <2>3. decisions' <= 4 * budget' /\ decisions' <= 4 * rt'.iterations
    <3>1. \A n \in Nat : 0 <= 4 * n
      OBVIOUS
    <3>2. decisions' = 0 /\ budget' \in Nat /\ rt'.iterations \in Nat
      BY <2>1, <2>2
    <3> QED
      BY <3>1, <3>2
  <2>4. decisions' + (Reruns(disk))' <= 4 * rt'.iterations + 3
    BY <2>1, <2>2
  <2> QED
    BY <2>1, <2>3, <2>4 DEF CountInv, Writing
<1>2. CASE Crash \/ OperatorFix
  <2>1. pc' \in Stopped /\ UNCHANGED <<budget, decisions>>
    BY <1>2 DEF Crash, OperatorFix, Stopped, steady
  <2> QED
    BY <2>1 DEF CountInv, Writing, Stopped
<1> QED
  BY <1>1, <1>2

LEMMA StepCount ==
    ASSUME QueueHintsCover, IInv, CountInv, [Next]_vars
    PROVE  CountInv'
PROOF
<1>1. CASE UNCHANGED vars
  BY <1>1 DEF vars, CountInv, Reruns, HasPendingAction, MissingOutputs, Observed, Affordable,
              Left
<1> QED
  BY <1>1, WriteCount, DecideCount, ExecuteCount, EndPassCount, OutsideCount
     DEF Next, PassStep

\* Whatever raises, crashes or is relaunched, the iteration limit bounds the decisions of a
\* pass, for every mission whose queue hints declare all that is missing: the part of
\* PassEnds that is a safety property, for every value of the limit.
THEOREM LimitBoundsDecisions ==
    ASSUME ReportsLeaveCompletion, QueueHintsCover
    PROVE  Spec => []DecisionsAreBounded
PROOF
<1>1. Init => CountInv
  BY DEF Init, CountInv, Writing
<1>2. IInv /\ CountInv /\ [Next]_vars => CountInv'
  BY StepCount
<1>3. CountInv => DecisionsAreBounded
  BY DEF CountInv, DecisionsAreBounded
<1> QED
  BY <1>1, <1>2, <1>3, Invariance, PTL DEF Spec

----------------------------------------------------------------------------
(* What a reader of the two files sees.                                    *)

\* What a pass that writes is about to say, against what the files say: work starts,
\* an iteration ends, or the pass does.
LifeInv ==
    pc \in {"inbox", "state"} =>
        /\ mem.status = "completed" \/ disk.status # "completed"
        /\ rt.iterations = rs.iterations + (IF resume = "check" THEN 1 ELSE 0)
        /\ resume = "execute" => mem.status = disk.status /\ rt.status = "running"
        /\ resume = "check" => disk.status # "completed" /\ rt.status # "initialized"
        /\ resume = "end" => rt.status = IF disk.status = "completed" THEN "completed"
                                         ELSE "max-iterations"

LEMMA SameFiles ==
    ASSUME UNCHANGED <<disk, rs>>
    PROVE  UNCHANGED Life!lifecycle
PROOF
<1>1. Justified(disk)' = Justified(disk)
  BY DEF Justified, Evidence, PhaseEvidence, PhaseOutputs, MissingOutputs, Observed
<1> QED
  BY <1>1 DEF Life!lifecycle

LEMMA JustifiedIsBoolean ==
    ASSUME NEW m
    PROVE  Justified(m) \in BOOLEAN
BY DEF Justified

LEMMA GroundsAreBoolean == Justified(disk)' \in BOOLEAN
BY DEF Justified

LEMMA RuntimeRecord ==
    ASSUME NEW r \in RuntimeStates
    PROVE  r = [status |-> r.status, iterations |-> r.iterations]
BY DEF RuntimeStates

LEMMA LifeInit == Init => LifeInv /\ Life!Init
PROOF
<1> SUFFICES ASSUME Init PROVE LifeInv /\ Life!Init
  OBVIOUS
<1>1. /\ disk.status # "completed" /\ rs = [status |-> "initialized", iterations |-> 0]
      /\ disk.runtime = rs /\ pc = "idle"
  BY BoundAssumption DEF Init
<1>2. Justified(disk) \in BOOLEAN
  BY JustifiedIsBoolean
<1> QED
  BY <1>1, <1>2 DEF LifeInv, Life!Init, Life!Fresh

\* The end of an iteration is on its way to the files once it is counted.
LEMMA EndIterationLife ==
    ASSUME IInv, pc \in {"loop", "execute", "planner"}, UNCHANGED <<disk, rs>>,
           NEW m, NEW s \in RuntimeStatus \ {"initialized"}, EndIteration(m, s)
    PROVE  LifeInv'
PROOF
<1>1. disk.status # "completed" /\ rt.iterations = rs.iterations
  BY DEF IInv, CompletedIsLeftAlone, CounterLeads, Writing
<1>2. /\ rt' = [status |-> s, iterations |-> rt.iterations + 1]
      /\ resume' = "check"
  BY DEF EndIteration, BeginWrite
<1> QED
  BY <1>1, <1>2 DEF LifeInv

LEMMA StepLife ==
    ASSUME IInv, LifeInv, [Next]_vars
    PROVE  LifeInv'
PROOF
<1>1. /\ disk \in MissionStates /\ rs \in RuntimeStates /\ rt \in RuntimeStates
      /\ rs.iterations \in Nat /\ rt.iterations \in Nat
  BY DEF IInv, TypeOK, RuntimeStates
<1>2. CASE UNCHANGED vars
  BY <1>2 DEF vars, LifeInv
<1>3. CASE Write
  <2>1. CASE WriteInbox
    <3>1. mem'.status = mem.status /\ pc = "inbox" /\ UNCHANGED <<disk, rs, rt, resume>>
      BY <2>1 DEF WriteInbox, IInv, TypeOK, MissionStates
    <3> QED
      BY <3>1 DEF LifeInv
  <2>2. CASE WriteMission \/ WriteRuntime
    BY <2>2 DEF WriteMission, WriteRuntime, LifeInv, IInv, TypeOK
  <2> QED
    BY <1>3, <2>1, <2>2 DEF Write
<1>4. CASE Decide
  <2>1. pc = "loop" /\ UNCHANGED <<disk, rs>>
    BY <1>4 DEF Decide, DecideComplete, DecideBlock, DecideTransition, DecideDispatch,
                DecideNoExecutor, Deciding
  <2>2. CASE DecideDispatch
    <3>1. /\ mem'.status = disk.status /\ resume' = "execute"
          /\ rt' = [rt EXCEPT !.status = "running"]
      BY <1>1, <2>2 DEF DecideDispatch, BeginWrite, MissionStates
    <3>2. rt'.status = "running" /\ rt'.iterations = rt.iterations
      BY <1>1, <3>1 DEF RuntimeStates
    <3>3. disk.status # "completed" /\ rt.iterations = rs.iterations
      BY <2>1 DEF IInv, CompletedIsLeftAlone, CounterLeads, Writing
    <3> QED
      BY <1>1, <2>1, <3>1, <3>2, <3>3 DEF LifeInv
  <2>3. CASE ~DecideDispatch
    <3>1. \E m, s : s \in {"completed", "blocked", "running"} /\ EndIteration(m, s)
      BY <1>4, <2>3 DEF Decide, DecideComplete, DecideBlock, DecideTransition, DecideNoExecutor
    <3>2. {"completed", "blocked", "running"} \subseteq RuntimeStatus \ {"initialized"}
      BY DEF RuntimeStatus
    <3> QED
      BY <2>1, <3>1, <3>2, EndIterationLife
  <2> QED
    BY <2>2, <2>3
<1>5. CASE Execute
  <2>1. pc \in {"execute", "planner"}
    BY <1>5 DEF Execute, AgentIterate, ExecutorReturns, ExecutorRaises, CallPlanner,
                PlannerStages, PlannerRaises
  <2>2. CASE AgentIterate \/ CallPlanner \/ PlannerRaises
    <3>1. pc' \in {"execute", "planner", "loop"}
      <4>1. CASE AgentIterate
        BY <4>1 DEF AgentIterate
      <4>2. CASE CallPlanner \/ PlannerRaises
        BY <4>2 DEF CallPlanner, PlannerRaises
      <4> QED
        BY <2>2, <4>1, <4>2
    <3> QED
      BY <3>1 DEF LifeInv
  <2>3. CASE ~(AgentIterate \/ CallPlanner \/ PlannerRaises)
    <3>1. \E m, s : /\ s \in {"running", "blocked", "failed", "max-iterations"}
                    /\ Settle(m, s) /\ UNCHANGED <<disk, rs>>
      <4>1. CASE \E s : ExecutorReturns(s)
        <5>1. PICK s : ExecutorReturns(s)
          BY <4>1
        <5>2. RuntimeAfter(Executor[work.phase], s)
                \in {"running", "blocked", "failed", "max-iterations"}
          BY DEF RuntimeAfter
        <5> QED
          BY <5>1, <5>2 DEF ExecutorReturns, files
      <4>2. CASE ExecutorRaises
        BY <4>2 DEF ExecutorRaises, files
      <4>3. CASE PlannerStages
        BY <4>3 DEF PlannerStages, files
      <4> QED
        BY <1>5, <2>3, <4>1, <4>2, <4>3 DEF Execute
    <3>2. \E m, s : /\ s \in {"running", "blocked", "failed", "max-iterations"}
                    /\ EndIteration(m, s) /\ UNCHANGED <<disk, rs>>
      BY <3>1 DEF Settle
    <3>3. {"running", "blocked", "failed", "max-iterations"} \subseteq RuntimeStatus \ {"initialized"}
      BY DEF RuntimeStatus
    <3> QED
      BY <2>1, <3>2, <3>3, EndIterationLife
  <2> QED
    BY <2>2, <2>3
<1>6. CASE EndPass
  <2>1. CASE NextIteration \/ ReturnAtLimit
    BY <2>1 DEF NextIteration, ReturnAtLimit, LifeInv
  <2>2. CASE StopCondition \/ StopAtLimit
    <3>1. /\ pc \in {"check", "loop"} /\ resume' = "end" /\ UNCHANGED <<disk, rs>>
          /\ rt' = [rt EXCEPT !.status = "max-iterations"]
      BY <2>2 DEF StopCondition, StopAtLimit, AtLimit, BeginWrite, files
    <3>2. disk.status # "completed"
      BY <2>2 DEF IInv, CompletionOnItsWay, CompletedIsLeftAlone, WrittenAgrees, StopCondition,
                  StopAtLimit, AtLimit, Terminal
    <3>3. rt.iterations = rs.iterations
      BY <3>1 DEF IInv, CounterLeads, Writing
    <3>4. rt'.status = "max-iterations" /\ rt'.iterations = rt.iterations
      BY <1>1, <3>1 DEF RuntimeStates
    <3> QED
      BY <1>1, <3>1, <3>2, <3>3, <3>4 DEF LifeInv
  <2> QED
    BY <1>6, <2>1, <2>2 DEF EndPass
<1>7. CASE Start
  <2>1. CASE \E b \in Budgets : LaunchPass(b)
    BY <2>1 DEF LaunchPass, LifeInv
  <2>2. CASE \E b \in Budgets : LaunchCompleted(b)
    <3>1. /\ disk.status = "completed" /\ mem' = disk /\ resume' = "end"
          /\ rt' = [rs EXCEPT !.status = "completed"] /\ UNCHANGED <<disk, rs>>
      BY <2>2 DEF LaunchCompleted, Launch, files
    <3>2. rt'.status = "completed" /\ rt'.iterations = rs.iterations
      BY <1>1, <3>1 DEF RuntimeStates
    <3> QED
      BY <1>1, <3>1, <3>2 DEF LifeInv
  <2> QED
    BY <1>7, <2>1, <2>2 DEF Start
<1>8. CASE Crash \/ OperatorFix
  BY <1>8 DEF Crash, OperatorFix, Stopped, LifeInv
<1> QED
  BY <1>2, <1>3, <1>4, <1>5, <1>6, <1>7, <1>8 DEF Next, PassStep

\* What the outer loop writes is a step of the mission's life.
LEMMA WriteMissionLives ==
    ASSUME IInv, EndInv, LifeInv, WriteMission
    PROVE  Life!Next
PROOF
<1>1. /\ pc = "state" /\ disk' = mem /\ rs' = rs /\ mem.runtime = rt
      /\ rt \in RuntimeStates /\ mem \in MissionStates /\ resume \in {"check", "execute", "end"}
  BY DEF WriteMission, IInv, WrittenAgrees, TypeOK
<1>2. rt = [status |-> rt.status, iterations |-> rt.iterations] /\ rs.iterations \in Nat
  BY <1>1, RuntimeRecord DEF IInv, TypeOK, RuntimeStates
<1>3. Justified(disk)' \in BOOLEAN /\ Justified(disk) \in BOOLEAN
  BY GroundsAreBoolean, JustifiedIsBoolean
<1>4. mem.status = "completed" => Justified(disk)' /\ rt.status = "completed" /\ resume # "execute"
  <2>1. mem.status = "completed" => Justified(mem) /\ rt.status = "completed" /\ resume # "execute"
    BY <1>1 DEF IInv, CompletionOnItsWay, Writing
  <2>2. Justified(mem) => Justified(disk)'
    BY <1>1 DEF Justified, Evidence, PhaseEvidence, PhaseOutputs, MissingOutputs, Observed
  <2> QED
    BY <2>1, <2>2
<1>5. CASE resume = "execute"
  <2>1. disk.status # "completed" /\ mem.status = disk.status
        /\ rt.status = "running" /\ rt.iterations = rs.iterations + 0
    BY <1>1, <1>4, <1>5 DEF LifeInv
  <2> QED
    BY <1>1, <1>2, <1>3, <2>1 DEF Life!Next, Life!Dispatch, Life!Save
<1>6. CASE resume = "check"
  <2>1. /\ disk.status # "completed" /\ rt.iterations = rs.iterations + 1
        /\ rt.status \in {"running", "completed", "blocked", "failed", "max-iterations"}
    BY <1>1, <1>6 DEF LifeInv, RuntimeStates, RuntimeStatus
  <2>2. Life!Agree(disk'.status, rt.status)
    BY <1>1, <1>6 DEF EndInv, StatusesAgree, Writing, Life!Agree
  <2>3. Life!Save(rt.status, 1)
    BY <1>1, <1>2, <2>1 DEF Life!Save
  <2> QED
    BY <1>1, <1>3, <1>4, <2>1, <2>2, <2>3 DEF Life!Next, Life!Iterate
<1>7. CASE resume = "end" /\ disk.status # "completed"
  <2>1. rt.status = "max-iterations" /\ rt.iterations = rs.iterations + 0
    BY <1>1, <1>7 DEF LifeInv
  <2>2. mem.status = "paused"
    BY <1>1, <1>7, <2>1 DEF EndInv, StatusesAgree, Writing
  <2> QED
    BY <1>1, <1>2, <1>3, <1>7, <2>1, <2>2 DEF Life!Next, Life!Pause, Life!Save
<1>8. CASE resume = "end" /\ disk.status = "completed"
  <2>1. /\ rt.status = "completed" /\ rt.iterations = rs.iterations + 0
        /\ mem.status = "completed"
    BY <1>1, <1>8 DEF LifeInv
  <2>2. Justified(disk)' = Justified(disk)
    BY <1>3, <1>4, <1>8, <2>1 DEF IInv, CompletionNeedsEvidence
  <2> QED
    BY <1>1, <1>2, <1>8, <2>1, <2>2 DEF Life!Next, Life!Confirm, Life!Save
<1> QED
  BY <1>1, <1>5, <1>6, <1>7, <1>8

LEMMA WriteRuntimeLives ==
    ASSUME IInv, WriteRuntime
    PROVE  Life!Next
PROOF
<1>1. /\ rs' = rt /\ disk' = disk /\ disk.runtime = rt
      /\ disk.runtime.iterations \in {rs.iterations, rs.iterations + 1}
  BY DEF WriteRuntime, IInv, WrittenAgrees, MissionFileLeads
<1>2. Justified(disk)' = Justified(disk)
  BY <1>1 DEF Justified, Evidence, PhaseEvidence, PhaseOutputs, MissingOutputs, Observed
<1> QED
  BY <1>1, <1>2 DEF Life!Next, Life!Commit

\* The agent, the outer loop before the planner, and the operator write the file; how the
\* mission stands they leave alone, or rename short of completing it.
LEMMA WorkLives ==
    ASSUME ReportsLeaveCompletion, IInv, AgentIterate \/ CallPlanner \/ OperatorFix
    PROVE  Life!Next
PROOF
<1>1. disk.status # "completed" /\ rs' = rs
  BY DEF AgentIterate, CallPlanner, OperatorFix, IInv, CompletedIsLeftAlone
<1>2. Follows(disk, disk')
  <2>1. CASE AgentIterate
    BY <2>1, AgentIterateEffect DEF IInv
  <2>2. CASE CallPlanner
    <3>1. disk \in MissionStates /\ work \in Works
      BY DEF IInv, TypeOK, Works, Given
    <3> QED
      BY <2>2, <3>1, ExecutorUpdatesFollows DEF CallPlanner
  <2>3. CASE OperatorFix
    BY <2>3 DEF OperatorFix, IInv, TypeOK, MissionStates, Follows
  <2> QED
    BY <2>1, <2>2, <2>3
<1> QED
  BY <1>1, <1>2, GroundsAreBoolean DEF Follows, Life!Next, Life!Work

\* Every other step is none of a reader's business.
LEMMA StepLives ==
    ASSUME ReportsLeaveCompletion, IInv, EndInv, LifeInv, [Next]_vars
    PROVE  [Life!Next]_(Life!lifecycle)
PROOF
<1>1. CASE WriteMission \/ WriteRuntime
  BY <1>1, WriteMissionLives, WriteRuntimeLives
<1>2. CASE AgentIterate \/ CallPlanner \/ OperatorFix
  BY <1>2, WorkLives
<1>3. CASE ~(WriteMission \/ WriteRuntime \/ AgentIterate \/ CallPlanner \/ OperatorFix)
  <2>1. UNCHANGED <<disk, rs>>
    BY <1>3 DEF vars, files, Next, PassStep, Write, WriteInbox, Decide, DecideComplete,
                DecideBlock, DecideTransition, DecideDispatch, DecideNoExecutor, Deciding,
                Execute, ExecutorReturns, ExecutorRaises, PlannerStages, PlannerRaises,
                EndPass, NextIteration, StopCondition, StopAtLimit, ReturnAtLimit,
                Start, LaunchPass, LaunchCompleted, Launch, Crash
  <2> QED
    BY <2>1, SameFiles
<1> QED
  BY <1>1, <1>2, <1>3

\* The two files implement the lifecycle, for any contract, executors and crashes: a
\* reader who sees nothing else of the outer loop may rely on MissionLifecycle alone, as
\* long as no agent says of its own accord that the mission is completed.
THEOREM FilesTellTheLifecycle ==
    ASSUME ReportsLeaveCompletion
    PROVE  Spec => FilesFollowLifecycle
PROOF
<1>1. Init => LifeInv /\ Life!Init
  BY LifeInit
<1>2. Init => EndInv
  BY EndInit
<1>3. IInv /\ EndInv /\ [Next]_vars => EndInv'
  BY StepEnds
<1>4. IInv /\ LifeInv /\ [Next]_vars => LifeInv'
  BY StepLife
<1>5. IInv /\ EndInv /\ LifeInv /\ [Next]_vars => [Life!Next]_(Life!lifecycle)
  BY StepLives
<1> QED
  BY <1>1, <1>2, <1>3, <1>4, <1>5, Invariance, PTL DEF Spec, FilesFollowLifecycle, Life!Spec
=============================================================================
