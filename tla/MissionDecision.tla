--------------------------- MODULE MissionDecision ---------------------------
(***************************************************************************)
(* The mission decision engine: what the outer loop reads from             *)
(* mission_state.json, how phase outputs and phase changes are recorded    *)
(* there, and which directive the engine selects for a given state.        *)
(*                                                                         *)
(* Everything here is a function of one mission state and the branch log.  *)
(* MissionRuntime adds the process that loads the state, acts on the       *)
(* directive and writes the result back.                                   *)
(***************************************************************************)
EXTENDS Naturals, FiniteSets

CONSTANTS
    Phase,              \* the phases of the mission contract
    NoPhase,            \* "no phase named" (a missing phase in a payload)
    Execution, Critique, Replication, FinalReport,  \* the phases the completion contract names
    Output,             \* the artifact names of the contract
    Required,           \* Required[p]: outputs phase p must produce
    Transitions,        \* Transitions[p]: phases reachable from p
    FirstTransition,    \* the first of them in file order; p itself when there is none
    TransitionMeta,     \* TransitionMeta[<<p, q>>]: branch and recovery status of the hop
    Executor,           \* Executor[p]: the executor hint of phase p
    Produces,           \* Produces[p]: the hint's produces_outputs
    NextOnSuccess       \* NextOnSuccess[p]: the hint's next_phase_on_success, or NoPhase

BranchStatus == {"planned", "active", "critique-ready", "replication-active",
                 "report-ready", "recovery-active"}
RecoveryStatus == {"not-needed", "reroute-planned"}
ExecutorKind == {"none", "recursive-agent", "self-healing-queue", "bounded"}

ASSUME PhaseAssumption ==
    /\ NoPhase \notin Phase
    /\ {Execution, Critique, Replication, FinalReport} \subseteq Phase

ASSUME ContractAssumption ==
    /\ Required \in [Phase -> SUBSET Output]
    /\ Transitions \in [Phase -> SUBSET Phase]
    /\ FirstTransition \in [Phase -> Phase]
    /\ \A p \in Phase : IF Transitions[p] = {} THEN FirstTransition[p] = p
                                               ELSE FirstTransition[p] \in Transitions[p]
    /\ \A p \in Phase : Transitions[p] = {} <=> p = FinalReport
    /\ TransitionMeta \in [Phase \X Phase -> [branch : BranchStatus, recovery : RecoveryStatus]]

ASSUME HintAssumption ==
    /\ Executor \in [Phase -> ExecutorKind]
    /\ Produces \in [Phase -> SUBSET Output]
    /\ NextOnSuccess \in [Phase -> Phase \cup {NoPhase}]

\* The shipped contract, as far as "no promotion to final-report without critique output"
\* (state-machine.yaml, terminal_rules) rests on it: replication and final report are
\* entered from critique and from each other, critique's first transition leads elsewhere,
\* no hint sends another phase there, and critique's outputs are its own.
Promoted == {Replication, FinalReport}
CritiqueOpensReport ==
    /\ Critique \notin Promoted
    /\ \A p \in Phase :
         /\ Transitions[p] \cap Promoted # {} => p \in {Critique, Replication}
         /\ NextOnSuccess[p] \in Promoted => p \in {Critique, Replication}
         /\ p # Critique => (Required[p] \cup Produces[p]) \cap Required[Critique] = {}
    /\ FirstTransition[Critique] \notin Promoted
    /\ Produces[Critique] = {} \/ Required[Critique] \subseteq Produces[Critique]

----------------------------------------------------------------------------
(* The mission state, as far as decisions depend on it.                    *)

ActionStatus == {"none", "pending", "in_progress", "completed", "blocked", "deferred"}
\* "other" is whatever else an agent calls the status of its mission.
MissionStatus == {"initialized", "running", "paused", "blocked", "failed", "completed", "other"}
RuntimeStatus == {"initialized", "running", "max-iterations", "blocked", "failed", "completed"}
BootstrapStatus == {"none", "pending", "baseline-running", "followup-staged"}
RuntimeStates == [status : RuntimeStatus, iterations : Nat]

MissionStates ==
    [current_phase    : Phase,
     next_phase       : Phase,
     produced_outputs : SUBSET Output,
     by_phase         : [Phase -> SUBSET Output],   \* phase_outputs_by_phase
     recorded         : SUBSET Phase,               \* its keys
     completed_phases : SUBSET Phase,
     phase_history    : SUBSET Phase,
     action           : [Phase -> ActionStatus],    \* status of action <phase>-missing-outputs
     due              : [Phase -> SUBSET Output],   \* and its produces_outputs
     operator_inbox   : {"clear", "open"},
     status           : MissionStatus,
     runtime          : RuntimeStates,              \* the mission_runtime block
     bootstrap        : BootstrapStatus,
     waived           : BOOLEAN,                    \* replication waived, with a reason
     accepted         : BOOLEAN]                    \* acceptance criteria satisfied

\* A branch record, keyed in the log by its target and kind.
Branches == [target : Phase, branch : BranchStatus, recovery : RecoveryStatus]

----------------------------------------------------------------------------
(* Reading and recording outputs.                                          *)

\* Outputs the engine attributes to phase p.
PhaseOutputs(m, p) ==
    IF m.by_phase[p] # {} THEN m.by_phase[p]
    ELSE IF p = m.current_phase THEN m.produced_outputs ELSE {}

\* Outputs the evidence snapshot shows for the current phase.
Observed(m) ==
    IF m.produced_outputs # {} THEN m.produced_outputs ELSE m.by_phase[m.current_phase]

MissingOutputs(m) == Required[m.current_phase] \ Observed(m)

\* Mutant: any phase's outputs are credited to the current phase as well.
MergeOutputsAnywhere(m, p, outputs) ==
    [m EXCEPT !.by_phase[p] = @ \cup outputs,
              !.recorded = @ \cup {p},
              !.produced_outputs = @ \cup outputs]

MergeOutputs(m, p, outputs) ==
    IF outputs = {} THEN m
    ELSE [m EXCEPT !.by_phase[p] = @ \cup outputs,
                   !.recorded = @ \cup {p},
                   !.produced_outputs = IF p = m.current_phase THEN @ \cup outputs ELSE @]

----------------------------------------------------------------------------
(* Changing phase.                                                         *)

\* Phases outside the current contract are replaced by its first transition.
NextPhaseFor(p, fallback) ==
    IF fallback \in Transitions[p] THEN fallback ELSE FirstTransition[p]

\* The phase left is snapshotted and marked completed; its outputs stay in the
\* history, while a phase entered for a second time starts again from nothing.
ApplyPhaseChange(m, to, next) ==
    LET from      == m.current_phase
        left      == [MergeOutputs(m, from, m.produced_outputs)
                        EXCEPT !.completed_phases = @ \cup {from}]
        revisited == to \in m.phase_history
        moved     == [left EXCEPT
                        !.current_phase = to,
                        !.next_phase = NextPhaseFor(to, next),
                        !.phase_history = @ \cup {to},
                        !.by_phase[to] = IF revisited THEN {} ELSE @,
                        !.recorded = IF revisited THEN @ \cup {to} ELSE @,
                        !.produced_outputs = IF revisited THEN {} ELSE left.by_phase[to]]
    IN  IF from = to
        THEN [m EXCEPT !.next_phase = NextPhaseFor(to, next),
                       !.phase_history = @ \cup {to}]
        ELSE moved

----------------------------------------------------------------------------
(* Branch records.                                                         *)

Priority(status) ==
    CASE status = "recovery-active"    -> 0
      [] status = "report-ready"       -> 1
      [] status = "replication-active" -> 2
      [] status = "critique-ready"     -> 3
      [] status = "active"             -> 4
      [] status = "planned"            -> 5

\* Branches that concern the current phase. No code closes a branch.
Candidates(m, log) ==
    {b \in log : \/ b.target = m.current_phase
                 \/ b.target \in Transitions[m.current_phase]
                 \/ Transitions[m.current_phase] = {}}

ActiveBranch(m, log) ==
    CHOOSE b \in Candidates(m, log) :
        \A c \in Candidates(m, log) : Priority(b.branch) <= Priority(c.branch)

----------------------------------------------------------------------------
(* Which directive the engine selects.                                     *)

HopMeta(m) == TransitionMeta[<<m.current_phase, m.next_phase>>]

\* REROUTE or BRANCH: the hops for which a missing branch record is created.
OpensBranch(meta) ==
    \/ meta.recovery = "reroute-planned"
    \/ meta.branch \in {"recovery-active", "replication-active", "report-ready", "critique-ready"}

\* A reroute-planned branch is followed before pending work or missing outputs
\* are looked at.
Rerouting(m, log) ==
    /\ Transitions[m.current_phase] # {}
    /\ Candidates(m, log) # {}
    /\ ActiveBranch(m, log).recovery = "reroute-planned"

HasPendingAction(m) == m.action[m.current_phase] \in {"pending", "in_progress"}

SelectsWork(m, log) ==
    /\ ~Rerouting(m, log)
    /\ HasPendingAction(m) \/ MissingOutputs(m) # {}

SelectsHop(m, log) ==
    \/ Rerouting(m, log)
    \/ /\ ~SelectsWork(m, log)
       /\ m.current_phase # FinalReport

\* What the selected action declares to produce. A pending action keeps what
\* it declared when it was first selected.
DueOutputs(m) ==
    IF HasPendingAction(m) THEN m.due[m.current_phase]
    ELSE IF Produces[m.current_phase] # {} THEN Produces[m.current_phase]
    ELSE MissingOutputs(m)

\* Final-report synthesis waits for the acceptance criteria.
HopAllowed(m) == m.next_phase = FinalReport => m.accepted

----------------------------------------------------------------------------
(* The completion contract.                                                *)

PhaseEvidence(m, p) == Required[p] \subseteq PhaseOutputs(m, p)

\* The clauses about the research itself.
Evidence(m) ==
    /\ m.accepted
    /\ \A p \in {Execution, Critique} : p \in m.completed_phases /\ PhaseEvidence(m, p)
    /\ IF Replication \in m.completed_phases THEN PhaseEvidence(m, Replication) ELSE m.waived

\* Mutant: the operator's waiver of replication is not asked for.
ContractUnwaived(m) ==
    /\ m.accepted /\ m.operator_inbox = "clear"
    /\ \A p \in {Execution, Critique} : p \in m.completed_phases /\ PhaseEvidence(m, p)

CompletionContract(m) == Evidence(m) /\ m.operator_inbox = "clear"

SelectsComplete(m, log) ==
    /\ ~SelectsWork(m, log)
    /\ ~SelectsHop(m, log)
    /\ CompletionContract(m)

SelectsBlock(m, log) ==
    \/ SelectsHop(m, log) /\ ~HopAllowed(m)
    \/ ~SelectsWork(m, log) /\ ~SelectsHop(m, log) /\ ~CompletionContract(m)
=============================================================================
