-------------------------- MODULE MCMissionRuntime ---------------------------
(***************************************************************************)
(* Instances of MissionRuntime for TLC: the tail of the default state      *)
(* machine (configs/autonomy/state-machine.yaml, lines 32-67 and 76-107),  *)
(* one artifact per phase, and the default execution hints of              *)
(* project_bootstrap.py, lines 37-47, or hints for a queue mission.        *)
(***************************************************************************)
EXTENDS MissionRuntime

MCPhase == {"design", "execution", "critique", "replication", "final"}
MCOutput == {"manifest", "metrics", "confounds", "repeats", "findings"}

MCRequired ==
    [p \in MCPhase |->
        CASE p = "design"      -> {"manifest"}
          [] p = "execution"   -> {"metrics"}
          [] p = "critique"    -> {"confounds"}
          [] p = "replication" -> {"repeats"}
          [] p = "final"       -> {"findings"}]

MCTransitions ==
    [p \in MCPhase |->
        CASE p = "design"      -> {"execution"}
          [] p = "execution"   -> {"critique"}
          [] p = "critique"    -> {"design", "replication", "final"}
          [] p = "replication" -> {"critique", "final"}
          [] p = "final"       -> {}]

MCFirstTransition ==
    [p \in MCPhase |->
        CASE p = "design"      -> "execution"
          [] p = "execution"   -> "critique"
          [] p = "critique"    -> "design"
          [] p = "replication" -> "critique"
          [] p = "final"       -> "final"]

\* Hops the contract does not list get the engine's generic metadata.
MCTransitionMeta ==
    [hop \in MCPhase \X MCPhase |->
        LET reroute == hop = <<"critique", "design">>
            branch  == CASE hop[2] \notin MCTransitions[hop[1]] -> "active"
                         [] reroute                -> "recovery-active"
                         [] hop[2] = "critique"    -> "critique-ready"
                         [] hop[2] = "replication" -> "replication-active"
                         [] hop[2] = "final"       -> "report-ready"
                         [] OTHER                  -> "active"
        IN  [branch |-> branch,
             recovery |-> IF reroute THEN "reroute-planned" ELSE "not-needed"]]

NoHintOutputs == [p \in MCPhase |-> {}]

\* The default hints: agents everywhere, report synthesis at the end.
AgentExecutor == [p \in MCPhase |-> IF p = "final" THEN "bounded" ELSE "recursive-agent"]

DefaultNext ==
    [p \in MCPhase |->
        CASE p = "execution"   -> "critique"
          [] p = "critique"    -> "replication"
          [] p = "replication" -> "final"
          [] OTHER             -> ""]

\* A project that runs a baseline queue in execution and bounded stages after it.
QueueExecutor ==
    [p \in MCPhase |->
        CASE p = "execution" -> "self-healing-queue"
          [] p = "design"    -> "none"
          [] OTHER           -> "bounded"]

StraightToReport == [DefaultNext EXCEPT !["critique"] = "final"]

\* Reports along the contract, with a continuation or without.
Report(of, next, continues) ==
    [of |-> of, current |-> of, next |-> next, continues |-> continues, updates |-> NoUpdate]
ContractReports ==
    {r \in UNION {{Report(p, q, q), Report(p, q, "")} : p \in MCPhase, q \in MCPhase \cup {""}} :
        r.next \in MCTransitions[r.of] \cup {""}}

\* And off it: the two of fake_recursive_agent.py (lines 55-66 and 83-98), the one that
\* provider_launcher.py makes up (lines 749-766), one that goes back against the contract,
\* one that goes straight to the final report, and one that withdraws outputs.
OtherReports ==
    {[Report("design", "execution", "execution") EXCEPT
        !.current = "execution", !.updates = [status |-> "other", current_phase |-> "execution"]],
     [Report("execution", "critique", "") EXCEPT
        !.updates = [status |-> "other", next_phase |-> "critique"]],
     [Report("execution", "critique", "") EXCEPT
        !.updates = [current_phase |-> "critique", next_phase |-> "critique"]],
     Report("execution", "design", "design"),
     Report("execution", "final", ""),
     [Report("critique", "", "") EXCEPT !.updates = [by_phase |-> [execution |-> {}]]]}

MCReports == ContractReports \cup OtherReports

ASSUME HonestReports == ReportsLeaveCompletion

\* What the shipped contract has in common with these instances.
ASSUME ShippedContract == CritiqueOpensReport

ASSUME CoveringHints == QueueHintsCover

----------------------------------------------------------------------------
\* _initial_phase_state: the phases before the first one count as completed.
Before(p) == IF p = "execution" THEN {"design"} ELSE {}

Fresh(p, bootstrap, waived, accepted) ==
    [current_phase |-> p, next_phase |-> MCFirstTransition[p],
     produced_outputs |-> {}, by_phase |-> NoHintOutputs, recorded |-> {},
     completed_phases |-> Before(p), phase_history |-> Before(p) \cup {p},
     action |-> [q \in MCPhase |-> "none"], due |-> NoHintOutputs,
     operator_inbox |-> "clear", status |-> "initialized",
     runtime |-> [status |-> "initialized", iterations |-> 0],
     bootstrap |-> bootstrap, waived |-> waived, accepted |-> accepted]

AgentMissions == {Fresh("execution", "none", w, TRUE) : w \in BOOLEAN}
WaivedMission == {Fresh("execution", "none", TRUE, TRUE)}
QueueMissions ==
    {Fresh("execution", "pending", w, a) : w \in BOOLEAN, a \in BOOLEAN}
      \cup {Fresh("design", "pending", TRUE, TRUE)}

\* The missions of an instance start early.
ASSUME FreshMissions == StartsBeforeReport
=============================================================================
