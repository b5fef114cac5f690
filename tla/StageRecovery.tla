----------------------------- MODULE StageRecovery -----------------------------
(***************************************************************************)
(* What run_stage_with_recovery does about a failed attempt, shared by the *)
(* stages (StageRun, PromptSweep).                                         *)
(***************************************************************************)
EXTENDS Naturals

CONSTANT MaxAttempts    \* recovery-policy.yaml: max_attempts

ASSUME RecoveryAssumption == MaxAttempts \in Nat

(* recovery-policy.yaml: what a classified failure leads to *)
RecoveryAction(e) == IF e \in {"unsupported-backend", "dependency-missing"} THEN "fallback-backend"
                     ELSE IF e = "missing-artifact" THEN "reroute-prerequisite" ELSE "stop"

\* Mutant: the attempts are not counted.
AfterFailureUncounted(attempt, e) ==
    IF e = "config-error" THEN "escapes"
    ELSE IF RecoveryAction(e) # "fallback-backend" THEN "failed" ELSE "again"

(* The handler of a failed attempt.  KeyError and TypeError are not among  *)
(* the exceptions it catches: they leave run_stage_with_recovery without a *)
(* report.                                                                 *)
AfterFailure(attempt, e) ==
    IF e = "config-error" THEN "escapes"
    ELSE IF attempt > MaxAttempts \/ RecoveryAction(e) # "fallback-backend" THEN "failed"
    ELSE "again"

===============================================================================
