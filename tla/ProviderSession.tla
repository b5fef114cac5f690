--------------------------- MODULE ProviderSession ---------------------------
(***************************************************************************)
(* One iteration's calls of a model provider (provider_launcher.py): the   *)
(* agent loop starts a launcher per attempt, the launcher starts the       *)
(* provider and polls the result file. It ends the provider when the file  *)
(* holds a result, when the provider has exited, or when nothing was       *)
(* written for the idle time; a result that is missing is made up from the *)
(* outputs of the phase, or says that the provider failed.                 *)
(*                                                                         *)
(* The file belongs to the iteration, not to the attempt. A launcher that  *)
(* runs into the time limit of the agent loop is killed, its provider is   *)
(* not.                                                                    *)
(***************************************************************************)
EXTENDS Naturals

CONSTANTS
    ProviderRetries,  \* max_retries of the recursive agent's policy
    MaxWrites         \* bound: writes of the providers of an iteration

ASSUME ProviderAssumption == ProviderRetries \in Nat /\ MaxWrites \in Nat

VARIABLES
    inExecution, \* whether the mission is in phase execution
    file,        \* agent_result.json: what it holds and whose attempt wrote it
    outputs,     \* required outputs in the sandbox: "none", "old", "new" since the prompt
    artifacts,   \* of the phase execution: "none", "runs" completed, "some" or "all" of
                 \* the files; how old they are is not looked at
    provider,    \* of this attempt: "off", "running", exited with 0 "ok" or not "error"
    said,        \* whether it printed a result
    orphaned,    \* attempts whose provider outlived its launcher
    active,      \* whether a watched file was written within the idle time
    lpc,         \* the launcher: "off", the place in its loop, or "judge"
    ended,       \* exit of the last attempt: "ok", "error", "timeout"
    try,         \* number of the attempt
    overtaken,   \* history: the answer in the file came after the launcher's last read
    writes

providerVars == <<inExecution, file, outputs, artifacts, provider, said, orphaned, active,
                  lpc, ended, try, overtaken, writes>>
sandbox == <<inExecution, outputs, artifacts>>
attempts == <<ended, try>>

NoFile == [is |-> "none", of |-> 0]
\* An answer is the provider's; "recovered" and "failure" are the launcher's.
Ready == file.is \in {"answer", "recovered", "failure"}
Writing(what) == file' = [is |-> what, of |-> try]

\* A file of the same iteration before a crash may be there.
ProviderInit ==
    /\ inExecution \in BOOLEAN
    /\ file \in {NoFile} \cup [is : {"answer", "failure"}, of : {0}]
    /\ outputs \in {"none", "old"} /\ artifacts \in {"none", "runs", "some", "all"}
    /\ inExecution => outputs = "none"
    /\ ~inExecution => artifacts = "none"
    /\ provider = "off" /\ said = FALSE /\ orphaned = {}
    /\ active = FALSE /\ overtaken = FALSE
    /\ lpc = "off" /\ ended = "ok" /\ try = 0 /\ writes = 0

\* The launcher starts the provider and enters its loop.
StartAttempt ==
    /\ lpc = "off" /\ try <= ProviderRetries
    /\ try > 0 => ended # "ok"
    /\ try' = try + 1
    /\ provider' = "running" /\ said' = FALSE /\ active' = TRUE
    /\ lpc' = "assemble"
    /\ UNCHANGED <<sandbox, file, orphaned, ended, overtaken, writes>>

----------------------------------------------------------------------------
(* The loop of the launcher.                                               *)

Goto(place) ==
    /\ lpc' = place
    /\ UNCHANGED <<sandbox, file, provider, said, orphaned, active, attempts, overtaken,
                   writes>>

\* Artifacts of the phase execution that are complete, or can be made so from the
\* manifests of completed runs.
Assembled == inExecution /\ artifacts \in {"runs", "all"}

RecoverExecution ==
    /\ Assembled
    /\ artifacts' = "all"
    /\ Writing("recovered")
    /\ active' = TRUE
    /\ UNCHANGED <<inExecution, outputs, provider, said, orphaned, attempts, overtaken, writes>>

\* Each round begins so, whatever the file holds.
Assemble ==
    /\ lpc = "assemble"
    /\ \/ RecoverExecution /\ lpc' = "read"
       \/ ~Assembled /\ Goto("read")

ReadFile == lpc = "read" /\ Goto(IF Ready THEN "end" ELSE "poll")

Poll == lpc = "poll" /\ Goto(IF provider = "running" THEN "reread" ELSE "exited")

Reread == lpc = "reread" /\ Goto(IF Ready THEN "end" ELSE "idle")

\* Mutant: the time is counted from the prompt.
IdleFromPrompt == lpc = "idle" /\ (Goto("giveUp") \/ Goto("assemble"))

Idle == lpc = "idle" /\ Goto(IF active THEN "assemble" ELSE "giveUp")

Recoverable == ~inExecution /\ outputs = "new"

\* The result is made up from the outputs, or is a failure.
MakeUp ==
    /\ Writing(IF Recoverable THEN "recovered" ELSE "failure")
    /\ active' = TRUE
    /\ UNCHANGED <<sandbox, provider, said, orphaned, attempts, overtaken, writes>>

\* The next round finds this result and ends the provider.
GiveUp == lpc = "giveUp" /\ MakeUp /\ lpc' = "assemble"

\* The launcher returns c; the agent loop judges, or tries again.
Return(c) ==
    /\ ended' = c
    /\ lpc' = IF c = "ok" \/ try > ProviderRetries THEN "judge" ELSE "off"
    /\ provider' = "off"
    /\ UNCHANGED <<inExecution, outputs, said, orphaned, try, overtaken, writes>>

\* The provider is terminated, and the exit is 0 whatever the file says.
EndProvider == lpc = "end" /\ Return("ok") /\ UNCHANGED <<file, artifacts, active>>

\* It has exited: the file is read once more, and for a while after an exit with 0.
Exited ==
    /\ lpc = "exited"
    /\ \/ Ready /\ Return("ok") /\ UNCHANGED <<file, artifacts, active>>
       \/ ~Ready /\ Goto(IF provider = "ok" THEN "grace" ELSE "salvage")

Grace ==
    /\ lpc = "grace"
    /\ \/ Ready /\ Return("ok") /\ UNCHANGED <<file, artifacts, active>>
       \/ ~Ready /\ Goto("salvage")

\* What was printed counts as the answer after an exit with 0; otherwise a result
\* is made up and the exit code is the provider's.
Salvage ==
    /\ lpc = "salvage"
    /\ \/ /\ provider = "ok" /\ said
          /\ Writing("answer") /\ Return("ok")
          /\ UNCHANGED <<artifacts, active>>
       \/ /\ ~(provider = "ok" /\ said)
          /\ IF Assembled
               THEN artifacts' = "all" /\ Writing("recovered")
               ELSE UNCHANGED artifacts
                    /\ Writing(IF Recoverable THEN "recovered" ELSE "failure")
          /\ Return(provider)
          /\ UNCHANGED active

----------------------------------------------------------------------------
(* The providers, time, and the agent loop.                                *)

\* A provider that runs, or an orphan, writes to the result file: a result, or
\* what is not one (yet).
ProviderWrites(n) ==
    /\ writes < MaxWrites
    /\ writes' = writes + 1
    /\ \/ n = try /\ provider = "running"
       \/ n \in orphaned
    /\ \E what \in {"partial", "answer"} :
         /\ file' = [is |-> what, of |-> n]
         /\ overtaken' = (what = "answer" /\ lpc \in {"giveUp", "salvage"})
    /\ active' = TRUE
    /\ UNCHANGED <<sandbox, provider, said, orphaned, lpc, attempts>>

\* It brings the outputs of its phase forward.
ProviderWorks ==
    /\ writes < MaxWrites
    /\ writes' = writes + 1
    /\ provider = "running"
    /\ IF inExecution
         THEN artifacts' \in {"runs", "some", "all"} /\ UNCHANGED outputs
         ELSE outputs' = "new" /\ UNCHANGED artifacts
    /\ active' = TRUE
    /\ UNCHANGED <<inExecution, file, provider, said, orphaned, lpc, attempts, overtaken>>

ProviderExits ==
    /\ provider = "running"
    /\ \E c \in {"ok", "error"} : provider' = c
    /\ said' \in BOOLEAN
    /\ UNCHANGED <<sandbox, file, orphaned, active, lpc, attempts, overtaken, writes>>

\* The idle time passes without a write, while the launcher sleeps between two
\* rounds: a round itself takes less.
Quiet ==
    /\ active /\ lpc = "assemble"
    /\ active' = FALSE
    /\ UNCHANGED <<sandbox, file, provider, said, orphaned, lpc, attempts, overtaken, writes>>

\* The agent loop kills the launcher at the time limit of the action.
TimeLimit ==
    /\ lpc \notin {"off", "judge"}
    /\ orphaned' = IF provider = "running" THEN orphaned \cup {try} ELSE orphaned
    /\ provider' = "off"
    /\ ended' = "timeout"
    /\ lpc' = IF try > ProviderRetries THEN "judge" ELSE "off"
    /\ UNCHANGED <<sandbox, file, said, active, try, overtaken, writes>>

LauncherStep ==
    \/ StartAttempt
    \/ Assemble \/ ReadFile \/ Poll \/ Reread \/ Idle \/ GiveUp
    \/ EndProvider \/ Exited \/ Grace \/ Salvage

ProviderNext ==
    \/ LauncherStep
    \/ \E n \in 1..(ProviderRetries + 1) : ProviderWrites(n)
    \/ ProviderWorks \/ ProviderExits
    \/ Quiet \/ TimeLimit

ProviderSpec == ProviderInit /\ [][ProviderNext]_providerVars
ProviderFairSpec == ProviderSpec /\ WF_providerVars(LauncherStep) /\ SF_providerVars(Quiet)
----------------------------------------------------------------------------
(* Properties.                                                             *)

\* Every variable holds a value of its type.
ProviderTypeOK ==
    /\ inExecution \in BOOLEAN
    /\ file \in [is : {"none", "partial", "answer", "recovered", "failure"}, of : Nat]
    /\ outputs \in {"none", "old", "new"} /\ artifacts \in {"none", "runs", "some", "all"}
    /\ provider \in {"off", "running", "ok", "error"} /\ said \in BOOLEAN
    /\ orphaned \in SUBSET Nat /\ active \in BOOLEAN
    /\ lpc \in {"off", "assemble", "read", "poll", "reread", "idle", "giveUp", "end", "exited",
                "grace", "salvage", "judge"}
    /\ ended \in {"ok", "error", "timeout"} /\ try \in Nat
    /\ overtaken \in BOOLEAN /\ writes \in Nat

\* Outside the phase execution the launcher puts nothing in the place of an answer
\* it could have read: only one that arrives after it has decided to give up, or
\* one of an orphan after its own provider has exited, is lost. And what it makes up of
\* outputs rests on outputs newer than the prompt, not on those of an earlier iteration.
MadeUpIsJustified ==
    [][~inExecution /\ file'.is \in {"recovered", "failure"} =>
         /\ file.is = "answer" => overtaken
         /\ file'.is = "recovered" => outputs' = "new"]_providerVars

\* Said in the failure the launcher writes ("so the outer runtime can retry
\* safely"): an attempt is not answered by the failure of an earlier attempt. A file
\* of before a crash is left aside.
RetriesAreServed ==
    lpc = "judge" /\ ended = "ok" /\ file.is = "failure" => file.of \in {0, try}
=============================================================================
