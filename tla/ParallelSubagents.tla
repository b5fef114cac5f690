------------------------- MODULE ParallelSubagents -------------------------
(***************************************************************************)
(* run_parallel_subagents (recursive_agent_runtime.py): a pool of threads  *)
(* runs a list of tasks, each as a process with a sandbox and a result     *)
(* file, and reports them together.                                        *)
(*                                                                         *)
(* The sandbox is the mission's and the role's, so tasks of one role empty *)
(* it for each other; the result file is the place's in the list, so a     *)
(* later call finds the files of an earlier one. A command that cannot be  *)
(* started raises through its thread.                                      *)
(***************************************************************************)
EXTENDS Naturals, Sequences, FiniteSets

CONSTANTS
    Tasks,        \* number of tasks in the list
    RoleOf,       \* the role of each of them
    MaxParallel,  \* max_parallel
    MaxCalls      \* bound: calls with the same runtime root

SubTask == 1..Tasks
SubRoles == {RoleOf[t] : t \in SubTask}

ASSUME SubagentsAssumption ==
    /\ Tasks \in Nat \ {0} /\ MaxParallel \in Nat \ {0} /\ MaxCalls \in Nat
    /\ DOMAIN RoleOf = SubTask

VARIABLES
    calls,     \* calls so far; one at a time
    at,        \* each task: "idle", "queued", its place in its thread, "raised", "done"
    shared,    \* for each role: the tasks whose outputs are in its sandbox
    wrote,     \* history: the tasks of this call that wrote outputs
    resultOf,  \* agent_result.json of each place: "none", "valid", "broken"
    exit,      \* of the process of a task that is read: "zero", "nonzero", "timeout"
    aggregated,\* the entries of this call
    report     \* entries of the report file

subVars == <<calls, at, shared, wrote, resultOf, exit, aggregated, report>>

\* Result files of an earlier call may be there.
SubInit ==
    /\ calls = 0
    /\ at = [t \in SubTask |-> "idle"]
    /\ shared = [r \in SubRoles |-> {}] /\ wrote = {}
    /\ \E v \in {"none", "valid"} : resultOf = [t \in SubTask |-> v]
    /\ exit = [t \in SubTask |-> "zero"]
    /\ aggregated = <<>> /\ report = <<>>

InPool == {t \in SubTask : at[t] \in {"preparing", "running", "reading"}}
Idling == \A t \in SubTask : at[t] = "idle"
Moves(t, place) == at' = [at EXCEPT ![t] = place]

SubCall ==
    /\ Idling /\ calls < MaxCalls
    /\ calls' = calls + 1
    /\ at' = [t \in SubTask |-> "queued"]
    /\ wrote' = {} /\ aggregated' = <<>>
    /\ UNCHANGED <<shared, resultOf, exit, report>>

\* A free thread takes the first task that waits.
SubTake(t) ==
    /\ at[t] = "queued" /\ \A u \in SubTask : at[u] = "queued" => t <= u
    /\ Cardinality(InPool) < MaxParallel
    /\ Moves(t, "preparing")
    /\ UNCHANGED <<calls, shared, wrote, resultOf, exit, aggregated, report>>

\* Mutant: one sandbox for the mission.
EmptiedAll(t) == [r \in SubRoles |-> {}]

\* build_sandbox_spec with reset: the outputs of the role are removed.
Emptied(t) == [shared EXCEPT ![RoleOf[t]] = {}]

\* The process starts, or the start raises; the sandbox is emptied before.
SubStart(t) ==
    /\ at[t] = "preparing"
    /\ shared' = Emptied(t)
    /\ Moves(t, "running") \/ Moves(t, "raised")
    /\ UNCHANGED <<calls, wrote, resultOf, exit, aggregated, report>>

\* The process writes outputs to its role's sandbox, or its result file.
SubWorks(t) ==
    /\ at[t] = "running"
    /\ \/ /\ shared' = [shared EXCEPT ![RoleOf[t]] = @ \cup {t}]
          /\ wrote' = wrote \cup {t}
          /\ UNCHANGED resultOf
       \/ /\ \E v \in {"valid", "broken"} : resultOf' = [resultOf EXCEPT ![t] = v]
          /\ UNCHANGED <<shared, wrote>>
    /\ UNCHANGED <<calls, at, exit, aggregated, report>>

\* It exits, or is killed at the time limit.
SubExits(t) ==
    /\ at[t] = "running"
    /\ \E c \in {"zero", "nonzero", "timeout"} : exit' = [exit EXCEPT ![t] = c]
    /\ Moves(t, "reading")
    /\ UNCHANGED <<calls, shared, wrote, resultOf, aggregated, report>>

\* A result file decides, whoever wrote it; without one the exit does.
SubStatus(t) ==
    CASE resultOf[t] = "valid"  -> "completed"
      [] resultOf[t] = "broken" -> "failed"
      [] OTHER -> [zero |-> "completed", nonzero |-> "failed", timeout |-> "timeout"][exit[t]]

Reports(t, status) == aggregated' = Append(aggregated, [task |-> t, status |-> status])

SubRead(t) ==
    /\ at[t] = "reading"
    /\ Reports(t, SubStatus(t))
    /\ Moves(t, "done")
    /\ exit' = [exit EXCEPT ![t] = "zero"]
    /\ UNCHANGED <<calls, shared, wrote, resultOf, report>>

\* The caller collects an exception from the thread's future.
SubCollect(t) ==
    /\ at[t] = "raised"
    /\ Reports(t, "failed")
    /\ Moves(t, "done")
    /\ UNCHANGED <<calls, shared, wrote, resultOf, exit, report>>

\* The entries by their task_index: the i-th has i - 1 before it. (A definition of
\* its own because the prover does not know TLC's SortSeq.)
InOrder(entries) ==
    LET Before(e) == {f \in DOMAIN entries : entries[f].task < entries[e].task}
    IN  [i \in DOMAIN entries |->
           entries[CHOOSE e \in DOMAIN entries : Cardinality(Before(e)) = i - 1]]

SubReport ==
    /\ \A t \in SubTask : at[t] = "done"
    /\ report' = InOrder(aggregated)
    /\ at' = [t \in SubTask |-> "idle"]
    /\ UNCHANGED <<calls, shared, wrote, resultOf, exit, aggregated>>

\* The threads and processes; a process ends by the time limit at the latest.
SubStep ==
    \/ \E t \in SubTask :
         SubTake(t) \/ SubStart(t) \/ SubExits(t) \/ SubRead(t) \/ SubCollect(t)
    \/ SubReport

SubNext == SubCall \/ SubStep \/ \E t \in SubTask : SubWorks(t)

SubSpec == SubInit /\ [][SubNext]_subVars
SubFairSpec == SubSpec /\ WF_subVars(SubStep)
----------------------------------------------------------------------------
(* Properties.                                                             *)

\* Every variable holds a value of its type.
SubTypeOK ==
    /\ calls \in 0..MaxCalls
    /\ at \in [SubTask ->
         {"idle", "queued", "preparing", "running", "reading", "raised", "done"}]
    /\ shared \in [SubRoles -> SUBSET SubTask] /\ wrote \subseteq SubTask
    /\ resultOf \in [SubTask -> {"none", "valid", "broken"}]
    /\ exit \in [SubTask -> {"zero", "nonzero", "timeout"}]
    /\ aggregated \in Seq([task : SubTask, status : {"completed", "failed", "timeout"}])
    /\ report \in Seq([task : SubTask, status : {"completed", "failed", "timeout"}])

Solo(t) == \A u \in SubTask \ {t} : RoleOf[u] # RoleOf[t]

\* When a call has returned, its report tells of every task once and in order,
\* raised ones included; and what a task alone in its role wrote is still in the
\* sandbox, whatever ran beside it.
ReportIsWhole ==
    calls > 0 /\ Idling =>
        /\ [i \in DOMAIN report |-> report[i].task] = [t \in SubTask |-> t]
        /\ \A t \in wrote : Solo(t) => t \in shared[RoleOf[t]]
=============================================================================
