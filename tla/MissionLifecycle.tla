-------------------------- MODULE MissionLifecycle ---------------------------
(***************************************************************************)
(* What run_mission promises a reader of its two files, whatever dies:     *)
(* mission_state.json says how the mission stands and keeps a copy of the  *)
(* runtime state; the runtime file is brought up to that copy afterwards.  *)
(* Each save counts at most one iteration more than the runtime file, a    *)
(* mission is completed on grounds only, and completed it stays.           *)
(***************************************************************************)
EXTENDS Naturals

VARIABLES
    status,     \* the mission's status
    grounds,    \* is the completion contract met by what the file records?
    saved,      \* the runtime state the mission file was written with
    committed   \* the runtime file

lifecycle == <<status, grounds, saved, committed>>

Fresh == [status |-> "initialized", iterations |-> 0]

\* A mission status and the status of the pass it goes with.
Agree(m, s) ==
    /\ \A x \in {"completed", "blocked", "failed"} : s = x <=> m = x
    /\ s = "max-iterations" <=> m = "paused"

Init ==
    /\ status # "completed"
    /\ grounds \in BOOLEAN
    /\ saved = Fresh
    /\ committed = Fresh

Save(s, counted) ==
    /\ saved' = [status |-> s, iterations |-> committed.iterations + counted]
    /\ UNCHANGED committed

\* Work is about to start; how the mission stands is not said anew.
Dispatch ==
    /\ status # "completed"
    /\ Save("running", 0)
    /\ UNCHANGED status
    /\ grounds' \in BOOLEAN

\* An iteration ends: it is counted and both statuses say how it ended.
Iterate ==
    /\ status # "completed"
    /\ \E s \in {"running", "completed", "blocked", "failed", "max-iterations"} :
         Save(s, 1) /\ Agree(status', s)
    /\ grounds' \in BOOLEAN
    /\ status' = "completed" => grounds'

\* A limit or a stop condition ends the pass.
Pause ==
    /\ status # "completed"
    /\ Save("max-iterations", 0)
    /\ status' = "paused"
    /\ grounds' \in BOOLEAN

\* A pass that finds the mission completed says so again.
Confirm ==
    /\ status = "completed"
    /\ Save("completed", 0)
    /\ UNCHANGED <<status, grounds>>

Commit ==
    /\ saved.iterations \in {committed.iterations, committed.iterations + 1}
    /\ committed' = saved
    /\ UNCHANGED <<status, grounds, saved>>

\* An agent, the outer loop before the planner, or the operator writes the file: what is
\* recorded changes, and an agent may call the status what it likes, short of completed;
\* the copy of the runtime state and the count stay.
Work ==
    /\ status # "completed" /\ status' # "completed"
    /\ grounds' \in BOOLEAN
    /\ UNCHANGED <<saved, committed>>

Next == Dispatch \/ Iterate \/ Pause \/ Confirm \/ Commit \/ Work

Spec == Init /\ [][Next]_lifecycle
=============================================================================
