---------------------------- MODULE MissionLaunch ----------------------------
(***************************************************************************)
(* The commands that start and stop the detached process of a mission      *)
(* (mission_management.py). launch.json records the process last started;  *)
(* start and resume refuse while its pid is alive, and stop signals its    *)
(* process group. Nothing else tells which processes run the mission.      *)
(*                                                                         *)
(* A command is a process of its own: commands may overlap and may die     *)
(* between the start of the process and its record. Pids are reused.       *)
(***************************************************************************)
EXTENDS Naturals, FiniteSets

CONSTANTS
    Client,       \* command lines that may be open at the same time
    Pid,          \* process ids
    NoPid,
    MaxCommands,  \* bound: commands given
    MaxCommandDeaths \* bound: commands that die

ASSUME LaunchAssumption ==
    /\ NoPid \notin Pid
    /\ MaxCommands \in Nat /\ MaxCommandDeaths \in Nat

VARIABLES
    process,   \* per pid: "free", "run" of this mission, or "foreign"
    launched,  \* the pid in launch.json, or NoPid
    at,        \* per client: where its command is
    held,      \* per client: the pid it started or read
    replacing, \* clients started with --replace-running
    alone,     \* history: clients whose command has overlapped with no other
    astray,    \* history: runs whose record may be lost
    commands, commandDeaths

launchVars == <<process, launched, at, held, replacing, alone, astray, commands, commandDeaths>>

LaunchInit ==
    /\ process = [p \in Pid |-> "free"]
    /\ launched = NoPid
    /\ at = [c \in Client |-> "ready"]
    /\ held = [c \in Client |-> NoPid]
    /\ replacing = {} /\ alone = {} /\ astray = {}
    /\ commands = 0 /\ commandDeaths = 0

\* _pid_is_running: any process of that number counts.
IsRunning(p) == p # NoPid /\ process[p] # "free"

Begin(c, place, pid) ==
    /\ at[c] = "ready" /\ commands < MaxCommands
    /\ commands' = commands + 1
    /\ at' = [at EXCEPT ![c] = place]
    /\ held' = [held EXCEPT ![c] = pid]
    /\ alone' = IF \A b \in Client : at[b] = "ready" THEN {c} ELSE {}
    /\ UNCHANGED <<process, launched, astray, commandDeaths>>

Finish(c) ==
    /\ at' = [at EXCEPT ![c] = "ready"]
    /\ held' = [held EXCEPT ![c] = NoPid]
    /\ replacing' = replacing \ {c}
    /\ UNCHANGED <<alone, commands>>

----------------------------------------------------------------------------
(* start and resume: _start_launch. A command that is refused changes      *)
(* nothing and is left out.                                                *)

\* The recorded process is not running, or is to be replaced: it is not stopped.
CheckLaunch(c) ==
    /\ Begin(c, "start", NoPid)
    /\ \/ ~IsRunning(launched) /\ UNCHANGED replacing
       \/ IsRunning(launched) /\ replacing' = replacing \cup {c}

Spawn(c) ==
    /\ at[c] = "start"
    /\ \E p \in Pid :
         /\ process[p] = "free"
         /\ process' = [process EXCEPT ![p] = "run"]
         /\ held' = [held EXCEPT ![c] = p]
         /\ astray' = astray \ {p}
    /\ at' = [at EXCEPT ![c] = "spawned"]
    /\ UNCHANGED <<launched, replacing, alone, commands, commandDeaths>>

\* The record is replaced; a run it named may have lost its record if this command
\* overlapped with another or was to replace it.
Rewrite(c, pid) ==
    /\ launched' = pid
    /\ astray' = IF c \in alone /\ c \notin replacing THEN astray
                 ELSE astray \cup ({launched} \ {NoPid, pid})

RecordLaunch(c) ==
    /\ at[c] = "spawned"
    /\ Rewrite(c, held[c])
    /\ Finish(c)
    /\ UNCHANGED <<process, commandDeaths>>

----------------------------------------------------------------------------
(* stop: _handle_stop.                                                     *)

LoadLaunch(c) ==
    /\ IsRunning(launched)
    /\ Begin(c, "stop", launched)
    /\ UNCHANGED replacing

\* The process may take its time to end, or be another one by now. If the group
\* is gone the command ends without writing.
Signal(c) ==
    /\ at[c] = "stop"
    /\ IF process[held[c]] = "free"
         THEN /\ Finish(c)
              /\ UNCHANGED process
         ELSE /\ \/ process' = [process EXCEPT ![held[c]] = "free"]
                 \/ UNCHANGED process
              /\ at' = [at EXCEPT ![c] = "signalled"]
              /\ UNCHANGED <<held, replacing, alone, commands>>
    /\ UNCHANGED <<launched, astray, commandDeaths>>

\* Mutant: the record of a stopped process is removed.
ForgetLaunch(c) ==
    /\ at[c] = "signalled"
    /\ Rewrite(c, NoPid)
    /\ Finish(c)
    /\ UNCHANGED <<process, commandDeaths>>

\* The metadata read at the beginning is written back with the signal in it.
RecordStop(c) ==
    /\ at[c] = "signalled"
    /\ Rewrite(c, held[c])
    /\ Finish(c)
    /\ UNCHANGED <<process, commandDeaths>>

----------------------------------------------------------------------------
(* The environment.                                                        *)

CommandDies(c) ==
    /\ at[c] # "ready" /\ commandDeaths < MaxCommandDeaths
    /\ commandDeaths' = commandDeaths + 1
    /\ astray' = IF at[c] = "spawned" THEN astray \cup {held[c]} ELSE astray
    /\ Finish(c)
    /\ UNCHANGED <<process, launched>>

\* run_mission ends, or another program's process does.
ProcessEnds(p) ==
    /\ process[p] # "free"
    /\ process' = [process EXCEPT ![p] = "free"]
    /\ UNCHANGED <<launched, at, held, replacing, alone, astray, commands, commandDeaths>>

\* The number goes to a process of another program.
PidReused(p) ==
    /\ process[p] = "free"
    /\ process' = [process EXCEPT ![p] = "foreign"]
    /\ astray' = astray \ {p}
    /\ UNCHANGED <<launched, at, held, replacing, alone, commands, commandDeaths>>

LaunchNext ==
    \/ \E c \in Client :
         \/ CheckLaunch(c) \/ Spawn(c) \/ RecordLaunch(c)
         \/ LoadLaunch(c) \/ Signal(c) \/ RecordStop(c)
         \/ CommandDies(c)
    \/ \E p \in Pid : ProcessEnds(p) \/ PidReused(p)

LaunchSpec == LaunchInit /\ [][LaunchNext]_launchVars
----------------------------------------------------------------------------
(* Properties.                                                             *)

Run == {p \in Pid : process[p] = "run"}

\* Every variable holds a value of its type; only a command that has started a
\* process or read the record holds a pid.
LaunchTypeOK ==
    /\ process \in [Pid -> {"free", "run", "foreign"}]
    /\ launched \in Pid \cup {NoPid}
    /\ at \in [Client -> {"ready", "start", "spawned", "stop", "signalled"}]
    /\ held \in [Client -> Pid \cup {NoPid}]
    /\ replacing \in SUBSET Client /\ alone \in SUBSET Client /\ astray \in SUBSET Pid
    /\ commands \in Nat /\ commandDeaths \in Nat
    /\ \A c \in Client : held[c] # NoPid <=> at[c] \in {"spawned", "stop", "signalled"}

\* Every process that runs the mission is the one launch.json records, so that
\* stop reaches it and no second one is started, unless two commands overlapped,
\* --replace-running was used, or a command died before it recorded its process.
RunsAreRecorded ==
    \A p \in Run :
      \/ p = launched
      \/ p \in astray
      \/ \E c \in Client : at[c] = "spawned" /\ held[c] = p
=============================================================================
