------------------------- MODULE MissionLaunchProofs -------------------------
(***************************************************************************)
(* MissionLaunch for any number of clients, pids, commands and deaths:     *)
(* types, and that every run of the mission is recorded.                   *)
(***************************************************************************)
EXTENDS MissionLaunch, TLAPS

Places == {"ready", "start", "spawned", "stop", "signalled"}

\* A command that has overlapped with no other finds the record as it read it: what
\* it replaces is not a run, or is its own.
UndisturbedCommand(c) ==
    /\ \A b \in Client \ {c} : at[b] = "ready"
    /\ at[c] = "start" /\ c \notin replacing => launched \notin Run
    /\ at[c] = "spawned" /\ c \notin replacing => launched \notin Run \ {held[c]}
    /\ at[c] \in {"stop", "signalled"} => launched = held[c]

LaunchInv ==
    /\ LaunchTypeOK
    /\ RunsAreRecorded
    /\ \A c \in replacing : at[c] \in {"start", "spawned"}
    /\ \A c \in alone : at[c] # "ready" => UndisturbedCommand(c)

LEMMA LaunchInitInv == LaunchInit => LaunchInv
PROOF
<1> SUFFICES ASSUME LaunchInit PROVE LaunchInv
  OBVIOUS
<1>1. LaunchTypeOK
  BY LaunchAssumption DEF LaunchInit, LaunchTypeOK
<1>2. Run = {}
  BY DEF LaunchInit, Run
<1> QED
  BY <1>1, <1>2 DEF LaunchInit, LaunchInv, RunsAreRecorded

\* A client that begins a command: its place and pid change, and it is alone if all
\* the others wait.
LEMMA BeginFacts ==
    ASSUME LaunchInv, NEW c \in Client, NEW place \in Places \ {"ready"},
           NEW pid \in Pid \cup {NoPid}, Begin(c, place, pid)
    PROVE  /\ at[c] = "ready" /\ c \notin replacing
           /\ at' = [at EXCEPT ![c] = place] /\ held' = [held EXCEPT ![c] = pid]
           /\ at' \in [Client -> Places] /\ held' \in [Client -> Pid \cup {NoPid}]
           /\ at'[c] = place /\ held'[c] = pid
           /\ \A b \in Client \ {c} : at'[b] = at[b] /\ held'[b] = held[b]
           /\ alone' \in SUBSET Client /\ commands' \in Nat
           /\ \A b \in alone' : b = c /\ \A d \in Client : at[d] = "ready"
           /\ UNCHANGED <<process, launched, astray, commandDeaths>>
PROOF
  BY DEF LaunchInv, LaunchTypeOK, Begin, Places

\* A client that ends a command: it is ready and holds no pid.
LEMMA FinishFacts ==
    ASSUME LaunchInv, NEW c \in Client, Finish(c)
    PROVE  /\ at' \in [Client -> Places] /\ held' \in [Client -> Pid \cup {NoPid}]
           /\ at'[c] = "ready" /\ held'[c] = NoPid
           /\ \A b \in Client \ {c} : at'[b] = at[b] /\ held'[b] = held[b]
           /\ replacing' = replacing \ {c}
           /\ UNCHANGED <<alone, commands>>
PROOF
  BY DEF LaunchInv, LaunchTypeOK, Finish, Places

LEMMA CheckLaunchInv ==
    ASSUME LaunchInv, NEW c \in Client, CheckLaunch(c)
    PROVE  LaunchInv'
PROOF
<1>1. Begin(c, "start", NoPid)
  BY DEF CheckLaunch
<1>2. "start" \in Places \ {"ready"} /\ NoPid \in Pid \cup {NoPid}
  BY DEF Places
<1> DEFINE Facts ==
       /\ at[c] = "ready" /\ c \notin replacing
       /\ at' \in [Client -> Places] /\ held' \in [Client -> Pid \cup {NoPid}]
       /\ at'[c] = "start" /\ held'[c] = NoPid
       /\ \A b \in Client \ {c} : at'[b] = at[b] /\ held'[b] = held[b]
       /\ alone' \in SUBSET Client /\ commands' \in Nat
       /\ \A b \in alone' : b = c /\ \A d \in Client : at[d] = "ready"
       /\ UNCHANGED <<process, launched, astray, commandDeaths>>
<1>3. Facts
  BY <1>1, <1>2, BeginFacts
<1> HIDE DEF Facts
<1>4. \/ ~IsRunning(launched) /\ replacing' = replacing
      \/ replacing' = replacing \cup {c}
  BY DEF CheckLaunch
<1>5. LaunchTypeOK'
  BY <1>3, <1>4, LaunchAssumption DEF Facts, LaunchInv, LaunchTypeOK, Places
<1>6. RunsAreRecorded'
  BY <1>3 DEF Facts, LaunchInv, RunsAreRecorded, Run
<1>7. \A b \in replacing' : at'[b] \in {"start", "spawned"}
  BY <1>3, <1>4 DEF Facts, LaunchInv, LaunchTypeOK
<1>8. ASSUME NEW b \in alone', at'[b] # "ready" PROVE UndisturbedCommand(b)'
  <2>1. b = c /\ (\A d \in Client \ {c} : at'[d] = "ready")
    BY <1>3, <1>8 DEF Facts
  <2>2. c \notin replacing' => launched \notin Run
    BY <1>3, <1>4, LaunchAssumption DEF Facts, IsRunning, Run
  <2> QED
    BY <2>1, <2>2, <1>3 DEF Facts, UndisturbedCommand, Run
<1> QED
  BY <1>5, <1>6, <1>7, <1>8 DEF LaunchInv

LEMMA SpawnInv ==
    ASSUME LaunchInv, NEW c \in Client, Spawn(c)
    PROVE  LaunchInv'
PROOF
<1>1. PICK p \in Pid : /\ process[p] = "free"
                       /\ process' = [process EXCEPT ![p] = "run"]
                       /\ held' = [held EXCEPT ![c] = p]
                       /\ astray' = astray \ {p}
  BY DEF Spawn
<1>2. /\ at[c] = "start" /\ at' = [at EXCEPT ![c] = "spawned"]
      /\ UNCHANGED <<launched, replacing, alone, commands, commandDeaths>>
  BY DEF Spawn
<1>3. LaunchTypeOK'
  BY <1>1, <1>2, LaunchAssumption DEF LaunchInv, LaunchTypeOK
<1>4. Run' = Run \cup {p} /\ p \notin Run
  BY <1>1 DEF Run, LaunchInv, LaunchTypeOK
<1>5. RunsAreRecorded'
  <2> SUFFICES ASSUME NEW q \in Run'
               PROVE  \/ q = launched' \/ q \in astray'
                      \/ \E b \in Client : at'[b] = "spawned" /\ held'[b] = q
    BY DEF RunsAreRecorded, Run
  <2>1. CASE q = p
    BY <2>1, <1>1, <1>2 DEF LaunchInv, LaunchTypeOK
  <2>2. CASE q # p
    <3>1. q \in Run
      BY <2>2, <1>4
    <3>2. CASE q = launched \/ q \in astray
      BY <3>2, <2>2, <1>1, <1>2
    <3>3. CASE \E b \in Client : at[b] = "spawned" /\ held[b] = q
      BY <3>3, <1>1, <1>2 DEF LaunchInv, LaunchTypeOK
    <3> QED
      BY <3>1, <3>2, <3>3 DEF LaunchInv, RunsAreRecorded, Run
  <2> QED
    BY <2>1, <2>2
<1>6. \A b \in replacing' : at'[b] \in {"start", "spawned"}
  BY <1>2 DEF LaunchInv, LaunchTypeOK
<1>7. ASSUME NEW b \in alone', at'[b] # "ready" PROVE UndisturbedCommand(b)'
  <2>1. b \in alone /\ b \in Client
    BY <1>2, <1>7 DEF LaunchInv, LaunchTypeOK
  <2>2. at[b] # "ready"
    BY <1>2, <1>7, <2>1 DEF LaunchInv, LaunchTypeOK
  <2>3. UndisturbedCommand(b)
    BY <2>1, <2>2 DEF LaunchInv
  <2>4. b = c
    BY <2>3, <1>2, <2>1 DEF UndisturbedCommand
  <2>5. c \notin replacing => launched \notin Run
    BY <2>3, <2>4, <1>2 DEF UndisturbedCommand
  <2>6. at'[c] = "spawned" /\ held'[c] = p /\ \A d \in Client \ {c} : at'[d] = at[d]
    BY <1>1, <1>2 DEF LaunchInv, LaunchTypeOK
  <2> QED
    BY <2>3, <2>4, <2>5, <2>6, <1>2, <1>4 DEF UndisturbedCommand
<1> QED
  BY <1>3, <1>5, <1>6, <1>7 DEF LaunchInv

\* A command that writes the record and ends loses track of no run it found there.
LEMMA RewriteInv ==
    ASSUME LaunchInv, NEW c \in Client, at[c] \in {"spawned", "signalled"},
           Rewrite(c, held[c]), Finish(c), UNCHANGED <<process, commandDeaths>>
    PROVE  LaunchInv'
PROOF
<1> DEFINE Facts ==
       /\ at' \in [Client -> Places] /\ held' \in [Client -> Pid \cup {NoPid}]
       /\ at'[c] = "ready" /\ held'[c] = NoPid
       /\ \A b \in Client \ {c} : at'[b] = at[b] /\ held'[b] = held[b]
       /\ replacing' = replacing \ {c}
       /\ UNCHANGED <<alone, commands>>
<1>1. Facts
  BY FinishFacts
<1> HIDE DEF Facts
<1>2. held[c] \in Pid /\ launched' = held[c]
  BY DEF LaunchInv, LaunchTypeOK, Rewrite
<1>3. astray' \in SUBSET Pid /\ astray \subseteq astray'
  BY DEF Rewrite, LaunchInv, LaunchTypeOK
<1>4. Run' = Run /\ Run \subseteq Pid
  BY DEF Run
<1>5. LaunchTypeOK'
  BY <1>1, <1>2, <1>3 DEF Facts, LaunchInv, LaunchTypeOK, Places
<1>6. ASSUME launched \in Run, launched # held[c] PROVE launched \in astray'
  <2>1. CASE c \in alone /\ c \notin replacing
    <3>1. UndisturbedCommand(c)
      BY <2>1 DEF LaunchInv
    <3> QED
      BY <3>1, <2>1, <1>6 DEF UndisturbedCommand
  <2>2. CASE ~(c \in alone /\ c \notin replacing)
    BY <2>2, <1>4, <1>6, LaunchAssumption DEF Rewrite
  <2> QED
    BY <2>1, <2>2
<1>7. RunsAreRecorded'
  <2> SUFFICES ASSUME NEW q \in Run
               PROVE  \/ q = launched' \/ q \in astray'
                      \/ \E b \in Client : at'[b] = "spawned" /\ held'[b] = q
    BY <1>4 DEF RunsAreRecorded, Run
  <2>1. CASE q = launched \/ q \in astray
    BY <2>1, <1>2, <1>3, <1>6
  <2>2. CASE \E b \in Client : at[b] = "spawned" /\ held[b] = q
    <3>1. PICK b \in Client : at[b] = "spawned" /\ held[b] = q
      BY <2>2
    <3>2. CASE b = c
      BY <3>1, <3>2, <1>2
    <3>3. CASE b # c
      BY <3>1, <3>3, <1>1 DEF Facts
    <3> QED
      BY <3>2, <3>3
  <2> QED
    BY <2>1, <2>2 DEF LaunchInv, RunsAreRecorded, Run
<1>8. \A b \in replacing' : at'[b] \in {"start", "spawned"}
  BY <1>1 DEF Facts, LaunchInv, LaunchTypeOK
<1>9. ASSUME NEW b \in alone', at'[b] # "ready" PROVE UndisturbedCommand(b)'
  <2>1. b \in Client /\ b \in alone /\ b # c /\ at[b] # "ready"
    BY <1>1, <1>9 DEF Facts, LaunchInv, LaunchTypeOK
  <2>2. UndisturbedCommand(b)
    BY <2>1 DEF LaunchInv
  <2> QED
    BY <2>1, <2>2 DEF UndisturbedCommand
<1> QED
  BY <1>5, <1>7, <1>8, <1>9 DEF LaunchInv

LEMMA LoadLaunchInv ==
    ASSUME LaunchInv, NEW c \in Client, LoadLaunch(c)
    PROVE  LaunchInv'
PROOF
<1>1. launched \in Pid /\ Begin(c, "stop", launched) /\ replacing' = replacing
  BY DEF LoadLaunch, IsRunning, LaunchInv, LaunchTypeOK
<1>2. "stop" \in Places \ {"ready"} /\ launched \in Pid \cup {NoPid}
  BY <1>1 DEF Places
<1> DEFINE Facts ==
       /\ at[c] = "ready" /\ c \notin replacing
       /\ at' \in [Client -> Places] /\ held' \in [Client -> Pid \cup {NoPid}]
       /\ at'[c] = "stop" /\ held'[c] = launched
       /\ \A b \in Client \ {c} : at'[b] = at[b] /\ held'[b] = held[b]
       /\ alone' \in SUBSET Client /\ commands' \in Nat
       /\ \A b \in alone' : b = c /\ \A d \in Client : at[d] = "ready"
       /\ UNCHANGED <<process, launched, astray, commandDeaths>>
<1>3. Facts
  BY <1>1, <1>2, BeginFacts
<1> HIDE DEF Facts
<1>4. LaunchTypeOK'
  BY <1>1, <1>3, LaunchAssumption DEF Facts, LaunchInv, LaunchTypeOK, Places
<1>5. RunsAreRecorded'
  BY <1>3 DEF Facts, LaunchInv, RunsAreRecorded, Run
<1>6. \A b \in replacing' : at'[b] \in {"start", "spawned"}
  BY <1>1, <1>3 DEF Facts, LaunchInv, LaunchTypeOK
<1>7. ASSUME NEW b \in alone', at'[b] # "ready" PROVE UndisturbedCommand(b)'
  BY <1>3, <1>7 DEF Facts, UndisturbedCommand
<1> QED
  BY <1>4, <1>5, <1>6, <1>7 DEF LaunchInv

LEMMA SignalInv ==
    ASSUME LaunchInv, NEW c \in Client, Signal(c)
    PROVE  LaunchInv'
PROOF
<1>1. at[c] = "stop" /\ held[c] \in Pid /\ UNCHANGED <<launched, astray, commandDeaths>>
  BY DEF Signal, LaunchInv, LaunchTypeOK
<1>2. CASE process[held[c]] = "free"
  <2> DEFINE Facts ==
         /\ at' \in [Client -> Places] /\ held' \in [Client -> Pid \cup {NoPid}]
         /\ at'[c] = "ready" /\ held'[c] = NoPid
         /\ \A b \in Client \ {c} : at'[b] = at[b] /\ held'[b] = held[b]
         /\ replacing' = replacing \ {c}
         /\ UNCHANGED <<alone, commands>>
  <2>1. Facts /\ process' = process
    BY <1>2, FinishFacts DEF Signal
  <2> HIDE DEF Facts
  <2>2. LaunchTypeOK'
    BY <1>1, <2>1, LaunchAssumption DEF Facts, LaunchInv, LaunchTypeOK, Places
  <2>3. RunsAreRecorded'
    BY <1>1, <2>1 DEF Facts, LaunchInv, RunsAreRecorded, Run
  <2>4. \A b \in replacing' : at'[b] \in {"start", "spawned"}
    BY <2>1 DEF Facts, LaunchInv, LaunchTypeOK
  <2>5. ASSUME NEW b \in alone', at'[b] # "ready" PROVE UndisturbedCommand(b)'
    BY <1>1, <2>1, <2>5 DEF Facts, LaunchInv, LaunchTypeOK, UndisturbedCommand
  <2> QED
    BY <2>2, <2>3, <2>4, <2>5 DEF LaunchInv
<1>3. CASE process[held[c]] # "free"
  <2>1. /\ process' \in [Pid -> {"run", "free", "foreign"}]
        /\ \A p \in Pid : process'[p] = "run" => process[p] = "run"
        /\ at' = [at EXCEPT ![c] = "signalled"]
        /\ UNCHANGED <<held, replacing, alone, commands>>
    BY <1>1, <1>3 DEF Signal, LaunchInv, LaunchTypeOK
  <2>2. Run' \subseteq Run
    BY <2>1 DEF Run
  <2>3. LaunchTypeOK'
    BY <1>1, <2>1 DEF LaunchInv, LaunchTypeOK
  <2>4. RunsAreRecorded'
    BY <1>1, <2>1, <2>2 DEF LaunchInv, LaunchTypeOK, RunsAreRecorded, Run
  <2>5. \A b \in replacing' : at'[b] \in {"start", "spawned"}
    BY <1>1, <2>1 DEF LaunchInv, LaunchTypeOK
  <2>6. ASSUME NEW b \in alone', at'[b] # "ready" PROVE UndisturbedCommand(b)'
    <3>1. b \in Client /\ b \in alone /\ at[b] # "ready"
      BY <1>1, <2>1, <2>6 DEF LaunchInv, LaunchTypeOK
    <3>2. UndisturbedCommand(b)
      BY <3>1 DEF LaunchInv
    <3>3. b = c
      BY <3>1, <3>2, <1>1 DEF UndisturbedCommand
    <3> QED
      BY <3>2, <3>3, <1>1, <2>1 DEF UndisturbedCommand, LaunchInv, LaunchTypeOK
  <2> QED
    BY <2>3, <2>4, <2>5, <2>6 DEF LaunchInv
<1> QED
  BY <1>2, <1>3

LEMMA CommandDiesInv ==
    ASSUME LaunchInv, NEW c \in Client, CommandDies(c)
    PROVE  LaunchInv'
PROOF
<1> DEFINE Facts ==
       /\ at' \in [Client -> Places] /\ held' \in [Client -> Pid \cup {NoPid}]
       /\ at'[c] = "ready" /\ held'[c] = NoPid
       /\ \A b \in Client \ {c} : at'[b] = at[b] /\ held'[b] = held[b]
       /\ replacing' = replacing \ {c}
       /\ UNCHANGED <<alone, commands>>
<1>1. Facts
  BY FinishFacts DEF CommandDies
<1> HIDE DEF Facts
<1>2. /\ astray' \in SUBSET Pid /\ astray \subseteq astray'
      /\ at[c] = "spawned" => held[c] \in astray'
      /\ commandDeaths' \in Nat
      /\ UNCHANGED <<process, launched>>
  BY DEF CommandDies, LaunchInv, LaunchTypeOK
<1>3. LaunchTypeOK'
  BY <1>1, <1>2, LaunchAssumption DEF Facts, LaunchInv, LaunchTypeOK, Places
<1>4. RunsAreRecorded'
  <2> SUFFICES ASSUME NEW q \in Run
               PROVE  \/ q = launched \/ q \in astray'
                      \/ \E b \in Client : at'[b] = "spawned" /\ held'[b] = q
    BY <1>2 DEF RunsAreRecorded, Run
  <2>1. CASE \E b \in Client : at[b] = "spawned" /\ held[b] = q
    BY <2>1, <1>1, <1>2 DEF Facts
  <2>2. CASE q = launched \/ q \in astray
    BY <2>2, <1>2
  <2> QED
    BY <2>1, <2>2 DEF LaunchInv, RunsAreRecorded, Run
<1>5. \A b \in replacing' : at'[b] \in {"start", "spawned"}
  BY <1>1 DEF Facts, LaunchInv, LaunchTypeOK
<1>6. ASSUME NEW b \in alone', at'[b] # "ready" PROVE UndisturbedCommand(b)'
  BY <1>1, <1>2, <1>6 DEF Facts, LaunchInv, LaunchTypeOK, UndisturbedCommand, Run
<1> QED
  BY <1>3, <1>4, <1>5, <1>6 DEF LaunchInv

\* A process that ends, or whose number goes to another program, is no run.
LEMMA ProcessInv ==
    ASSUME LaunchInv, NEW p \in Pid, ProcessEnds(p) \/ PidReused(p)
    PROVE  LaunchInv'
PROOF
<1>1. /\ process' \in [Pid -> {"free", "run", "foreign"}]
      /\ \A q \in Pid : process'[q] = "run" => process[q] = "run"
      /\ astray' \in SUBSET Pid
      /\ process'[p] # "run" /\ astray \ {p} \subseteq astray'
      /\ UNCHANGED <<launched, at, held, replacing, alone, commands, commandDeaths>>
  BY DEF ProcessEnds, PidReused, LaunchInv, LaunchTypeOK
<1>2. Run' \subseteq Run /\ p \notin Run'
  BY <1>1 DEF Run
<1>3. LaunchTypeOK'
  BY <1>1 DEF LaunchInv, LaunchTypeOK
<1>4. RunsAreRecorded'
  BY <1>1, <1>2 DEF LaunchInv, RunsAreRecorded, Run
<1>5. \A b \in alone' : at'[b] # "ready" => UndisturbedCommand(b)'
  BY <1>1, <1>2 DEF LaunchInv, UndisturbedCommand
<1> QED
  BY <1>1, <1>3, <1>4, <1>5 DEF LaunchInv

LEMMA LaunchStepInv == LaunchInv /\ [LaunchNext]_launchVars => LaunchInv'
PROOF
<1> SUFFICES ASSUME LaunchInv, [LaunchNext]_launchVars PROVE LaunchInv'
  OBVIOUS
<1>1. CASE UNCHANGED launchVars
  BY <1>1 DEF launchVars, LaunchInv, LaunchTypeOK, RunsAreRecorded, UndisturbedCommand, Run
<1>2. ASSUME NEW c \in Client, CheckLaunch(c) \/ Spawn(c) \/ LoadLaunch(c) \/ Signal(c) \/ CommandDies(c)
      PROVE  LaunchInv'
  BY <1>2, CheckLaunchInv, SpawnInv, LoadLaunchInv, SignalInv, CommandDiesInv
<1>3. ASSUME NEW c \in Client, RecordLaunch(c) \/ RecordStop(c) PROVE LaunchInv'
  BY <1>3, RewriteInv DEF RecordLaunch, RecordStop
<1>4. ASSUME NEW p \in Pid, ProcessEnds(p) \/ PidReused(p) PROVE LaunchInv'
  BY <1>4, ProcessInv
<1> QED
  BY <1>1, <1>2, <1>3, <1>4 DEF LaunchNext

LEMMA LaunchInvariance == LaunchSpec => []LaunchInv
PROOF
  BY LaunchInitInv, LaunchStepInv, PTL DEF LaunchSpec

\* Every variable keeps its type, and only a command that has started a process or
\* read the record holds a pid.
THEOREM LaunchTypes == LaunchSpec => []LaunchTypeOK
PROOF
<1>1. LaunchInv => LaunchTypeOK
  BY DEF LaunchInv
<1> QED
  BY <1>1, LaunchInvariance, PTL

\* For any number of clients, processes and deaths: a process that runs the mission
\* is recorded in launch.json, unless two commands overlapped, --replace-running was
\* used, or a command died between the start of its process and the record.
THEOREM RunsStayRecorded == LaunchSpec => []RunsAreRecorded
PROOF
<1>1. LaunchInv => RunsAreRecorded
  BY DEF LaunchInv
<1> QED
  BY <1>1, LaunchInvariance, PTL
=============================================================================
