------------------------------ MODULE StateFile ------------------------------
(***************************************************************************)
(* Processes that write one mission_state.json (mission_state.py and       *)
(* structured_io.write_text).                                              *)
(*                                                                         *)
(* write_mission_state opens the file to lock it, waits for the lock up to *)
(* a time limit, writes a temporary file, renames it over the path and     *)
(* rewrites mission_summary.md. The lock is a POSIX record lock: it        *)
(* belongs to an inode and a process, and is gone as soon as the process   *)
(* closes the file. _acquire_state_lock returns the descriptor number of a *)
(* local file object, which is closed when the function returns.           *)
(***************************************************************************)
EXTENDS Naturals, FiniteSets

CONSTANTS
    Writer,     \* processes: outer loop, agent, scheduler, queue
    MaxEdits,   \* bound: writes asked for by one process
    MaxCrashes, \* bound: processes that die
    Turns       \* whether callers take turns, as the outer loop and its executor do

ASSUME FileAssumption ==
    /\ MaxEdits \in Nat /\ MaxCrashes \in Nat
    /\ Turns \in BOOLEAN

VARIABLES
    inode,      \* inode of the path, 0 when there is no file
    inodes,     \* inodes allocated so far
    valid,      \* whether the file holds a mission state (it may be empty)
    content,    \* the edits in it
    summary,    \* the edits mission_summary.md shows
    hasSummary, \* whether that file exists
    lock,       \* per writer: the inode it holds the lock of, or 0
    handle,     \* per writer: the inode it opened to lock
    payload,    \* per writer: the state to be written
    creating,   \* writers that initialise the mission
    edits,      \* per writer: edits made
    pc,
    crashes

file == <<inode, inodes, valid, content>>
shown == <<summary, hasSummary>>
vars == <<inode, inodes, valid, content, summary, hasSummary, lock, handle,
          payload, creating, edits, pc, crashes>>

Edit == Writer \X (1..MaxEdits)
Places == {"idle", "ready", "acquire", "acquired", "replace", "summary", "release", "first"}

\* Between _acquire_state_lock and _release_state_lock.
Critical == {"replace", "summary", "release"}

Init ==
    /\ inode = 0 /\ inodes = 0
    /\ valid = FALSE
    /\ content = {}
    /\ summary = {} /\ hasSummary = FALSE
    /\ lock = [w \in Writer |-> 0]
    /\ handle = [w \in Writer |-> 0]
    /\ payload = [w \in Writer |-> {}]
    /\ creating = {}
    /\ edits = [w \in Writer |-> 0]
    /\ pc = [w \in Writer |-> "idle"]
    /\ crashes = 0

Goto(w, place) == pc' = [pc EXCEPT ![w] = place]

----------------------------------------------------------------------------
(* Callers.                                                                *)

MayBegin(w) ==
    /\ pc[w] = "idle"
    /\ edits[w] < MaxEdits
    /\ Turns => \A v \in Writer : pc[v] = "idle"

\* Mutant: the caller edits the state it loaded for its last write.
PrepareStale(w, from) ==
    /\ MayBegin(w)
    /\ edits' = [edits EXCEPT ![w] = @ + 1]
    /\ payload' = [payload EXCEPT ![w] = @ \cup {<<w, edits'[w]>>}]
    /\ Goto(w, "ready")
    /\ UNCHANGED <<file, shown, lock, handle, crashes>>

Prepare(w, from) ==
    /\ MayBegin(w)
    /\ edits' = [edits EXCEPT ![w] = @ + 1]
    /\ payload' = [payload EXCEPT ![w] = from \cup {<<w, edits'[w]>>}]
    /\ Goto(w, "ready")
    /\ UNCHANGED <<file, shown, lock, handle, crashes>>

\* load_mission_state and a change to what it returned. A file that is missing
\* or empty makes the load raise before anything is written.
LoadAndEdit(w) ==
    /\ valid
    /\ Prepare(w, content)
    /\ UNCHANGED creating

\* initialize_mission without --force: it assembles a new state and does not look
\* for an old one.
Initialise(w) ==
    /\ Prepare(w, {})
    /\ creating' = creating \cup {w}

----------------------------------------------------------------------------
(* write_mission_state.                                                    *)

\* Mutant: the file is opened for writing, which empties it.
OpenTruncating(w) ==
    /\ pc[w] = "ready"
    /\ inodes' = IF inode = 0 THEN inodes + 1 ELSE inodes
    /\ inode' = IF inode = 0 THEN inodes' ELSE inode
    /\ valid' = FALSE
    /\ content' = {}
    /\ handle' = [handle EXCEPT ![w] = inode']
    /\ Goto(w, "acquire")
    /\ UNCHANGED <<shown, lock, payload, creating, edits, crashes>>

\* path.open("a"): a missing file is created, empty.
Open(w) ==
    /\ pc[w] = "ready"
    /\ inodes' = IF inode = 0 THEN inodes + 1 ELSE inodes
    /\ inode' = IF inode = 0 THEN inodes' ELSE inode
    /\ handle' = [handle EXCEPT ![w] = inode']
    /\ Goto(w, "acquire")
    /\ UNCHANGED <<valid, content, shown, lock, payload, creating, edits, crashes>>

HeldByOther(w) == \E v \in Writer \ {w} : lock[v] = handle[w]

\* Mutant: the lock counts only while the path still names the opened file.
LockCurrent(w) ==
    /\ pc[w] = "acquire"
    /\ ~HeldByOther(w)
    /\ handle[w] = inode
    /\ lock' = [lock EXCEPT ![w] = handle[w]]
    /\ Goto(w, "acquired")
    /\ UNCHANGED <<file, shown, handle, payload, creating, edits, crashes>>

Lock(w) ==
    /\ pc[w] = "acquire"
    /\ ~HeldByOther(w)
    /\ lock' = [lock EXCEPT ![w] = handle[w]]
    /\ Goto(w, "acquired")
    /\ UNCHANGED <<file, shown, handle, payload, creating, edits, crashes>>

\* The time limit passes while another process holds the lock: the write is
\* skipped, and the caller is not told. An orchestrator goes on to the summary.
GiveUp(w) ==
    /\ pc[w] = "acquire"
    /\ HeldByOther(w)
    /\ Goto(w, IF w \in creating THEN "first" ELSE "idle")
    /\ UNCHANGED <<file, shown, lock, handle, payload, creating, edits, crashes>>

\* _acquire_state_lock returns a number; its file object is closed.
ReturnDescriptor(w) ==
    /\ pc[w] = "acquired"
    /\ lock' = [lock EXCEPT ![w] = 0]
    /\ Goto(w, "replace")
    /\ UNCHANGED <<file, shown, handle, payload, creating, edits, crashes>>

\* The temporary file is renamed over the path.
Replace(w) ==
    /\ pc[w] = "replace"
    /\ inodes' = inodes + 1
    /\ inode' = inodes'
    /\ valid' = TRUE
    /\ content' = payload[w]
    /\ Goto(w, "summary")
    /\ UNCHANGED <<shown, lock, handle, payload, creating, edits, crashes>>

\* The summary is rewritten if there is one.
SyncSummary(w) ==
    /\ pc[w] = "summary"
    /\ summary' = IF hasSummary THEN payload[w] ELSE summary
    /\ Goto(w, "release")
    /\ UNCHANGED <<file, hasSummary, lock, handle, payload, creating, edits, crashes>>

\* Unlocking a closed descriptor fails, and the failure is swallowed.
Release(w) ==
    /\ pc[w] = "release"
    /\ Goto(w, IF w \in creating THEN "first" ELSE "idle")
    /\ UNCHANGED <<file, shown, lock, handle, payload, creating, edits, crashes>>

\* The orchestrator writes the first summary after its state.
FirstSummary(w) ==
    /\ pc[w] = "first"
    /\ summary' = payload[w]
    /\ hasSummary' = TRUE
    /\ creating' = creating \ {w}
    /\ Goto(w, "idle")
    /\ UNCHANGED <<file, lock, handle, payload, edits, crashes>>

----------------------------------------------------------------------------
\* A process dies: its files are closed and its locks are gone.
Crash(w) ==
    /\ pc[w] # "idle"
    /\ crashes < MaxCrashes
    /\ crashes' = crashes + 1
    /\ lock' = [lock EXCEPT ![w] = 0]
    /\ creating' = creating \ {w}
    /\ Goto(w, "idle")
    /\ UNCHANGED <<file, shown, handle, payload, edits>>

\* What a process does by itself once it has prepared a state.
WriteStep(w) ==
    \/ Open(w)
    \/ Lock(w)
    \/ GiveUp(w)
    \/ ReturnDescriptor(w)
    \/ Replace(w)
    \/ SyncSummary(w)
    \/ Release(w)
    \/ FirstSummary(w)

Next ==
    \E w \in Writer : LoadAndEdit(w) \/ Initialise(w) \/ WriteStep(w) \/ Crash(w)

Spec == Init /\ [][Next]_vars
FairSpec == Spec /\ \A w \in Writer : WF_vars(WriteStep(w))
----------------------------------------------------------------------------
(* Properties.                                                             *)

\* Every variable holds a value of its type.
TypeOK ==
    /\ inode \in Nat /\ inodes \in Nat
    /\ valid \in BOOLEAN /\ hasSummary \in BOOLEAN
    /\ content \in SUBSET Edit /\ summary \in SUBSET Edit
    /\ lock \in [Writer -> Nat] /\ handle \in [Writer -> Nat]
    /\ payload \in [Writer -> SUBSET Edit]
    /\ creating \in SUBSET Writer
    /\ edits \in [Writer -> 0..MaxEdits]
    /\ pc \in [Writer -> Places]
    /\ crashes \in Nat

\* Nothing a process does, its death included, leaves a lock behind that could
\* make a later write time out: locks are held inside _acquire_state_lock only.
LocksAreLive ==
    \A w \in Writer : lock[w] # 0 => pc[w] = "acquired" /\ lock[w] = handle[w]

\* Readers see whole states: write_mission_state implements StateRegister, in
\* which a state that was loaded and edited takes effect at once or never.
Register == INSTANCE StateRegister WITH
    value <- IF valid THEN {content} ELSE {},
    call  <- [w \in Writer |->
                CASE pc[w] \in {"idle", "first"} -> "none"
                  [] pc[w] \in {"ready", "acquire", "acquired", "replace"} -> "pending"
                  [] pc[w] \in {"summary", "release"} -> "effective"]
WritesAreAtomic == Register!Spec

\* A call of write_mission_state returns, unless its process dies: waiting for
\* the lock ends, whoever replaces the file meanwhile.
EveryCallReturns == \A w \in Writer : (pc[w] # "idle") ~> (pc[w] = "idle")

\* Callers that take turns, as the outer loop and the executor it waits for do,
\* never lose an edit, even when one of them dies in the middle of a write. Only
\* a new initialisation starts again from nothing.
NoLostEdits ==
    [][valid => valid' /\ (content \subseteq content' \/ \E w \in creating : Replace(w))]_vars

\* When callers take turns, a write that gets to its release has brought the
\* summary in line with the state, whatever an earlier crash left there.
SummaryFollows ==
    \A w \in Writer : pc[w] = "release" /\ hasSummary => summary = content

\* The inductive invariant behind the last two: callers that take turns are
\* never two at a time, so the state a caller is about to write contains the one
\* on file, and the one on file is what it wrote until it is done.
TurnsInv ==
    /\ TypeOK
    /\ \A v, w \in Writer : pc[v] # "idle" /\ pc[w] # "idle" => v = w
    /\ \A w \in Writer :
         /\ pc[w] \in {"ready", "acquire", "acquired", "replace"} /\ valid =>
              content \subseteq payload[w] \/ w \in creating
         /\ pc[w] = "summary" => content = payload[w]
    /\ SummaryFollows

----------------------------------------------------------------------------
(* What the documentation says.                                            *)

\* mission_state.py: "Acquire an exclusive advisory lock": two processes are
\* never both between acquiring the lock and releasing it.
LockIsExclusive ==
    \A v, w \in Writer : v # w => ~(pc[v] \in Critical /\ pc[w] \in Critical)
=============================================================================
