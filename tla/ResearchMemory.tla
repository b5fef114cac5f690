--------------------------- MODULE ResearchMemory ---------------------------
(***************************************************************************)
(* The research memory every mission of a workspace shares                 *)
(* (research/indexed_memory.py) and the mission memory that feeds it       *)
(* (mission/mission_memory.py): an append-only log of recorded entries and *)
(* an index of the active ones.  A recorder loads the index, puts its      *)
(* entry in, applies the retention window, replaces the index file and     *)
(* only then appends the entry to the log.  No lock spans these steps, and *)
(* several missions may run at once.                                       *)
(*                                                                         *)
(* An entry is its id, its mission, its type, whether retention protects   *)
(* it (promoted findings, failed or blocked experiments, branching         *)
(* decisions, mission summaries) and the time it was recorded.  Terms and  *)
(* scores are left out.  Every caller stamps its entry with the current    *)
(* time, so no two entries have the same fingerprint.                      *)
(***************************************************************************)
EXTENDS Integers, FiniteSets, Sequences

CONSTANTS
  MemoryMissions,    \* the missions that record, each a process of its own
  Findings,          \* what they may record: id, mission, type and kind
  WindowSize,        \* default_active_entries_per_mission_entity_type
  NoEntry,           \* no entry in hand
  MaxRecords,        \* bound: entries recorded in a behaviour
  MaxTears           \* bound: recorders that die, index files that are damaged

ASSUME WindowIsPositive == WindowSize \in Nat \ {0}

VARIABLES
  index,             \* the index in the index file
  damage,            \* what else the index file is
  memoryLog, recorder, retrieved,
  lost,              \* the missions whose part of the index something wrote over
  records, tears

memoryVars == <<index, damage, memoryLog, recorder, retrieved, lost, records, tears>>

EmptyIndex == [active |-> {}, archived |-> {}]

(* The mission's own summary, recorded by every sync of its memory. *)
Summary(m) == [id |-> m, mission |-> m, type |-> "mission", kind |-> "summary"]

(* What a mission records: experiments and promoted findings, its selected *)
(* decisions, and its summary. *)
Recordable(m) == {e \in Findings : e.mission = m} \cup {Summary(m)}

(* _retention_metadata: everything but routine entries is protected. *)
Protected(e) == e.kind \in {"promoted", "failed", "branching", "summary"}

Stamped(e, t) == [id |-> e.id, mission |-> e.mission, type |-> e.type,
                  protected |-> Protected(e), at |-> t]

Entries ==
  {Stamped(e, t) : e \in UNION {Recordable(m) : m \in MemoryMissions}, t \in 1..MaxRecords}

Indexes == [active : SUBSET Entries, archived : SUBSET Entries]

(* An index file that is not there, an empty one, one nothing can be read  *)
(* from, and one that does not parse but begins with the object of an      *)
(* earlier index.                                                          *)
Damages == {"gone", "blank", "torn", "older"}

ASSUME MemoryAssumption == MaxRecords \in Nat /\ MaxTears \in Nat

----------------------------------------------------------------------------
(* Retention *)

Rolling(entries, e) ==
  {o \in entries : o.mission = e.mission /\ o.type = e.type /\ ~o.protected}

(* An unprotected entry stays while fewer than WindowSize of its mission   *)
(* and type are newer. *)
InWindow(entries, e) ==
  e.protected \/ Cardinality({o \in Rolling(entries, e) : o.at > e.at}) < WindowSize

(* _rebuild_indexes: what leaves the window is archived; an archived entry *)
(* that is active again leaves the archive. *)
Retained(active, archived) ==
  LET kept == {e \in active : InWindow(active, e)} IN
    [active |-> kept, archived |-> (archived \cup (active \ kept)) \ kept]

(* The new version of an entry takes the place of the active one. *)
Recorded(ix, e) ==
  Retained({o \in ix.active : <<o.type, o.id>> # <<e.type, e.id>>} \cup {e}, ix.archived)

(* _rebuild_index_from_entries replays the log. *)
Rebuilt(log) ==
  LET replay[n \in 0..Len(log)] ==
        IF n = 0 THEN EmptyIndex ELSE Recorded(replay[n - 1], log[n])
  IN  replay[Len(log)]

(* load_research_memory_index: one nothing can be read from is rebuilt, a   *)
(* missing or an empty one is an index of nothing, and of one that does    *)
(* not parse the object it begins with is taken.                           *)
LoadedIndex == CASE damage = "torn" -> Rebuilt(memoryLog)
                 [] damage \in {"gone", "blank"} -> EmptyIndex
                 [] OTHER -> index

----------------------------------------------------------------------------
IdleRecorder == [pc |-> "idle", entry |-> NoEntry, read |-> EmptyIndex, unseen |-> {}]

MemoryInit ==
  /\ index = EmptyIndex
  /\ damage = "none"
  /\ memoryLog = <<>>
  /\ recorder = [m \in MemoryMissions |-> IdleRecorder]
  /\ retrieved = [m \in MemoryMissions |-> {}]
  /\ lost = {}
  /\ records = 0
  /\ tears = 0

(* What a load leaves behind: all but an empty file is written anew.  A    *)
(* rebuild gives everybody back but those between their two files; a new   *)
(* index or an older one gives nobody back. *)
IndexRepaired ==
  /\ index' = LoadedIndex
  /\ damage' = IF damage = "blank" THEN "blank" ELSE "none"
  /\ lost' = CASE damage = "torn" -> {m \in MemoryMissions : recorder[m].pc = "append"}
               [] damage \in {"gone", "older"} -> MemoryMissions
               [] OTHER -> lost

(* The missions a recorder's copy of the index is not up to date on: those *)
(* saved since it was loaded, and those lost when it was. *)
Unseen(m, missions) ==
  IF recorder[m].pc = "save" THEN [recorder[m] EXCEPT !.unseen = @ \cup missions] ELSE recorder[m]

Repairing(m, mine) ==
  /\ IndexRepaired
  /\ recorder' = [o \in MemoryMissions |->
                    IF o = m THEN mine ELSE Unseen(o, IF damage = "torn" THEN lost ELSE {})]

(* A mission records an experiment, a decision or a promoted finding, or   *)
(* its own summary when it saves its memory; the index is loaded. *)
Load(m, e) ==
  /\ recorder[m].pc = "idle"
  /\ records < MaxRecords
  /\ records' = records + 1
  /\ Repairing(m, [pc |-> "save", entry |-> Stamped(e, records + 1), read |-> LoadedIndex,
                   unseen |-> IF damage = "blank" THEN MemoryMissions ELSE {}])
  /\ UNCHANGED <<memoryLog, retrieved, tears>>

(* The index written is the one loaded with the entry put in, whatever was *)
(* written meanwhile. *)
Save(m) ==
  /\ recorder[m].pc = "save"
  /\ index' = Recorded(recorder[m].read, recorder[m].entry)
  /\ damage' = "none"
  /\ lost' = lost \cup recorder[m].unseen
  /\ recorder' = [o \in MemoryMissions |->
                    IF o = m THEN [recorder[m] EXCEPT !.pc = "append"] ELSE Unseen(o, {m})]
  /\ UNCHANGED <<memoryLog, retrieved, records, tears>>

\* Mutant: protected entries are not appended to the log.
AppendRolling(m) ==
  /\ recorder[m].pc = "append"
  /\ memoryLog' = IF recorder[m].entry.protected THEN memoryLog
                  ELSE Append(memoryLog, recorder[m].entry)
  /\ recorder' = [recorder EXCEPT ![m].pc =
                    IF recorder[m].entry.type = "mission" THEN "retrieve" ELSE "idle"]
  /\ UNCHANGED <<index, damage, retrieved, lost, records, tears>>

AppendEvent(m) ==
  /\ recorder[m].pc = "append"
  /\ memoryLog' = Append(memoryLog, recorder[m].entry)
  /\ recorder' = [recorder EXCEPT ![m].pc =
                    IF recorder[m].entry.type = "mission" THEN "retrieve" ELSE "idle"]
  /\ UNCHANGED <<index, damage, retrieved, lost, records, tears>>

(* retrieve_research_memory: the active entries of the other missions. *)
Matches(m) == {e \in LoadedIndex.active : e.mission # m}

(* sync_mission_memory goes on to look up what other missions left and     *)
(* writes the mission's own memory file. *)
Retrieve(m) ==
  /\ recorder[m].pc = "retrieve"
  /\ retrieved' = [retrieved EXCEPT ![m] = Matches(m)]
  /\ Repairing(m, IdleRecorder)
  /\ UNCHANGED <<memoryLog, records, tears>>

(* External: a mission's process dies; one that dies between the two files *)
(* leaves an entry the log does not have. *)
RecorderDies(m) ==
  /\ recorder[m].pc # "idle"
  /\ tears < MaxTears
  /\ tears' = tears + 1
  /\ lost' = IF recorder[m].pc = "append" THEN lost \cup {m} ELSE lost
  /\ recorder' = [recorder EXCEPT ![m] = IdleRecorder]
  /\ UNCHANGED <<index, damage, memoryLog, retrieved, records>>

(* External: something other than these processes damages the index file. *)
DamageIndex ==
  /\ tears < MaxTears
  /\ tears' = tears + 1
  /\ \/ damage' \in Damages \ {"older"} /\ index' = EmptyIndex
     \/ damage' = "older" /\ index' \in {recorder[m].read : m \in MemoryMissions}
  /\ UNCHANGED <<memoryLog, recorder, retrieved, lost, records>>

MemoryNext ==
  \/ \E m \in MemoryMissions :
       \/ \E e \in Recordable(m) : Load(m, e)
       \/ Save(m) \/ AppendEvent(m) \/ Retrieve(m) \/ RecorderDies(m)
  \/ DamageIndex

MemorySpec == MemoryInit /\ [][MemoryNext]_memoryVars

----------------------------------------------------------------------------
MemoryTypeOK ==
  /\ index.active \subseteq Entries /\ index.archived \subseteq Entries
  /\ damage \in Damages \cup {"none"}
  /\ \A i \in 1..Len(memoryLog) : memoryLog[i] \in Entries
  /\ \A m \in MemoryMissions :
       /\ recorder[m].pc \in {"idle", "save", "append", "retrieve"}
       /\ recorder[m].entry \in Entries \cup {NoEntry}
       /\ recorder[m].unseen \subseteq MemoryMissions
       /\ retrieved[m] \subseteq Entries
  /\ lost \subseteq MemoryMissions
  /\ records \in 0..MaxRecords /\ tears \in 0..MaxTears

PartOf(S, m) == {e \in S : e.mission = m}

SameFor(ix, jx, m) ==
  PartOf(ix.active, m) = PartOf(jx.active, m) /\ PartOf(ix.archived, m) = PartOf(jx.archived, m)

(* No lock spans the two files, and recorders overlap; but they cost only  *)
(* whom they overlap.  The index says of a mission what the log says of    *)
(* it, archive and all, unless the mission is between its two files or     *)
(* lost: another recorder had loaded the index before the mission saved,   *)
(* and saved after it; it died between the two files; or the file was      *)
(* emptied, removed or cut back to an older index.  A mission that writes  *)
(* over others keeps its own part, and a rebuild gives everybody back.     *)
RebuildIsFaithful ==
  damage = "none" =>
    \A m \in MemoryMissions \ lost :
      recorder[m].pc # "append" => SameFor(index, Rebuilt(memoryLog), m)
=============================================================================
