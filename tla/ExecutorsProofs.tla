-------------------------- MODULE ExecutorsProofs --------------------------
(***************************************************************************)
(* The executors of MCExecutors for every value of their constants. The    *)
(* recursive agent: types, the bounds that survive a restart, whose result *)
(* an iteration counts, and which actions of the list are passed by. The   *)
(* provider's launcher: what may be made up. Parallel subagents: the       *)
(* report. The experiment search: whose result an operation gets. Then all *)
(* of them together with the queue of HealingQueueProofs.                  *)
(***************************************************************************)
EXTENDS MCExecutors, HealingQueueProofs, SequenceTheorems, FiniteSetTheorems,
        WellFoundedInduction, TLAPS

Item == [phase : AgentPhases, status : ActionState]

\* Why the loop stops is known when it returns and not before it has judged; a
\* task that is run counts its failures under a name of its own.
LoopControl ==
    /\ apc = "run" => tries <= MaxRetries
    /\ apc \in {"select", "run", "judge"} => stop = ""
    /\ apc = "return" => stop # ""
    /\ apc \in {"run", "judge"} => task.id # "none"
    /\ loop.pending.id = "none" => loop.pending = NoTask
    /\ loopFile.pending.id = "none" => loopFile.pending = NoTask

\* The rounds of the for loop and the iterations used add up.
IterationsLeft ==
    /\ apc = "select" => loop.used + left = MaxIterations
    /\ apc \in {"run", "judge"} => loop.used + left + 1 = MaxIterations
    /\ apc \in {"saveLoop", "saveMission"} /\ stop = "" => loop.used + left = MaxIterations

LoopInv == AgentTypeOK /\ LoopControl /\ IterationsLeft

\* One iteration may be judged and not saved.
Unsaved == IF apc = "saveLoop" THEN 1 ELSE 0

\* What was judged is counted, in memory and, when it is saved, in the file.
CountsCover ==
    /\ rounds <= loop.used + uncounted
    /\ rounds <= loopFile.used + uncounted + Unsaved
    /\ \A p \in AgentPhases :
         /\ streak[p] <= loop.counts[p] + uncounted
         /\ streak[p] <= loopFile.counts[p] + uncounted + Unsaved
    /\ \A t \in Counted : loop.counts[t] < MaxFailures /\ loopFile.counts[t] < MaxFailures

\* Until an iteration is lost, the result files are those of the iteration at hand.
FilesAreOwn ==
    uncounted = 0 =>
      /\ strays = {}
      /\ \A p \in AgentPhases : results[p].by # "earlier"
      /\ apc \notin {"run", "judge", "saveLoop"} =>
           \A p \in AgentPhases : results[p].by = "nobody"

\* The first c - 1 actions that are open are excused, those of ex set aside.
PassedBy(actions, c, ex) ==
    \A i \in DOMAIN actions :
      i < c /\ actions[i].status \notin Skipped => actions[i].phase \in excused \cup ex

Distinct(actions) ==
    \A i, j \in DOMAIN actions : actions[i].phase = actions[j].phase => i = j

\* A task that is an action of the list is at or past the cursor, or excused.
InReach(t, c) ==
    t.id \in AgentPhases =>
      /\ t.phase = t.id
      /\ t.id \in excused \/ c <= At(mission.actions, t.id)

ListInv ==
    /\ seen = mission
    /\ Distinct(mission.actions)
    /\ loop.cursor <= Len(mission.actions) + 1
    /\ loopFile.cursor <= Len(mission.actions) + 1
    /\ InReach(loop.pending, loop.cursor)
    /\ InReach(loopFile.pending, loopFile.cursor)
    /\ task.id \in AgentPhases => task.phase = task.id

\* The loop's own cursor, and the one it saved.
CursorInv ==
    /\ apc # "saveMission" => PassedBy(mission.actions, loopFile.cursor, {})
    /\ apc \in {"select", "run", "judge"} => PassedBy(mission.actions, loop.cursor, {})
    /\ apc \in {"run", "judge"} =>
         /\ InReach(task, loop.cursor)
         /\ task.index # 0 =>
              /\ task.index = loop.cursor
              /\ task.index \in DOMAIN mission.actions
              /\ task.id = mission.actions[task.index].phase
    /\ apc = "select" /\ latest # Nothing /\ At(mission.actions, task.id) # 0 =>
         mission.actions[At(mission.actions, task.id)].status = latest.result
    /\ apc \in {"saveLoop", "saveMission"} =>
         /\ PassedBy(Applied.actions, loop.cursor, {})
         /\ PassedBy(mission.actions, loop.cursor, {task.phase})
    /\ apc = "saveMission" => loopFile = loop

\* A dispatch that has not served its action is at its first choice.
FirstChoice ==
    given.first /\ given.left > 0 /\ ~given.served =>
      \/ apc = "idle"
      \/ /\ apc = "select" /\ left = given.left /\ mission.phase = given.phase
         /\ At(mission.actions, given.phase) # 0
         /\ Chosen(mission.actions, loop.cursor) = At(mission.actions, given.phase)

----------------------------------------------------------------------------
(* Facts about the operators.                                              *)

\* A set of numbers that is not empty has a least one.
LEMMA LeastNatural ==
    ASSUME NEW T \in SUBSET Nat, T # {}
    PROVE  \E x \in T : \A y \in T : x <= y
PROOF
<1> DEFINE R == {ss \in Nat \X Nat : ss[1] < ss[2]}
<1>1. IsWellFoundedOn(R, Nat)
  BY NatLessThanWellFounded DEF OpToRel
<1>2. PICK x \in T : \A y \in T : ~(<<y, x>> \in R)
  BY <1>1, WFMin
<1>3. ASSUME NEW y \in T
      PROVE  x <= y
  <2>1. x \in Nat /\ y \in Nat /\ <<y, x>> \notin R
    BY <1>2
  <2>2. ~(y < x)
    BY <2>1
  <2> QED
    BY <2>1, <2>2
<1> QED
  BY <1>3

\* An index is 0, or that of an action of the phase.
LEMMA AtFacts ==
    ASSUME NEW a \in Seq(Item), NEW p
    PROVE  /\ At(a, p) \in 0..Len(a)
           /\ At(a, p) # 0 => At(a, p) \in DOMAIN a /\ a[At(a, p)].phase = p
           /\ At(a, p) = 0 => \A i \in DOMAIN a : a[i].phase # p
PROOF
<1>1. DOMAIN a = 1..Len(a) /\ Len(a) \in Nat
  BY LenProperties
<1>2. CASE \E i \in DOMAIN a : a[i].phase = p
  <2>1. At(a, p) \in DOMAIN a /\ a[At(a, p)].phase = p
    BY <1>2 DEF At
  <2> QED
    BY <1>1, <2>1
<1>3. CASE ~\E i \in DOMAIN a : a[i].phase = p
  <2>1. At(a, p) = 0
    BY <1>3 DEF At
  <2> QED
    BY <1>1, <1>3, <2>1
<1> QED
  BY <1>2, <1>3

LEMMA AtOfIndex ==
    ASSUME NEW a \in Seq(Item), Distinct(a), NEW i \in DOMAIN a
    PROVE  At(a, a[i].phase) = i
PROOF
<1>1. At(a, a[i].phase) # 0
  BY AtFacts
<1>2. At(a, a[i].phase) \in DOMAIN a /\ a[At(a, a[i].phase)].phase = a[i].phase
  BY <1>1, AtFacts
<1> QED
  BY <1>2 DEF Distinct

\* The choice is the first open action from the cursor on.
LEMMA ChosenFacts ==
    ASSUME NEW a \in Seq(Item), NEW c \in Nat \ {0}
    PROVE  /\ Chosen(a, c) \in 0..Len(a)
           /\ Chosen(a, c) = 0 <=> OpenFrom(a, c) = {}
           /\ Chosen(a, c) # 0 =>
                /\ Chosen(a, c) \in DOMAIN a
                /\ c <= Chosen(a, c)
                /\ \A k \in OpenFrom(a, c) : Chosen(a, c) <= k
PROOF
<1>1. DOMAIN a = 1..Len(a) /\ Len(a) \in Nat
  BY LenProperties
<1>2. OpenFrom(a, c) \in SUBSET Nat /\ OpenFrom(a, c) \subseteq c..Len(a)
  BY <1>1 DEF OpenFrom
<1>3. CASE OpenFrom(a, c) = {}
  BY <1>1, <1>3 DEF Chosen
<1>4. CASE OpenFrom(a, c) # {}
  <2>1. \E i \in OpenFrom(a, c) : \A k \in OpenFrom(a, c) : i <= k
    BY <1>2, <1>4, LeastNatural
  <2>2. Chosen(a, c) = CHOOSE i \in OpenFrom(a, c) : \A k \in OpenFrom(a, c) : i <= k
    BY <1>4 DEF Chosen
  <2>3. Chosen(a, c) \in OpenFrom(a, c) /\ \A k \in OpenFrom(a, c) : Chosen(a, c) <= k
    BY <2>1, <2>2
  <2>4. Chosen(a, c) \in c..Len(a)
    BY <1>2, <2>3
  <2> QED
    BY <1>1, <1>4, <2>3, <2>4
<1> QED
  BY <1>3, <1>4

LEMMA CursorAfterType ==
    ASSUME NEW a \in Seq(Item), NEW c \in Nat \ {0}
    PROVE  CursorAfter(a, c) \in Nat \ {0}
PROOF
<1>1. Chosen(a, c) \in Nat /\ Len(a) \in Nat
  BY ChosenFacts, LenProperties
<1>2. OpenFrom(a, c) # {} => Chosen(a, c) # 0
  BY ChosenFacts
<1> QED
  BY <1>1, <1>2 DEF CursorAfter

\* The cursor a choice leaves has passed no open action but those it had passed.
LEMMA CursorAfterFacts ==
    ASSUME NEW a \in Seq(Item), NEW c \in Nat \ {0}, c <= Len(a) + 1
    PROVE  /\ CursorAfter(a, c) \in Nat \ {0}
           /\ c <= CursorAfter(a, c) /\ CursorAfter(a, c) <= Len(a) + 1
           /\ Chosen(a, c) # 0 => CursorAfter(a, c) = Chosen(a, c)
           /\ \A i \in DOMAIN a : c <= i /\ i < CursorAfter(a, c) => a[i].status \in Skipped
PROOF
<1>1. DOMAIN a = 1..Len(a) /\ Len(a) \in Nat
  BY LenProperties
<1>2. \A i \in DOMAIN a : c <= i /\ a[i].status \notin Skipped => i \in OpenFrom(a, c)
  BY <1>1 DEF OpenFrom
<1>3. CASE OpenFrom(a, c) = {}
  <2>1. CursorAfter(a, c) = Len(a) + 1 /\ Chosen(a, c) = 0
    BY <1>1, <1>3 DEF CursorAfter, Chosen
  <2> QED
    BY <1>1, <1>2, <1>3, <2>1
<1>4. CASE OpenFrom(a, c) # {}
  <2>1. CursorAfter(a, c) = Chosen(a, c)
    BY <1>4 DEF CursorAfter
  <2>2. /\ Chosen(a, c) \in 1..Len(a)
        /\ c <= Chosen(a, c)
        /\ \A k \in OpenFrom(a, c) : Chosen(a, c) <= k
    BY <1>1, <1>4, ChosenFacts
  <2>3. \A i \in DOMAIN a : c <= i /\ i < Chosen(a, c) => a[i].status \in Skipped
    BY <1>1, <1>2, <2>2
  <2> QED
    BY <1>1, <2>1, <2>2, <2>3
<1> QED
  BY <1>3, <1>4

\* The list keeps its places; the action named has its new status.
LEMMA UpsertFacts ==
    ASSUME NEW a \in Seq(Item), NEW p \in AgentPhases, NEW s \in ActionState
    PROVE  /\ Upsert(a, p, s) \in Seq(Item)
           /\ Len(a) <= Len(Upsert(a, p, s))
           /\ \A i \in DOMAIN a :
                /\ i \in DOMAIN Upsert(a, p, s)
                /\ Upsert(a, p, s)[i].phase = a[i].phase
           /\ \A i \in DOMAIN Upsert(a, p, s) :
                \/ i \in DOMAIN a /\ Upsert(a, p, s)[i] = a[i]
                \/ i = At(a, p) /\ Upsert(a, p, s)[i] = [phase |-> p, status |-> s]
                \/ /\ At(a, p) = 0 /\ i = Len(a) + 1
                   /\ Upsert(a, p, s)[i] = [phase |-> p, status |-> s]
           /\ At(Upsert(a, p, s), p) # 0
PROOF
<1> DEFINE item == [phase |-> p, status |-> s]
           u == Upsert(a, p, s)
<1>1. DOMAIN a = 1..Len(a) /\ Len(a) \in Nat
  BY LenProperties
<1>2. item \in Item /\ item.phase = p
  BY DEF Item
<1>3. CASE At(a, p) = 0
  <2>1. u = Append(a, item)
    BY <1>3 DEF Upsert
  <2> HIDE DEF u, item
  <2>2. /\ u \in Seq(Item) /\ Len(u) = Len(a) + 1
        /\ \A i \in 1..Len(a) : u[i] = a[i]
        /\ u[Len(a) + 1] = item
    BY <1>2, <2>1, AppendProperties
  <2>3. DOMAIN u = 1..(Len(a) + 1)
    BY <2>2, LenProperties
  <2>4. At(u, p) # 0
    BY <1>1, <1>2, <2>2, <2>3, AtFacts
  <2> QED
    BY <1>1, <1>3, <2>2, <2>3, <2>4 DEF u, item
<1>4. CASE At(a, p) # 0
  <2>1. u = [a EXCEPT ![At(a, p)] = item]
    BY <1>4 DEF Upsert
  <2>2. At(a, p) \in 1..Len(a) /\ a[At(a, p)].phase = p
    BY <1>1, <1>4, AtFacts
  <2> HIDE DEF u, item
  <2>3. u \in Seq(Item) /\ Len(u) = Len(a)
    BY <1>2, <2>1, <2>2, ExceptSeq
  <2>4. DOMAIN u = DOMAIN a /\ \A i \in DOMAIN a : u[i] = IF i = At(a, p) THEN item ELSE a[i]
    BY <2>1
  <2>5. At(u, p) # 0
    BY <1>1, <1>2, <2>2, <2>3, <2>4, AtFacts
  <2> QED
    BY <1>1, <1>2, <2>2, <2>3, <2>4, <2>5 DEF u, item
<1> QED
  BY <1>3, <1>4

----------------------------------------------------------------------------
(* Types.                                                                  *)

LEMMA Constants ==
    /\ FirstPhase \in AgentPhases
    /\ MaxIterations \in Nat /\ MaxFailures \in Nat \ {0} /\ MaxRetries \in Nat
    /\ "none" \notin Counted
    /\ \A p \in AgentPhases : p \in Counted
    /\ \A p \in AgentPhases : p # "hand-off" /\ p # "initial" /\ p # "none"
    /\ NoPayload \in Payload /\ Payloads \subseteq Payload
PROOF
  BY AgentAssumption DEF Counted, NoPayload, Payload

LEMMA TaskTypes ==
    /\ NoTask \in Task
    /\ \A t \in Task : [t EXCEPT !.index = 0] \in Task
    /\ \A p \in AgentPhases : [NoTask EXCEPT !.phase = p] \in Task
    /\ \A p \in AgentPhases : [NoTask EXCEPT !.phase = p, !.id = "initial"] \in Task
    /\ HandOffs \subseteq Task
PROOF
<1>1. NoTask \in Task
  BY Constants DEF NoTask, Task
<1>2. \A t \in Task : [t EXCEPT !.index = 0] \in Task
  BY DEF Task
<1>3. \A p \in AgentPhases : [NoTask EXCEPT !.phase = p] \in Task
  BY DEF NoTask, Task
<1>4. \A p \in AgentPhases : [NoTask EXCEPT !.phase = p, !.id = "initial"] \in Task
  BY DEF NoTask, Task
<1>5. ASSUME NEW t \in HandOffs
      PROVE  t \in Task
  <2>1. PICK p \in AgentPhases, n \in AgentPhases \cup {"hand-off"} :
          t = [phase |-> p, id |-> n, listed |-> FALSE, index |-> 0]
    BY DEF HandOffs
  <2>2. n \in AgentPhases \cup {"hand-off", "initial", "none"}
    BY <2>1
  <2> QED
    BY <2>1, <2>2 DEF Task
<1> QED
  BY <1>1, <1>2, <1>3, <1>4, <1>5

LEMMA DroppedType ==
    ASSUME LoopInv
    PROVE  /\ DropPending(loop) \in AgentLoop
           /\ DropPending(loop).used = loop.used
           /\ DropPending(loop).cursor = loop.cursor
           /\ DropPending(loop).pending = NoTask
           /\ \A t \in Counted : DropPending(loop).counts[t] =
                 IF t = loop.pending.id THEN 0 ELSE loop.counts[t]
PROOF
<1>1. loop \in AgentLoop /\ (loop.pending.id = "none" => loop.pending = NoTask)
  BY DEF LoopInv, AgentTypeOK, LoopControl
<1>2. CASE loop.pending = NoTask
  BY <1>1, <1>2, Constants DEF DropPending, NoTask
<1>3. CASE loop.pending # NoTask
  <2> DEFINE counts == [loop.counts EXCEPT ![loop.pending.id] = 0]
             d == [loop EXCEPT !.pending = NoTask, !.counts = counts]
  <2>1. DropPending(loop) = d
    BY <1>1, <1>3 DEF DropPending, AgentLoop
  <2>2. /\ counts \in [Counted -> Nat]
        /\ \A t \in Counted : counts[t] = IF t = loop.pending.id THEN 0 ELSE loop.counts[t]
    BY <1>1 DEF AgentLoop
  <2> HIDE DEF counts
  <2>3. /\ d \in AgentLoop
        /\ d.used = loop.used /\ d.cursor = loop.cursor /\ d.pending = NoTask
        /\ d.counts = counts
    BY <1>1, <2>2, TaskTypes DEF AgentLoop
  <2> QED
    BY <2>1, <2>2, <2>3
<1> QED
  BY <1>2, <1>3

LEMMA PastType ==
    ASSUME LoopInv, NEW i \in Nat \ {0}
    PROVE  /\ [DropPending(loop) EXCEPT !.cursor = i] \in AgentLoop
           /\ [DropPending(loop) EXCEPT !.cursor = i].used = loop.used
           /\ [DropPending(loop) EXCEPT !.cursor = i].pending = NoTask
           /\ [DropPending(loop) EXCEPT !.cursor = i].cursor = i
           /\ [DropPending(loop) EXCEPT !.cursor = i].counts = DropPending(loop).counts
PROOF
  BY DroppedType DEF AgentLoop

LEMMA ResultType ==
    ASSUME LoopInv
    PROVE  Result \in Payload
PROOF
<1>1. task.phase \in AgentPhases /\ results[task.phase].is \in Payload
  BY DEF LoopInv, AgentTypeOK, Task
<1> QED
  BY <1>1, Constants DEF Result

\* The list on disk after the save: one status may have changed.
LEMMA AppliedFacts ==
    ASSUME LoopInv
    PROVE  /\ Applied \in Mission
           /\ Len(Applied.actions) = Len(seen.actions)
           /\ \A i \in DOMAIN seen.actions :
                /\ i \in DOMAIN Applied.actions
                /\ Applied.actions[i].phase = seen.actions[i].phase
                /\ Applied.actions[i].status =
                     IF latest # Nothing /\ i = At(seen.actions, task.id) THEN Effective
                     ELSE seen.actions[i].status
PROOF
<1> DEFINE a == seen.actions
           b == [a EXCEPT ![At(a, task.id)].status = Effective]
<1>1. /\ seen \in Mission /\ a \in Seq(Item) /\ latest \in Outcome /\ task \in Task
  BY DEF LoopInv, AgentTypeOK, Mission, Item
<1>2. DOMAIN a = 1..Len(a) /\ Len(a) \in Nat
  BY <1>1, LenProperties
<1>3. CASE latest = Nothing
  BY <1>1, <1>3 DEF Applied
<1>4. CASE latest # Nothing
  <2>1. PhaseAfter \in AgentPhases
    BY <1>1 DEF PhaseAfter, Task
  <2>2. Effective \in ActionState
    BY <1>1, <1>4 DEF Effective, ActionState, Outcome, Payload, NothingToDo, NoPayload
  <2>3. /\ Applied.phase = PhaseAfter
        /\ Applied.actions = IF At(a, task.id) = 0 THEN a ELSE b
        /\ Applied = [phase |-> Applied.phase, actions |-> Applied.actions]
    BY <1>1, <1>4 DEF Applied, Mission
  <2>4. CASE At(a, task.id) = 0
    <3>1. Applied.actions = a
      BY <2>3, <2>4
    <3> QED
      BY <1>1, <1>2, <2>1, <2>3, <2>4, <3>1 DEF Mission, Item
  <2>5. CASE At(a, task.id) # 0
    <3>1. At(a, task.id) \in 1..Len(a)
      BY <1>1, <1>2, <2>5, AtFacts
    <3>2. /\ a[At(a, task.id)] \in Item
          /\ b = [a EXCEPT ![At(a, task.id)] = [a[At(a, task.id)] EXCEPT !.status = Effective]]
      BY <1>1, <3>1, ElementOfSeq
    <3>3. [a[At(a, task.id)] EXCEPT !.status = Effective] \in Item
      BY <2>2, <3>2 DEF Item
    <3>4. /\ b \in Seq(Item) /\ Len(b) = Len(a)
          /\ \A i \in 1..Len(a) : b[i] =
               IF i = At(a, task.id) THEN [a[At(a, task.id)] EXCEPT !.status = Effective]
               ELSE a[i]
      BY <1>1, <3>1, <3>2, <3>3, ExceptSeq
    <3>5. \A i \in 1..Len(a) : a[i] \in Item
      BY <1>1, ElementOfSeq
    <3>6. DOMAIN b = 1..Len(a)
      BY <3>4, LenProperties
    <3>7. Applied.actions = b
      BY <2>3, <2>5
    <3> HIDE DEF b
    <3>8. Applied \in Mission
      BY <2>1, <2>3, <3>4, <3>7 DEF Mission, Item
    <3> QED
      BY <1>2, <1>4, <3>4, <3>5, <3>6, <3>7, <3>8 DEF Item
  <2> QED
    BY <2>4, <2>5
<1> QED
  BY <1>3, <1>4

ResultFile == [is : Payload, by : {"nobody", "earlier", "this"}]

LEMMA LoopTypes ==
    ASSUME LoopInv
    PROVE  /\ loop \in AgentLoop /\ loopFile \in AgentLoop
           /\ mission \in Mission /\ seen \in Mission
           /\ mission.actions \in Seq(Item) /\ mission.phase \in AgentPhases
           /\ task \in Task
PROOF
  BY DEF LoopInv, AgentTypeOK, Mission, Item

LEMMA LoopNumbers ==
    ASSUME LoopInv
    PROVE  /\ MaxIterations \in Nat
           /\ loop.used \in Nat /\ loop.used <= MaxIterations
           /\ loopFile.used \in Nat /\ loopFile.used <= MaxIterations
           /\ left \in Nat /\ left <= MaxIterations
           /\ loop.cursor \in Nat \ {0} /\ loopFile.cursor \in Nat \ {0}
           /\ rounds \in Nat /\ uncounted \in Nat
PROOF
<1>1. loop \in AgentLoop /\ loopFile \in AgentLoop /\ MaxIterations \in Nat
  BY Constants, LoopTypes
<1>2. left \in 0..MaxIterations /\ rounds \in Nat /\ uncounted \in Nat
  BY DEF LoopInv, AgentTypeOK
<1>3. loop.used \in 0..MaxIterations /\ loop.cursor \in Nat \ {0}
  BY <1>1 DEF AgentLoop
<1>4. loopFile.used \in 0..MaxIterations /\ loopFile.cursor \in Nat \ {0}
  BY <1>1 DEF AgentLoop
<1> QED
  BY <1>1, <1>2, <1>3, <1>4

LEMMA InitLoop == AgentInit => LoopInv
PROOF
<1> SUFFICES ASSUME AgentInit
             PROVE  LoopInv
  OBVIOUS
<1>1. Fresh \in AgentLoop
  <2>1. 0 \in 0..MaxIterations /\ 1 \in Nat \ {0} /\ [t \in Counted |-> 0] \in [Counted -> Nat]
    BY Constants
  <2> QED
    BY <2>1, TaskTypes DEF Fresh, AgentLoop
<1>2. mission \in Mission /\ seen \in Mission
  BY Constants, EmptySeq DEF AgentInit, Mission
<1>3. results \in [AgentPhases -> ResultFile]
  BY Constants DEF AgentInit, NoResults, NoResult, ResultFile
<1>4. given \in [phase : AgentPhases, left : 0..MaxIterations, first : BOOLEAN, served : BOOLEAN]
  <2>1. 0 \in 0..MaxIterations /\ FirstPhase \in AgentPhases
    BY Constants
  <2> QED
    BY <2>1 DEF AgentInit
<1>5. Fresh.pending = NoTask
  BY DEF Fresh
<1>6. 0 \in 0..MaxIterations /\ 0 \in 0..(MaxRetries + 1)
  BY Constants
<1>7. AgentTypeOK
  BY <1>1, <1>2, <1>3, <1>4, <1>6, TaskTypes DEF AgentInit, AgentTypeOK, Outcome, ResultFile
<1> QED
  BY <1>5, <1>7 DEF AgentInit, LoopInv, LoopControl, IterationsLeft

LEMMA CallLoop ==
    ASSUME LoopInv, NEW p \in AgentPhases, Dispatch(p)
    PROVE  LoopInv'
PROOF
<1>1. mission' \in Mission /\ seen' = mission'
  <2>1. Upsert(mission.actions, p, "in_progress") \in Seq(Item)
    BY LoopTypes, UpsertFacts DEF ActionState
  <2> QED
    BY <2>1, LoopTypes DEF Mission, Item, Dispatch, Call
<1>2. loop' = loopFile /\ loopFile' = loopFile /\ left' = MaxIterations - loopFile.used
  BY DEF Dispatch, Call, loopFiles
<1>3. left' \in 0..MaxIterations /\ loop'.used + left' = MaxIterations
  BY <1>2, LoopNumbers
<1>4. given' \in [phase : AgentPhases, left : 0..MaxIterations, first : BOOLEAN, served : BOOLEAN]
  BY <1>3 DEF Dispatch, Call
<1>5. 0 \in 0..(MaxRetries + 1)
  BY Constants
<1>6. dispatches' \in Nat
  <2>1. dispatches' = dispatches + 1
    BY DEF Dispatch, Call
  <2>2. dispatches \in Nat
    BY DEF LoopInv, AgentTypeOK
  <2> QED
    BY <2>1, <2>2
<1>7. AgentTypeOK'
  BY <1>1, <1>2, <1>3, <1>4, <1>5, <1>6, TaskTypes
  DEF LoopInv, AgentTypeOK, Outcome, loopFiles, Dispatch, Call
<1> QED
  BY <1>2, <1>3, <1>7 DEF LoopInv, LoopControl, IterationsLeft, Dispatch, Call

LEMMA SelectLoop ==
    ASSUME LoopInv, NEW t \in Task, NEW l \in AgentLoop, SelectTask(t, l), l.used = loop.used
    PROVE  /\ left' \in 0..MaxIterations
           /\ seen' \in Mission /\ task' \in Task /\ loop' \in AgentLoop
           /\ streak' \in [AgentPhases -> Nat]
           /\ loop'.used + left' + 1 = MaxIterations
           /\ UNCHANGED <<rounds, uncounted, excused>>
PROOF
<1> USE DEF SelectTask, Select
<1>1. left > 0 /\ loop.used + left = MaxIterations /\ left' = left - 1
  BY DEF LoopInv, IterationsLeft
<1>2. left' \in 0..MaxIterations /\ loop'.used + left' + 1 = MaxIterations
  BY <1>1, LoopNumbers
<1>3. streak' \in [AgentPhases -> Nat]
  BY DEF LoopInv, AgentTypeOK
<1> QED
  BY <1>2, <1>3 DEF LoopInv, AgentTypeOK

LEMMA StartLoop ==
    ASSUME LoopInv, NEW t \in Task, NEW l \in AgentLoop, SelectTask(t, l), StartIteration,
           l.used = loop.used, t.id # "none",
           l.pending.id = "none" => l.pending = NoTask
    PROVE  LoopInv'
PROOF
<1> USE DEF StartIteration
<1>1. task' = t /\ loop' = l
  BY DEF SelectTask, Select
<1>2. given' \in [phase : AgentPhases, left : 0..MaxIterations, first : BOOLEAN, served : BOOLEAN]
  <2>1. (given.served \/ task'.id = given.phase) \in BOOLEAN
    OBVIOUS
  <2> QED
    BY <2>1 DEF LoopInv, AgentTypeOK
<1>3. results' \in [AgentPhases -> ResultFile]
  <2>1. \A p \in AgentPhases : results[p] \in ResultFile
    BY DEF LoopInv, AgentTypeOK, ResultFile
  <2>2. \A p \in AgentPhases : [results[p] EXCEPT !.by = "earlier"] \in ResultFile
    BY <2>1 DEF ResultFile
  <2> QED
    BY <2>1, <2>2
<1>4. 0 \in 0..(MaxRetries + 1) /\ 0 <= MaxRetries
  BY Constants
<1>7. AgentTypeOK'
  BY <1>2, <1>3, <1>4, SelectLoop DEF LoopInv, AgentTypeOK, agentBounds, ResultFile
<1>5. LoopControl'
  <2>1. apc = "select" /\ stop' = "" /\ apc' = "run"
    BY DEF LoopInv, LoopControl, SelectTask, Select
  <2> QED
    BY <1>1, <1>4, <2>1 DEF LoopInv, LoopControl
<1>6. IterationsLeft'
  BY SelectLoop DEF IterationsLeft
<1> QED
  BY <1>5, <1>6, <1>7 DEF LoopInv

LEMMA TakeLoop ==
    ASSUME LoopInv, TakePending \/ TakeListed \/ TakeInitial
    PROVE  LoopInv'
PROOF
<1>1. CASE TakePending
  <2>1. loop \in AgentLoop /\ loop.pending \in Task /\ loop.pending # NoTask
    BY <1>1 DEF LoopInv, AgentTypeOK, AgentLoop, TakePending, KeepsPending
  <2>2. loop.pending.id # "none" /\ (loop.pending.id = "none" => loop.pending = NoTask)
    BY <2>1 DEF LoopInv, LoopControl
  <2>3. [loop.pending EXCEPT !.index = 0] \in Task
    BY <2>1, TaskTypes
  <2>4. [loop.pending EXCEPT !.index = 0].id = loop.pending.id
    BY <2>1 DEF Task
  <2> QED
    BY <1>1, <2>1, <2>2, <2>3, <2>4, StartLoop DEF TakePending
<1>2. CASE TakeListed
  <2> DEFINE i == Chosen(mission.actions, loop.cursor)
             t == [phase |-> mission.actions[i].phase, id |-> mission.actions[i].phase,
                   listed |-> TRUE, index |-> i]
             l == [DropPending(loop) EXCEPT !.cursor = i]
  <2>1. mission.actions \in Seq(Item) /\ loop.cursor \in Nat \ {0}
    BY DEF LoopInv, AgentTypeOK, AgentLoop, Mission, Item
  <2>2. i # 0 /\ SelectTask(t, l) /\ StartIteration
    BY <1>2 DEF TakeListed
  <2>3. i \in DOMAIN mission.actions /\ i \in Nat \ {0}
    BY <2>1, <2>2, ChosenFacts
  <2>4. mission.actions[i] \in Item
    BY <2>1, <2>3, LenProperties, ElementOfSeq
  <2>5. t \in Task /\ t.id # "none"
    BY <2>3, <2>4, Constants DEF Task, Item
  <2>6. l \in AgentLoop /\ l.used = loop.used /\ l.pending = NoTask
    BY <2>3, PastType
  <2> HIDE DEF i, t, l
  <2> QED
    BY <2>2, <2>5, <2>6, StartLoop
<1>3. CASE TakeInitial
  <2> DEFINE c == CursorAfter(mission.actions, loop.cursor)
             t == [NoTask EXCEPT !.phase = mission.phase, !.id = "initial"]
             l == [PastTheList EXCEPT !.initialDone = TRUE]
  <2>1. c \in Nat \ {0} /\ mission.phase \in AgentPhases
    BY LoopTypes, LoopNumbers, CursorAfterType
  <2>2. SelectTask(t, l) /\ StartIteration
    BY <1>3 DEF TakeInitial
  <2>3. t \in Task /\ t.id = "initial"
    BY <2>1, TaskTypes DEF NoTask
  <2>4. PastTheList \in AgentLoop /\ PastTheList.used = loop.used /\ PastTheList.pending = NoTask
    BY <2>1, PastType DEF PastTheList
  <2>5. l \in AgentLoop /\ l.used = loop.used /\ l.pending = NoTask
    BY <2>4 DEF AgentLoop
  <2> HIDE DEF c, t, l
  <2> QED
    BY <2>2, <2>3, <2>5, StartLoop
<1> QED
  BY <1>1, <1>2, <1>3

LEMMA FindNothingLoop ==
    ASSUME LoopInv, FindNothing
    PROVE  LoopInv'
PROOF
<1> DEFINE t == [NoTask EXCEPT !.phase = mission.phase]
<1>1. CursorAfter(mission.actions, loop.cursor) \in Nat \ {0}
  BY LoopTypes, LoopNumbers, CursorAfterType
<1>2. PastTheList \in AgentLoop /\ PastTheList.used = loop.used /\ PastTheList.pending = NoTask
  BY <1>1, PastType DEF PastTheList
<1>3. t \in Task
  BY LoopTypes, TaskTypes
<1>4. SelectTask(t, PastTheList) /\ loop' = PastTheList
  BY DEF FindNothing, SelectTask, Select
<1> HIDE DEF t
<1>5. AgentTypeOK'
  BY <1>2, <1>3, <1>4, SelectLoop
  DEF LoopInv, AgentTypeOK, FindNothing, loopFiles, agentBounds, Outcome
<1>6. LoopControl'
  BY <1>2, <1>4 DEF LoopInv, LoopControl, FindNothing, loopFiles
<1> QED
  BY <1>5, <1>6 DEF LoopInv, IterationsLeft, FindNothing

LEMMA RunLoop ==
    ASSUME LoopInv, ExhaustBudget \/ AgentExits \/ AgentTimesOut
    PROVE  LoopInv'
PROOF
<1>1. CASE ExhaustBudget
  BY <1>1 DEF ExhaustBudget, LoopInv, AgentTypeOK, LoopControl, IterationsLeft, loopFiles,
     inHand, agentHistory, agentBounds
<1>2. CASE AgentExits
  <2>1. tries \in 0..(MaxRetries + 1) /\ tries <= MaxRetries /\ tries' = tries + 1
    BY <1>2 DEF AgentExits, LoopInv, AgentTypeOK, LoopControl
  <2>2. tries' \in 0..(MaxRetries + 1) /\ (tries # MaxRetries => tries' <= MaxRetries)
    BY <2>1, Constants
  <2>3. results' \in [AgentPhases -> ResultFile]
    <3>1. results \in [AgentPhases -> ResultFile] /\ task.phase \in AgentPhases
      BY DEF LoopInv, AgentTypeOK, ResultFile, Task
    <3>2. CASE UNCHANGED results
      BY <3>1, <3>2
    <3>3. CASE \E o \in Payloads : results' = [results EXCEPT ![task.phase] = [is |-> o, by |-> "this"]]
      <4>1. PICK o \in Payload : results' = [results EXCEPT ![task.phase] = [is |-> o, by |-> "this"]]
        BY <3>3, Constants
      <4>2. [is |-> o, by |-> "this"] \in ResultFile
        BY <4>1 DEF ResultFile
      <4> QED
        BY <3>1, <4>1, <4>2
    <3> QED
      BY <1>2, <3>2, <3>3 DEF AgentExits
  <2>4. AgentTypeOK'
    BY <1>2, <2>2, <2>3 DEF AgentExits, LoopInv, AgentTypeOK, ResultFile, agentHistory, agentBounds
  <2> QED
    BY <1>2, <2>2, <2>4 DEF AgentExits, LoopInv, LoopControl, IterationsLeft
<1>3. CASE AgentTimesOut
  <2>1. uncounted' \in Nat
    BY <1>3, LoopNumbers DEF AgentTimesOut
  <2>2. AgentTypeOK'
    BY <1>3, <2>1 DEF AgentTimesOut, LoopInv, AgentTypeOK, loopFiles, inHand, agentBounds
  <2> QED
    BY <1>3, <2>2 DEF AgentTimesOut, LoopInv, LoopControl, IterationsLeft, loopFiles, inHand
<1> QED
  BY <1>1, <1>2, <1>3

\* What an iteration leaves of the loop's state.
LEMMA CountFacts ==
    ASSUME LoopInv, apc = "judge", NEW n \in Nat
    PROVE  /\ Count(n) \in AgentLoop
           /\ Count(n).used = loop.used + 1
           /\ Count(n).used + left = MaxIterations
           /\ Count(n).cursor = loop.cursor
           /\ Count(n).pending = loop.pending
           /\ \A t \in Counted : Count(n).counts[t] = IF t = task.id THEN n ELSE loop.counts[t]
PROOF
<1> DEFINE used == loop.used + 1
           counts == [loop.counts EXCEPT ![task.id] = n]
           d == [loop EXCEPT !.used = used, !.counts = counts]
<1>1. Count(n) = d
  BY LoopTypes DEF Count, AgentLoop
<1>2. used \in 0..MaxIterations /\ used + left = MaxIterations
  <2>1. loop.used + left + 1 = MaxIterations
    BY DEF LoopInv, IterationsLeft
  <2> QED
    BY <2>1, LoopNumbers
<1>3. /\ counts \in [Counted -> Nat]
      /\ \A t \in Counted : counts[t] = IF t = task.id THEN n ELSE loop.counts[t]
  BY LoopTypes DEF AgentLoop
<1> HIDE DEF used, counts
<1>4. /\ d \in AgentLoop /\ d.used = used /\ d.counts = counts
      /\ d.cursor = loop.cursor /\ d.pending = loop.pending
  BY <1>2, <1>3, LoopTypes DEF AgentLoop
<1> QED
  BY <1>1, <1>2, <1>3, <1>4 DEF used

LEMMA WrittenBack ==
    ASSUME LoopInv, WriteBack
    PROVE  results' \in [AgentPhases -> ResultFile]
PROOF
<1>1. results \in [AgentPhases -> ResultFile] /\ task.phase \in AgentPhases
  BY DEF LoopInv, AgentTypeOK, ResultFile, Task
<1> DEFINE says == IF Result.says = "malformed" THEN "failed" ELSE Result.says
           by == IF results[task.phase].by = "nobody" THEN "this" ELSE results[task.phase].by
           written == [is |-> [Result EXCEPT !.says = says], by |-> by]
<1>2. results' = [results EXCEPT ![task.phase] = written]
  BY ResultType DEF WriteBack, Payload
<1>3. [Result EXCEPT !.says = says] \in Payload
  BY ResultType DEF Payload
<1>4. by \in {"nobody", "earlier", "this"}
  BY <1>1 DEF ResultFile
<1> HIDE DEF says, by
<1>5. written \in ResultFile
  BY <1>3, <1>4 DEF ResultFile
<1> QED
  BY <1>1, <1>2, <1>5

LEMMA OneMore ==
    ASSUME LoopInv
    PROVE  rounds + 1 \in Nat /\ uncounted + 1 \in Nat
PROOF
  BY LoopNumbers

LEMMA JudgeLoop ==
    ASSUME LoopInv, apc = "judge", NEW l \in AgentLoop, NEW s, JudgeAs(l, s),
           s \in {"", "completed", "blocked", "max-iterations"},
           l.used + left = MaxIterations, l.pending.id = "none" => l.pending = NoTask,
           streak' \in [AgentPhases -> Nat], excused' \in SUBSET AgentPhases
    PROVE  LoopInv'
PROOF
<1>1. results' \in [AgentPhases -> ResultFile]
  BY WrittenBack DEF JudgeAs
<1>2. latest' \in Outcome
  BY ResultType DEF JudgeAs, Outcome
<1>3. rounds' \in Nat
  <2>1. rounds' = rounds + 1
    BY DEF JudgeAs
  <2> QED
    BY <2>1, OneMore
<1>4. AgentTypeOK'
  BY <1>1, <1>2, <1>3 DEF JudgeAs, LoopInv, AgentTypeOK, inHand, agentBounds, ResultFile
<1>5. LoopControl'
  BY DEF JudgeAs, LoopInv, LoopControl
<1>6. loop'.used + left' = MaxIterations
  BY DEF JudgeAs
<1> QED
  BY <1>4, <1>5, <1>6 DEF LoopInv, IterationsLeft, JudgeAs

LEMMA TaskCounted ==
    ASSUME LoopInv, apc = "judge"
    PROVE  /\ task.id \in Counted /\ loop.counts[task.id] \in Nat
           /\ task.index \in Nat /\ task.phase \in AgentPhases
           /\ task.id \in AgentPhases => streak[task.id] \in Nat
PROOF
<1>1. task.id \in Counted
  <2>1. task.id # "none" /\ task \in Task
    BY LoopTypes DEF LoopInv, LoopControl
  <2> QED
    BY <2>1 DEF Task, Counted
<1> QED
  BY <1>1, LoopTypes DEF AgentLoop, Task, LoopInv, AgentTypeOK

LEMMA StreakType ==
    ASSUME LoopInv, apc = "judge", NEW n \in Nat, Streak(n)
    PROVE  streak' \in [AgentPhases -> Nat]
PROOF
  BY DEF Streak, LoopInv, AgentTypeOK

LEMMA FailFacts ==
    ASSUME LoopInv, Fail
    PROVE  /\ apc = "judge" /\ JudgeAs(loop', stop') /\ stop' \in {"", "blocked"}
           /\ loop' \in AgentLoop /\ loop'.used = loop.used + 1
           /\ loop'.used + left = MaxIterations
           /\ loop'.cursor = loop.cursor
           /\ loop'.pending = [task EXCEPT !.index = 0]
           /\ \A t \in Counted : loop'.counts[t] =
                IF t = task.id THEN IF Trips THEN 0 ELSE loop.counts[task.id] + 1
                ELSE loop.counts[t]
           /\ excused' = excused
PROOF
<1> DEFINE n == IF Trips THEN 0 ELSE loop.counts[task.id] + 1
           s == IF Trips THEN "blocked" ELSE ""
           t0 == [task EXCEPT !.index = 0]
           l == [Count(n) EXCEPT !.pending = t0]
<1>1. apc = "judge" /\ JudgeAs(l, s) /\ excused' = excused
  BY DEF Fail
<1>2. n \in Nat
  <2>1. loop.counts[task.id] \in Nat
    BY <1>1, TaskCounted
  <2> QED
    BY <2>1
<1>3. t0 \in Task
  BY LoopTypes, TaskTypes
<1>4. loop' = l /\ stop' = s /\ s \in {"", "blocked"}
  BY <1>1 DEF JudgeAs
<1> HIDE DEF n, s, t0
<1>5. l \in AgentLoop /\ l.used = Count(n).used /\ l.cursor = Count(n).cursor
      /\ l.pending = t0 /\ l.counts = Count(n).counts
  BY <1>1, <1>2, <1>3, CountFacts DEF AgentLoop
<1>6. \A t \in Counted : l.counts[t] = IF t = task.id THEN n ELSE loop.counts[t]
  BY <1>1, <1>2, <1>5, CountFacts
<1> HIDE DEF l
<1> QED
  BY <1>1, <1>2, <1>4, <1>5, <1>6, CountFacts DEF n, t0

LEMMA FailLoop ==
    ASSUME LoopInv, Fail
    PROVE  LoopInv'
PROOF
<1>1. streak' \in [AgentPhases -> Nat]
  <2>1. CASE Trips
    BY <2>1, StreakType DEF Fail
  <2>2. CASE ~Trips /\ task.id \in AgentPhases
    <3>1. Streak(streak[task.id] + 1) /\ apc = "judge"
      BY <2>2 DEF Fail
    <3>2. streak[task.id] + 1 \in Nat
      BY <2>2, <3>1, TaskCounted
    <3> QED
      BY <3>1, <3>2, StreakType
  <2>3. CASE ~Trips /\ task.id \notin AgentPhases
    BY <2>3 DEF Fail, LoopInv, AgentTypeOK
  <2> QED
    BY <2>1, <2>2, <2>3
<1>2. loop'.pending.id = task.id /\ task.id # "none"
  BY FailFacts, LoopTypes DEF Task, LoopInv, LoopControl
<1>3. excused' \in SUBSET AgentPhases
  BY FailFacts DEF LoopInv, AgentTypeOK
<1>4. loop'.pending.id = "none" => loop'.pending = NoTask
  BY <1>2
<1>5. stop' \in {"", "completed", "blocked", "max-iterations"}
  BY FailFacts
<1> QED
  BY <1>1, <1>3, <1>4, <1>5, FailFacts, JudgeLoop

\* What a success leaves: no failure is counted for its task.
Cleared ==
    /\ apc = "judge" /\ JudgeAs(loop', stop') /\ Streak(0)
    /\ stop' \in {"", "completed", "max-iterations"}
    /\ loop' \in AgentLoop /\ loop'.used = loop.used + 1
    /\ loop'.used + left = MaxIterations
    /\ loop'.counts[task.id] = 0
    /\ \A t \in Counted : loop'.counts[t] = 0 \/ loop'.counts[t] = loop.counts[t]
    /\ \A p \in AgentPhases : p # task.id => loop'.counts[p] = loop.counts[p]

LEMMA YieldFacts ==
    ASSUME LoopInv, Yield
    PROVE  /\ Cleared
           /\ loop'.cursor = loop.cursor /\ loop'.pending = NoTask /\ excused' = excused
PROOF
<1> DEFINE l == [Count(0) EXCEPT !.pending = NoTask]
<1>1. /\ apc = "judge" /\ JudgeAs(l, "max-iterations") /\ Streak(0) /\ excused' = excused
      /\ loop' = l /\ stop' = "max-iterations"
  BY DEF Yield, Succeeds, JudgeAs
<1>2. /\ Count(0) \in AgentLoop /\ Count(0).used = loop.used + 1
      /\ Count(0).used + left = MaxIterations
      /\ Count(0).cursor = loop.cursor
      /\ \A t \in Counted : Count(0).counts[t] = IF t = task.id THEN 0 ELSE loop.counts[t]
  BY <1>1, CountFacts
<1>3. l \in AgentLoop /\ l.used = Count(0).used /\ l.cursor = Count(0).cursor
      /\ l.pending = NoTask /\ l.counts = Count(0).counts
  BY <1>2, TaskTypes DEF AgentLoop
<1>4. task.id \in Counted
  BY <1>1, TaskCounted
<1> HIDE DEF l
<1> QED
  BY <1>1, <1>2, <1>3, <1>4, Constants DEF Cleared

LEMMA HandOnFacts ==
    ASSUME LoopInv, NEW t \in HandOffs, HandOn(t)
    PROVE  /\ Cleared
           /\ loop'.cursor = loop.cursor /\ loop'.pending = t
           /\ excused' = IF t.id \in AgentPhases THEN excused \cup {t.id} ELSE excused
PROOF
<1> DEFINE counts == [Count(0).counts EXCEPT !["hand-off"] = 0]
           l == [Count(0) EXCEPT !.pending = t, !.cursor = loop.cursor, !.counts = counts]
<1>1. /\ apc = "judge" /\ Streak(0)
      /\ excused' = IF t.id \in AgentPhases THEN excused \cup {t.id} ELSE excused
      /\ JudgeAs([Count(0) EXCEPT !.pending = t, !.cursor = loop.cursor,
                                  !.counts["hand-off"] = 0], AfterHandOff(t))
  BY DEF HandOn, HandOnFrom, Succeeds
<1>2. /\ Count(0) \in AgentLoop /\ Count(0).used = loop.used + 1
      /\ Count(0).used + left = MaxIterations
      /\ Count(0).cursor = loop.cursor
      /\ \A k \in Counted : Count(0).counts[k] = IF k = task.id THEN 0 ELSE loop.counts[k]
  BY <1>1, CountFacts
<1>3. JudgeAs(l, AfterHandOff(t))
  BY <1>1, <1>2 DEF AgentLoop
<1>4. /\ counts \in [Counted -> Nat]
      /\ \A k \in Counted : counts[k] = IF k = "hand-off" THEN 0 ELSE Count(0).counts[k]
  BY <1>2 DEF AgentLoop
<1>5. t \in Task /\ loop.cursor \in Nat \ {0}
  BY TaskTypes, LoopNumbers
<1> HIDE DEF counts
<1>6. l \in AgentLoop /\ l.used = Count(0).used /\ l.cursor = loop.cursor
      /\ l.pending = t /\ l.counts = counts
  BY <1>2, <1>4, <1>5 DEF AgentLoop
<1>7. task.id \in Counted
  BY <1>1, TaskCounted
<1>8. AfterHandOff(t) \in {"", "completed", "max-iterations"}
  BY DEF AfterHandOff
<1>9. loop' = l /\ stop' = AfterHandOff(t)
  BY <1>3 DEF JudgeAs
<1> HIDE DEF l
<1> QED
  BY <1>1, <1>2, <1>3, <1>4, <1>6, <1>7, <1>8, <1>9, Constants DEF Cleared

LEMMA FinishFacts ==
    ASSUME LoopInv, FinishTask
    PROVE  /\ Cleared /\ stop' # "max-iterations"
           /\ loop'.cursor = IF task.index # 0 THEN task.index + 1 ELSE loop.cursor
           /\ loop'.pending = NoTask
           /\ excused' = IF Result.result = "in_progress" THEN excused \cup {task.phase}
                         ELSE excused
PROOF
<1> DEFINE c == IF task.index # 0 THEN task.index + 1 ELSE loop.cursor
           s == IF IterationStatus = "complete" THEN "completed" ELSE ""
           l == [Count(0) EXCEPT !.pending = NoTask, !.cursor = c]
<1>1. /\ apc = "judge" /\ Streak(0)
      /\ excused' = IF Result.result = "in_progress" THEN excused \cup {task.phase} ELSE excused
      /\ JudgeAs([Count(0) EXCEPT !.pending = NoTask,
                                  !.cursor = IF task.index # 0 THEN task.index + 1 ELSE @], s)
  BY DEF FinishTask, Succeeds
<1>2. /\ Count(0) \in AgentLoop /\ Count(0).used = loop.used + 1
      /\ Count(0).used + left = MaxIterations
      /\ Count(0).cursor = loop.cursor
      /\ \A t \in Counted : Count(0).counts[t] = IF t = task.id THEN 0 ELSE loop.counts[t]
  BY <1>1, CountFacts
<1>3. JudgeAs(l, s)
  BY <1>1, <1>2 DEF AgentLoop
<1>4. task.id \in Counted /\ task.index \in Nat
  BY <1>1, TaskCounted
<1>5. c \in Nat \ {0}
  BY <1>4, LoopNumbers
<1>6. s \in {"", "completed"}
  OBVIOUS
<1>7. loop' = l /\ stop' = s
  BY <1>3 DEF JudgeAs
<1> HIDE DEF c, s
<1>8. l \in AgentLoop /\ l.used = Count(0).used /\ l.cursor = c
      /\ l.pending = NoTask /\ l.counts = Count(0).counts
  BY <1>2, <1>5, TaskTypes DEF AgentLoop
<1> HIDE DEF l
<1>9. Cleared
  BY <1>1, <1>2, <1>3, <1>4, <1>6, <1>7, <1>8, Constants DEF Cleared
<1> QED
  BY <1>1, <1>6, <1>7, <1>8, <1>9 DEF c

LEMMA SuccessLoop ==
    ASSUME LoopInv, Yield \/ (\E t \in HandOffs : HandOn(t)) \/ FinishTask
    PROVE  LoopInv'
PROOF
<1>1. Cleared /\ excused' \in SUBSET AgentPhases /\ loop'.pending \in HandOffs \cup {NoTask}
  <2>1. excused \in SUBSET AgentPhases /\ task.phase \in AgentPhases
    BY LoopTypes DEF LoopInv, AgentTypeOK, Task
  <2>2. CASE Yield
    BY <2>1, <2>2, YieldFacts
  <2>3. CASE \E t \in HandOffs : HandOn(t)
    BY <2>1, <2>3, HandOnFacts
  <2>4. CASE FinishTask
    BY <2>1, <2>4, FinishFacts
  <2> QED
    BY <2>2, <2>3, <2>4
<1>2. loop'.pending.id = "none" => loop'.pending = NoTask
  BY <1>1, Constants DEF HandOffs
<1>3. streak' \in [AgentPhases -> Nat]
  <2>1. apc = "judge" /\ Streak(0) /\ 0 \in Nat
    BY <1>1 DEF Cleared
  <2> QED
    BY <2>1, StreakType
<1> QED
  BY <1>1, <1>2, <1>3, JudgeLoop DEF Cleared

LEMMA SaveLoopInv ==
    ASSUME LoopInv, SaveLoop
    PROVE  LoopInv'
PROOF
<1>1. NoResults \in [AgentPhases -> ResultFile]
  BY Constants DEF NoResults, NoResult, ResultFile
<1>2. AgentTypeOK'
  BY <1>1 DEF SaveLoop, LoopInv, AgentTypeOK, ResultFile, inHand, agentHistory, agentBounds
<1> QED
  BY <1>2 DEF SaveLoop, LoopInv, LoopControl, IterationsLeft

LEMMA SaveMissionLoop ==
    ASSUME LoopInv, SaveMission
    PROVE  LoopInv'
PROOF
<1>1. AgentTypeOK'
  BY AppliedFacts
  DEF SaveMission, LoopInv, AgentTypeOK, loopFiles, inHand, agentHistory, agentBounds
<1> QED
  BY <1>1 DEF SaveMission, LoopInv, LoopControl, IterationsLeft, loopFiles

LEMMA ForgetLoop ==
    ASSUME LoopInv, NEW m \in Mission, Forget(m), UNCHANGED loopFile
    PROVE  /\ loop' \in AgentLoop /\ seen' \in Mission /\ task' \in Task
           /\ tries' \in 0..(MaxRetries + 1) /\ exited' \in BOOLEAN /\ latest' \in Outcome
           /\ stop' = "" /\ left' \in 0..MaxIterations /\ apc' = "idle"
           /\ LoopControl' /\ IterationsLeft'
PROOF
<1>1. 0 \in 0..(MaxRetries + 1) /\ 0 \in 0..MaxIterations
  BY Constants
<1> QED
  BY <1>1, LoopTypes, TaskTypes DEF Forget, Outcome, LoopInv, LoopControl, IterationsLeft

LEMMA ReturnLoop ==
    ASSUME LoopInv, ReturnToOuter
    PROVE  LoopInv'
PROOF
<1>1. stop \in {"completed", "blocked", "max-iterations", "raised"}
  BY DEF ReturnToOuter, LoopInv, AgentTypeOK, LoopControl
<1>2. ExecutorStatus \in {"completed", "blocked", "max-iterations", "raised"}
  BY <1>1 DEF ExecutorStatus
<1>3. Settled(ExecutorStatus) \in ActionState
  BY <1>2 DEF Settled, ActionState
<1>4. given.phase \in AgentPhases /\ excused \in SUBSET AgentPhases
  BY DEF LoopInv, AgentTypeOK
<1>5. mission' \in Mission
  <2>1. Upsert(mission.actions, given.phase, Settled(ExecutorStatus)) \in Seq(Item)
    BY <1>3, <1>4, LoopTypes, UpsertFacts
  <2> QED
    BY <2>1, LoopTypes DEF Mission, Item, ReturnToOuter
<1>6. Forget(mission') /\ UNCHANGED loopFile
  BY DEF ReturnToOuter, loopFiles
<1>7. excused' \in SUBSET AgentPhases
  BY <1>4 DEF ReturnToOuter
<1>8. returned' \in {"", "completed", "blocked", "max-iterations", "raised", "died"}
  BY <1>2 DEF ReturnToOuter
<1>9. AgentTypeOK'
  BY <1>5, <1>6, <1>7, <1>8, ForgetLoop
  DEF ReturnToOuter, LoopInv, AgentTypeOK, loopFiles, agentBounds
<1> QED
  BY <1>5, <1>6, <1>9, ForgetLoop DEF LoopInv

LEMMA CrashLoop ==
    ASSUME LoopInv, AgentCrash
    PROVE  LoopInv'
PROOF
<1>1. mission \in Mission /\ Forget(mission) /\ UNCHANGED loopFile
  BY LoopTypes DEF AgentCrash
<1>2. task.phase \in AgentPhases
  BY LoopTypes DEF Task
<1>3. strays' \in SUBSET AgentPhases /\ excused' \in SUBSET AgentPhases
  BY <1>2 DEF AgentCrash, LoopInv, AgentTypeOK
<1>4. uncounted' \in Nat
  BY OneMore, LoopNumbers DEF AgentCrash
<1>5. agentTroubles' \in Nat
  <2>1. agentTroubles' = agentTroubles + 1 /\ agentTroubles \in Nat
    BY DEF AgentCrash, LoopInv, AgentTypeOK
  <2> QED
    BY <2>1
<1>6. AgentTypeOK'
  BY <1>1, <1>3, <1>4, <1>5, ForgetLoop DEF AgentCrash, LoopInv, AgentTypeOK
<1> QED
  BY <1>1, <1>6, ForgetLoop DEF LoopInv

LEMMA StrayLoop ==
    ASSUME LoopInv, NEW p \in AgentPhases, StrayWrites(p)
    PROVE  LoopInv'
PROOF
<1>1. results' \in [AgentPhases -> ResultFile]
  <2>1. PICK o \in Payload : results' = [results EXCEPT ![p] = [is |-> o, by |-> "earlier"]]
    BY Constants DEF StrayWrites
  <2>2. [is |-> o, by |-> "earlier"] \in ResultFile
    BY <2>1 DEF ResultFile
  <2> QED
    BY <2>1, <2>2 DEF LoopInv, AgentTypeOK, ResultFile
<1>2. strays' \in SUBSET AgentPhases
  BY DEF StrayWrites, LoopInv, AgentTypeOK
<1>3. AgentTypeOK'
  BY <1>1, <1>2
  DEF StrayWrites, LoopInv, AgentTypeOK, ResultFile, inMemory, inHand, agentHistory, agentBounds
<1> QED
  BY <1>3 DEF StrayWrites, LoopInv, LoopControl, IterationsLeft, inMemory, inHand

LEMMA LoopUnchanged ==
    ASSUME LoopInv, UNCHANGED agentVars
    PROVE  LoopInv'
PROOF
<1>1. AgentTypeOK'
  BY DEF LoopInv, AgentTypeOK, agentVars
<1>2. LoopControl' /\ IterationsLeft'
  BY DEF LoopInv, LoopControl, IterationsLeft, agentVars
<1> QED
  BY <1>1, <1>2 DEF LoopInv

LEMMA NextLoop == LoopInv /\ [AgentNext]_agentVars => LoopInv'
PROOF
<1> SUFFICES ASSUME LoopInv, [AgentNext]_agentVars
             PROVE  LoopInv'
  OBVIOUS
<1>1. CASE \E p \in AgentPhases : Dispatch(p)
  BY <1>1, CallLoop
<1>2. CASE AgentStep
  <2>1. CASE TakePending \/ TakeListed \/ TakeInitial
    BY <2>1, TakeLoop
  <2>2. CASE FindNothing
    BY <2>2, FindNothingLoop
  <2>3. CASE ExhaustBudget \/ AgentExits \/ AgentTimesOut
    BY <2>3, RunLoop
  <2>4. CASE Fail
    BY <2>4, FailLoop
  <2>5. CASE Yield \/ (\E t \in HandOffs : HandOn(t)) \/ FinishTask
    BY <2>5, SuccessLoop
  <2>6. CASE SaveLoop
    BY <2>6, SaveLoopInv
  <2>7. CASE SaveMission
    BY <2>7, SaveMissionLoop
  <2>8. CASE ReturnToOuter
    BY <2>8, ReturnLoop
  <2> QED
    BY <1>2, <2>1, <2>2, <2>3, <2>4, <2>5, <2>6, <2>7, <2>8 DEF AgentStep
<1>3. CASE AgentCrash
  BY <1>3, CrashLoop
<1>4. CASE \E p \in AgentPhases : StrayWrites(p)
  BY <1>4, StrayLoop
<1>5. CASE UNCHANGED agentVars
  BY <1>5, LoopUnchanged
<1> QED
  BY <1>1, <1>2, <1>3, <1>4, <1>5 DEF AgentNext

LEMMA LoopInvariant == AgentSpec => []LoopInv
PROOF
  BY InitLoop, NextLoop, PTL DEF AgentSpec

\* The variables of the recursive agent loop keep their types, whatever agents
\* answer and whenever the process dies: in particular the iterations saved stay
\* within max_iterations over all dispatches and restarts, and the loop returns
\* with a status the outer loop knows.
THEOREM AgentTypeCorrect == AgentSpec => []AgentTypeOK
PROOF
<1>1. LoopInv => AgentTypeOK
  BY DEF LoopInv
<1> QED
  BY <1>1, LoopInvariant, PTL

----------------------------------------------------------------------------
(* The bounds on iterations and on failures in a row.                      *)

LEMMA CountTypes ==
    ASSUME LoopInv
    PROVE  /\ \A t \in Counted : loop.counts[t] \in Nat /\ loopFile.counts[t] \in Nat
           /\ \A p \in AgentPhases : streak[p] \in Nat /\ p \in Counted
           /\ Unsaved \in {0, 1} /\ (apc # "saveLoop" => Unsaved = 0)
PROOF
  BY LoopTypes, Constants DEF AgentLoop, LoopInv, AgentTypeOK, Unsaved

\* Steps that judge nothing: the loop goes on with what it holds or with what it
\* saved, and what it had not saved is lost.
LEMMA CarryCounts ==
    ASSUME LoopInv, CountsCover, loop' = loop \/ loop' = loopFile, loopFile' = loopFile,
           rounds' = rounds, streak' = streak,
           \/ uncounted' = uncounted + 1
           \/ uncounted' = uncounted /\ (apc # "saveLoop" \/ (loop' = loop /\ apc' = apc))
    PROVE  CountsCover'
PROOF
<1>1. Unsaved' \in {0, 1}
  BY DEF Unsaved
<1>2. \/ uncounted' = uncounted + 1
      \/ uncounted' = uncounted /\ Unsaved = 0
      \/ uncounted' = uncounted /\ loop' = loop /\ Unsaved' = Unsaved
  BY DEF Unsaved
<1>3. rounds' <= loop'.used + uncounted'
  BY <1>1, <1>2, LoopNumbers, CountTypes DEF CountsCover
<1>4. rounds' <= loopFile'.used + uncounted' + Unsaved'
  BY <1>1, <1>2, LoopNumbers, CountTypes DEF CountsCover
<1>5. ASSUME NEW p \in AgentPhases
      PROVE  /\ streak'[p] <= loop'.counts[p] + uncounted'
             /\ streak'[p] <= loopFile'.counts[p] + uncounted' + Unsaved'
  <2>1. /\ streak[p] \in Nat /\ loop.counts[p] \in Nat /\ loopFile.counts[p] \in Nat
        /\ streak[p] <= loop.counts[p] + uncounted
        /\ streak[p] <= loopFile.counts[p] + uncounted + Unsaved
        /\ Unsaved \in {0, 1} /\ uncounted \in Nat
    BY CountTypes, LoopNumbers DEF CountsCover
  <2> QED
    BY <1>1, <1>2, <2>1
<1>6. \A t \in Counted : loop'.counts[t] < MaxFailures /\ loopFile'.counts[t] < MaxFailures
  BY DEF CountsCover
<1> QED
  BY <1>3, <1>4, <1>5, <1>6 DEF CountsCover

\* A choice of a task: the failures of a dropped task are forgotten with it.
LEMMA SelectCounts ==
    ASSUME LoopInv, CountsCover, NEW t, NEW l \in AgentLoop, SelectTask(t, l),
           l.used = loop.used, loopFile' = loopFile,
           \/ KeepsPending /\ l = loop
           \/ ~KeepsPending /\ l.counts = DropPending(loop).counts
    PROVE  CountsCover'
PROOF
<1>1. /\ apc = "select" /\ loop' = l /\ rounds' = rounds /\ uncounted' = uncounted
      /\ streak' = IF ~KeepsPending /\ loop.pending.id \in AgentPhases
                     THEN [streak EXCEPT ![loop.pending.id] = 0] ELSE streak
  BY DEF SelectTask, Select
<1>2. Unsaved = 0 /\ Unsaved' \in {0, 1}
  BY <1>1 DEF Unsaved
<1>3. rounds' <= loop'.used + uncounted' /\ rounds' <= loopFile'.used + uncounted' + Unsaved'
  BY <1>1, <1>2, LoopNumbers DEF CountsCover
<1>4. ASSUME NEW k \in Counted
      PROVE  /\ loop'.counts[k] \in {0, loop.counts[k]}
             /\ loop'.counts[k] # loop.counts[k] => ~KeepsPending /\ k = loop.pending.id
  BY <1>1, DroppedType
<1>5. ASSUME NEW p \in AgentPhases
      PROVE  /\ streak'[p] <= loop'.counts[p] + uncounted'
             /\ streak'[p] <= loopFile'.counts[p] + uncounted' + Unsaved'
  <2>1. /\ streak[p] \in Nat /\ loop.counts[p] \in Nat /\ loopFile.counts[p] \in Nat
        /\ streak[p] <= loop.counts[p] + uncounted
        /\ streak[p] <= loopFile.counts[p] + uncounted
        /\ uncounted \in Nat /\ p \in Counted
    BY <1>2, CountTypes, LoopNumbers DEF CountsCover
  <2>2. loop'.counts[p] \in Nat
    BY <1>4, <2>1
  <2>3. streak'[p] = IF ~KeepsPending /\ p = loop.pending.id THEN 0 ELSE streak[p]
    BY <1>1 DEF LoopInv, AgentTypeOK
  <2>4. CASE ~KeepsPending /\ p = loop.pending.id
    BY <1>1, <1>2, <2>1, <2>2, <2>3, <2>4
  <2>5. CASE ~(~KeepsPending /\ p = loop.pending.id)
    <3>1. loop'.counts[p] = loop.counts[p] /\ streak'[p] = streak[p]
      BY <1>4, <2>1, <2>3, <2>5
    <3> QED
      BY <1>1, <1>2, <2>1, <3>1
  <2> QED
    BY <2>4, <2>5
<1>6. ASSUME NEW k \in Counted
      PROVE  loop'.counts[k] < MaxFailures /\ loopFile'.counts[k] < MaxFailures
  BY <1>4, Constants DEF CountsCover
<1> QED
  BY <1>3, <1>5, <1>6 DEF CountsCover

\* A judged iteration.
LEMMA JudgeCounts ==
    ASSUME LoopInv, CountsCover, apc = "judge", loop'.used = loop.used + 1,
           JudgeAs(loop', stop'),
           \A t \in Counted : loop'.counts[t] \in Nat /\ loop'.counts[t] < MaxFailures,
           \A p \in AgentPhases :
             \/ streak'[p] = 0
             \/ streak'[p] = streak[p] + 1 /\ loop'.counts[p] = loop.counts[p] + 1
             \/ streak'[p] = streak[p] /\ loop'.counts[p] = loop.counts[p]
    PROVE  CountsCover'
PROOF
<1>1. /\ rounds' = rounds + 1 /\ uncounted' = uncounted /\ loopFile' = loopFile
      /\ Unsaved = 0 /\ Unsaved' = 1
  BY DEF JudgeAs, Unsaved
<1>2. rounds' <= loop'.used + uncounted' /\ rounds' <= loopFile'.used + uncounted' + Unsaved'
  <2>1. rounds <= loop.used + uncounted /\ rounds <= loopFile.used + uncounted
    BY <1>1, LoopNumbers DEF CountsCover
  <2> QED
    BY <1>1, <2>1, LoopNumbers
<1>3. ASSUME NEW p \in AgentPhases
      PROVE  /\ streak'[p] <= loop'.counts[p] + uncounted'
             /\ streak'[p] <= loopFile'.counts[p] + uncounted' + Unsaved'
  <2>1. /\ streak[p] \in Nat /\ loop.counts[p] \in Nat /\ loopFile.counts[p] \in Nat
        /\ streak[p] <= loop.counts[p] + uncounted
        /\ streak[p] <= loopFile.counts[p] + uncounted
        /\ uncounted \in Nat /\ p \in Counted
    BY <1>1, CountTypes, LoopNumbers DEF CountsCover
  <2>2. loop'.counts[p] \in Nat
    BY <2>1
  <2>3. \/ streak'[p] = 0
        \/ streak'[p] = streak[p] + 1 /\ loop'.counts[p] = loop.counts[p] + 1
        \/ streak'[p] = streak[p] /\ loop'.counts[p] = loop.counts[p]
    OBVIOUS
  <2> QED
    BY <1>1, <2>1, <2>2, <2>3
<1>4. \A t \in Counted : loop'.counts[t] < MaxFailures /\ loopFile'.counts[t] < MaxFailures
  BY <1>1 DEF CountsCover
<1> QED
  BY <1>2, <1>3, <1>4 DEF CountsCover

LEMMA FailCounts ==
    ASSUME LoopInv, CountsCover, Fail
    PROVE  CountsCover'
PROOF
<1>1. /\ apc = "judge" /\ task.id \in Counted /\ loop.counts[task.id] \in Nat
      /\ \A t \in Counted : loop'.counts[t] =
           IF t = task.id THEN IF Trips THEN 0 ELSE loop.counts[task.id] + 1
           ELSE loop.counts[t]
  BY FailFacts, TaskCounted
<1>2. ~Trips => loop.counts[task.id] + 1 < MaxFailures
  <2>1. ~Trips => ~(loop.counts[task.id] + 1 >= MaxFailures)
    BY DEF Trips
  <2> QED
    BY <1>1, <2>1, Constants
<1>3. ASSUME NEW t \in Counted
      PROVE  loop'.counts[t] \in Nat /\ loop'.counts[t] < MaxFailures
  <2>1. loop.counts[t] \in Nat /\ loop.counts[t] < MaxFailures
    BY CountTypes DEF CountsCover
  <2> QED
    BY <1>1, <1>2, <2>1, Constants
<1>4. ASSUME NEW p \in AgentPhases
      PROVE  \/ streak'[p] = 0
             \/ streak'[p] = streak[p] + 1 /\ loop'.counts[p] = loop.counts[p] + 1
             \/ streak'[p] = streak[p] /\ loop'.counts[p] = loop.counts[p]
  <2>1. p \in Counted /\ streak \in [AgentPhases -> Nat]
    BY Constants DEF LoopInv, AgentTypeOK
  <2>2. CASE Trips
    <3>1. streak' = IF task.id \in AgentPhases THEN [streak EXCEPT ![task.id] = 0] ELSE streak
      BY <2>2 DEF Fail, Streak
    <3> QED
      BY <1>1, <2>1, <2>2, <3>1
  <2>3. CASE ~Trips
    <3>1. streak' = IF task.id \in AgentPhases
                      THEN [streak EXCEPT ![task.id] = streak[task.id] + 1] ELSE streak
      BY <2>3 DEF Fail, Streak
    <3> QED
      BY <1>1, <2>1, <2>3, <3>1
  <2> QED
    BY <2>2, <2>3
<1>5. loop'.used = loop.used + 1 /\ JudgeAs(loop', stop')
  BY FailFacts
<1> QED
  BY <1>1, <1>3, <1>4, <1>5, JudgeCounts

LEMMA SuccessCounts ==
    ASSUME LoopInv, CountsCover, Cleared
    PROVE  CountsCover'
PROOF
<1>1. ASSUME NEW t \in Counted
      PROVE  loop'.counts[t] \in Nat /\ loop'.counts[t] < MaxFailures
  <2>1. loop.counts[t] \in Nat /\ loop.counts[t] < MaxFailures /\ 0 < MaxFailures
    BY CountTypes, Constants DEF CountsCover
  <2>2. loop'.counts[t] = 0 \/ loop'.counts[t] = loop.counts[t]
    BY DEF Cleared
  <2> QED
    BY <2>1, <2>2
<1>2. ASSUME NEW p \in AgentPhases
      PROVE  \/ streak'[p] = 0
             \/ streak'[p] = streak[p] + 1 /\ loop'.counts[p] = loop.counts[p] + 1
             \/ streak'[p] = streak[p] /\ loop'.counts[p] = loop.counts[p]
  <2>1. streak' = IF task.id \in AgentPhases THEN [streak EXCEPT ![task.id] = 0] ELSE streak
    BY DEF Cleared, Streak
  <2>2. streak \in [AgentPhases -> Nat] /\ (p # task.id => loop'.counts[p] = loop.counts[p])
    BY DEF Cleared, LoopInv, AgentTypeOK
  <2> QED
    BY <2>1, <2>2
<1> QED
  BY <1>1, <1>2, JudgeCounts DEF Cleared

LEMMA InitCounts == AgentInit => CountsCover
PROOF
<1> SUFFICES ASSUME AgentInit
             PROVE  CountsCover
  OBVIOUS
<1>1. /\ loop = Fresh /\ loopFile = Fresh /\ rounds = 0 /\ uncounted = 0
      /\ Unsaved = 0 /\ streak = [p \in AgentPhases |-> 0]
  BY DEF AgentInit, Unsaved
<1>2. Fresh.used = 0 /\ \A t \in Counted : Fresh.counts[t] = 0
  BY DEF Fresh
<1>3. 0 <= 0 + 0 /\ 0 <= 0 + 0 + 0 /\ 0 < MaxFailures
  BY Constants
<1>4. \A p \in AgentPhases : streak[p] = 0 /\ p \in Counted
  BY <1>1, Constants
<1> QED
  BY <1>1, <1>2, <1>3, <1>4 DEF CountsCover

LEMMA TakeCounts ==
    ASSUME LoopInv, CountsCover, TakePending \/ TakeListed \/ TakeInitial \/ FindNothing
    PROVE  CountsCover'
PROOF
<1>1. loopFile' = loopFile
  BY DEF TakePending, TakeListed, TakeInitial, FindNothing, StartIteration, loopFiles
<1>2. CASE TakePending
  <2>1. SelectTask([loop.pending EXCEPT !.index = 0], loop) /\ KeepsPending
    BY <1>2 DEF TakePending
  <2> QED
    BY <1>1, <2>1, LoopTypes, SelectCounts
<1>3. CASE TakeListed
  <2> DEFINE i == Chosen(mission.actions, loop.cursor)
             t == [phase |-> mission.actions[i].phase, id |-> mission.actions[i].phase,
                   listed |-> TRUE, index |-> i]
             l == [DropPending(loop) EXCEPT !.cursor = i]
  <2>1. ~KeepsPending /\ i # 0 /\ SelectTask(t, l)
    BY <1>3 DEF TakeListed
  <2>2. i \in Nat \ {0}
    BY <2>1, LoopTypes, LoopNumbers, ChosenFacts, LenProperties
  <2>3. l \in AgentLoop /\ l.used = loop.used /\ l.counts = DropPending(loop).counts
    BY <2>2, PastType
  <2> HIDE DEF i, t, l
  <2> QED
    BY <1>1, <2>1, <2>3, SelectCounts
<1>4. /\ PastTheList \in AgentLoop /\ PastTheList.used = loop.used
      /\ PastTheList.counts = DropPending(loop).counts
  <2>1. CursorAfter(mission.actions, loop.cursor) \in Nat \ {0}
    BY LoopTypes, LoopNumbers, CursorAfterType
  <2> QED
    BY <2>1, PastType DEF PastTheList
<1>5. CASE TakeInitial
  <2> DEFINE t == [NoTask EXCEPT !.phase = mission.phase, !.id = "initial"]
             l == [PastTheList EXCEPT !.initialDone = TRUE]
  <2>1. ~KeepsPending /\ SelectTask(t, l)
    BY <1>5 DEF TakeInitial, NoneListed
  <2>2. l \in AgentLoop /\ l.used = loop.used /\ l.counts = DropPending(loop).counts
    BY <1>4 DEF AgentLoop
  <2> HIDE DEF t, l
  <2> QED
    BY <1>1, <2>1, <2>2, SelectCounts
<1>6. CASE FindNothing
  <2> DEFINE t == [NoTask EXCEPT !.phase = mission.phase]
  <2>1. ~KeepsPending /\ SelectTask(t, PastTheList)
    BY <1>6 DEF FindNothing, NoneListed
  <2> HIDE DEF t
  <2> QED
    BY <1>1, <1>4, <2>1, SelectCounts
<1> QED
  BY <1>2, <1>3, <1>5, <1>6

LEMMA SaveLoopCounts ==
    ASSUME LoopInv, CountsCover, SaveLoop
    PROVE  CountsCover'
PROOF
<1>1. /\ loopFile' = loop /\ loop' = loop /\ rounds' = rounds /\ uncounted' = uncounted
      /\ streak' = streak /\ Unsaved' = 0
  BY DEF SaveLoop, agentHistory, Unsaved
<1>2. rounds <= loop.used + uncounted + 0
  BY LoopNumbers DEF CountsCover
<1>3. ASSUME NEW p \in AgentPhases
      PROVE  streak[p] <= loop.counts[p] + uncounted + 0
  <2>1. streak[p] <= loop.counts[p] + uncounted /\ loop.counts[p] \in Nat /\ uncounted \in Nat
    BY CountTypes, LoopNumbers DEF CountsCover
  <2> QED
    BY <2>1
<1> QED
  BY <1>1, <1>2, <1>3 DEF CountsCover

LEMMA CarriedCounts ==
    ASSUME LoopInv, CountsCover,
           \/ \E p \in AgentPhases : Dispatch(p)
           \/ ExhaustBudget \/ AgentExits \/ AgentTimesOut \/ SaveMission
           \/ ReturnToOuter \/ AgentCrash
           \/ \E p \in AgentPhases : StrayWrites(p)
           \/ UNCHANGED agentVars
    PROVE  CountsCover'
PROOF
<1>1. loopFile' = loopFile /\ rounds' = rounds /\ streak' = streak
  BY DEF Dispatch, Call, ExhaustBudget, AgentExits, AgentTimesOut, SaveMission, ReturnToOuter,
     AgentCrash, StrayWrites, loopFiles, agentHistory, agentVars
<1>2. loop' = loop \/ loop' = loopFile
  BY DEF Dispatch, Call, ExhaustBudget, AgentExits, AgentTimesOut, SaveMission, ReturnToOuter,
     AgentCrash, StrayWrites, inMemory, Forget, agentVars
<1>3. \/ uncounted' = uncounted + 1
      \/ uncounted' = uncounted /\ (apc # "saveLoop" \/ (loop' = loop /\ apc' = apc))
  <2>1. CASE AgentCrash
    <3>1. uncounted' = IF apc \in {"run", "judge", "saveLoop"} THEN uncounted + 1 ELSE uncounted
      BY <2>1 DEF AgentCrash
    <3>2. \/ uncounted' = uncounted + 1
          \/ uncounted' = uncounted /\ apc # "saveLoop"
      BY <3>1
    <3> QED
      BY <3>2, Zenon
  <2>2. CASE \E p \in AgentPhases : Dispatch(p)
    <3>1. apc # "saveLoop" /\ uncounted' = uncounted
      BY <2>2 DEF Dispatch, Call
    <3> QED
      BY <3>1, Zenon
  <2>3. CASE ExhaustBudget \/ AgentExits \/ SaveMission
    <3>1. apc # "saveLoop" /\ uncounted' = uncounted
      BY <2>3 DEF ExhaustBudget, AgentExits, SaveMission, agentHistory
    <3> QED
      BY <3>1, Zenon
  <2>4. CASE AgentTimesOut
    BY <2>4, Zenon DEF AgentTimesOut
  <2>5. CASE ReturnToOuter
    <3>1. apc # "saveLoop" /\ uncounted' = uncounted
      BY <2>5 DEF ReturnToOuter
    <3> QED
      BY <3>1, Zenon
  <2>6. CASE \E p \in AgentPhases : StrayWrites(p)
    BY <2>6 DEF StrayWrites, agentHistory, inMemory
  <2>7. CASE UNCHANGED agentVars
    BY <2>7 DEF agentVars
  <2> QED
    BY <2>1, <2>2, <2>3, <2>4, <2>5, <2>6, <2>7
<1> QED
  BY <1>1, <1>2, <1>3, CarryCounts

LEMMA NextCounts == LoopInv /\ CountsCover /\ [AgentNext]_agentVars => CountsCover'
PROOF
<1> SUFFICES ASSUME LoopInv, CountsCover, [AgentNext]_agentVars
             PROVE  CountsCover'
  OBVIOUS
<1>1. CASE Fail
  BY <1>1, FailCounts
<1>2. CASE Yield \/ (\E t \in HandOffs : HandOn(t)) \/ FinishTask
  BY <1>2, YieldFacts, HandOnFacts, FinishFacts, SuccessCounts
<1>3. CASE SaveLoop
  BY <1>3, SaveLoopCounts
<1>4. CASE TakePending \/ TakeListed \/ TakeInitial \/ FindNothing
  BY <1>4, TakeCounts
<1> QED
  BY <1>1, <1>2, <1>3, <1>4, CarriedCounts DEF AgentNext, AgentStep

\* The agents run for a mission are bounded by max_iterations over all its
\* dispatches and restarts, and the failures in a row of an action by
\* max_consecutive_failures, up to the iterations a crash or an exception kept from
\* being saved: the counts in memory and in the file each cover what was judged, the
\* file but for the iteration that is about to be saved.
THEOREM AgentBoundsHold == AgentSpec => []AgentIsBounded
PROOF
<1>1. LoopInv /\ CountsCover => AgentIsBounded
  <2> SUFFICES ASSUME LoopInv, CountsCover
               PROVE  AgentIsBounded
    OBVIOUS
  <2>1. rounds <= MaxIterations + uncounted
    BY LoopNumbers DEF CountsCover
  <2>2. ASSUME NEW p \in AgentPhases
        PROVE  streak[p] < MaxFailures + uncounted
    <3>1. /\ streak[p] \in Nat /\ loop.counts[p] \in Nat /\ uncounted \in Nat
          /\ streak[p] <= loop.counts[p] + uncounted
          /\ loop.counts[p] < MaxFailures /\ MaxFailures \in Nat
      BY CountTypes, LoopNumbers, Constants DEF CountsCover
    <3> QED
      BY <3>1
  <2> QED
    BY <2>1, <2>2 DEF AgentIsBounded
<1>2. AgentSpec => []CountsCover
  BY InitCounts, NextCounts, LoopInvariant, PTL DEF AgentSpec
<1> QED
  BY <1>1, <1>2, LoopInvariant, PTL

----------------------------------------------------------------------------
(* Whose result an iteration counts as.                                    *)

LEMMA ResultTypes ==
    ASSUME LoopInv
    PROVE  /\ results \in [AgentPhases -> ResultFile] /\ task.phase \in AgentPhases
           /\ \A p \in AgentPhases : results[p].by \in {"nobody", "earlier", "this"}
PROOF
<1>1. results \in [AgentPhases -> ResultFile] /\ task.phase \in AgentPhases
  BY LoopTypes DEF LoopInv, AgentTypeOK, ResultFile, Task
<1> QED
  BY <1>1 DEF ResultFile

LEMMA WrittenBackBy ==
    ASSUME LoopInv, WriteBack, NEW p \in AgentPhases
    PROVE  results'[p].by =
             IF p = task.phase /\ results[p].by = "nobody" THEN "this" ELSE results[p].by
PROOF
  BY ResultTypes DEF WriteBack

LEMMA JudgeOwn ==
    ASSUME LoopInv, FilesAreOwn, apc = "judge", JudgeAs(loop', stop')
    PROVE  FilesAreOwn'
PROOF
<1>1. WriteBack /\ strays' = strays /\ uncounted' = uncounted /\ apc' = "saveLoop"
  BY DEF JudgeAs
<1>2. ASSUME uncounted = 0, NEW p \in AgentPhases
      PROVE  results'[p].by # "earlier"
  BY <1>1, <1>2, WrittenBackBy DEF FilesAreOwn
<1> QED
  BY <1>1, <1>2 DEF FilesAreOwn

LEMMA StartOwn ==
    ASSUME LoopInv, FilesAreOwn, TakePending \/ TakeListed \/ TakeInitial
    PROVE  FilesAreOwn'
PROOF
<1>1. /\ apc = "select" /\ apc' = "run" /\ strays' = strays /\ uncounted' = uncounted
      /\ StartIteration
  BY DEF TakePending, TakeListed, TakeInitial, StartIteration, SelectTask, Select
<1>2. ASSUME uncounted = 0, NEW p \in AgentPhases
      PROVE  results'[p].by # "earlier"
  <2>1. results[p].by = "nobody"
    BY <1>1, <1>2 DEF FilesAreOwn
  <2> QED
    BY <1>1, <2>1 DEF StartIteration
<1> QED
  BY <1>1, <1>2 DEF FilesAreOwn

LEMMA ExitOwn ==
    ASSUME LoopInv, FilesAreOwn, AgentExits
    PROVE  FilesAreOwn'
PROOF
<1>1. /\ apc = "run" /\ apc' \in {"run", "judge"}
      /\ strays' = strays /\ uncounted' = uncounted
  BY DEF AgentExits, agentHistory
<1>2. ASSUME uncounted = 0, NEW p \in AgentPhases
      PROVE  results'[p].by # "earlier"
  <2>1. results[p].by # "earlier"
    BY <1>2 DEF FilesAreOwn
  <2>2. CASE UNCHANGED results
    BY <2>1, <2>2
  <2>3. CASE \E o \in Payloads : results' = [results EXCEPT ![task.phase] = [is |-> o, by |-> "this"]]
    BY <2>1, <2>3, ResultTypes
  <2> QED
    BY <2>2, <2>3 DEF AgentExits
<1> QED
  BY <1>1, <1>2 DEF FilesAreOwn

LEMMA LostOwn ==
    ASSUME LoopInv, uncounted' = uncounted + 1
    PROVE  FilesAreOwn'
PROOF
  BY LoopNumbers DEF FilesAreOwn

LEMMA RestOwn ==
    ASSUME LoopInv, FilesAreOwn,
           \/ \E p \in AgentPhases : Dispatch(p)
           \/ FindNothing \/ ExhaustBudget \/ SaveLoop \/ SaveMission \/ ReturnToOuter
           \/ AgentCrash
           \/ \E p \in AgentPhases : StrayWrites(p)
           \/ UNCHANGED agentVars
    PROVE  FilesAreOwn'
PROOF
<1>1. CASE AgentCrash
  <2>1. CASE apc \in {"run", "judge", "saveLoop"}
    BY <1>1, <2>1, LostOwn DEF AgentCrash
  <2>2. CASE apc \notin {"run", "judge", "saveLoop"}
    BY <1>1, <2>2 DEF AgentCrash, Forget, FilesAreOwn
  <2> QED
    BY <2>1, <2>2
<1>2. CASE \E p \in AgentPhases : Dispatch(p)
  BY <1>2 DEF Dispatch, Call, FilesAreOwn, loopFiles
<1>3. CASE FindNothing
  BY <1>3 DEF FindNothing, SelectTask, Select, FilesAreOwn, loopFiles
<1>4. CASE ExhaustBudget
  BY <1>4 DEF ExhaustBudget, FilesAreOwn, loopFiles, agentHistory
<1>5. CASE SaveLoop
  BY <1>5 DEF SaveLoop, FilesAreOwn, NoResults, NoResult
<1>6. CASE SaveMission
  BY <1>6 DEF SaveMission, FilesAreOwn, loopFiles, agentHistory
<1>7. CASE ReturnToOuter
  BY <1>7 DEF ReturnToOuter, Forget, FilesAreOwn, loopFiles
<1>8. CASE \E p \in AgentPhases : StrayWrites(p)
  BY <1>8 DEF StrayWrites, FilesAreOwn, agentHistory
<1>9. CASE UNCHANGED agentVars
  BY <1>9 DEF FilesAreOwn, agentVars
<1> QED
  BY <1>1, <1>2, <1>3, <1>4, <1>5, <1>6, <1>7, <1>8, <1>9

\* The steps that judge an iteration.
Judged == Fail \/ Yield \/ (\E t \in HandOffs : HandOn(t)) \/ FinishTask

LEMMA JudgedAs ==
    ASSUME LoopInv, Judged
    PROVE  apc = "judge" /\ JudgeAs(loop', stop')
PROOF
<1>1. CASE Fail
  BY <1>1, FailFacts
<1>2. CASE Yield
  BY <1>2, YieldFacts DEF Cleared
<1>3. CASE \E t \in HandOffs : HandOn(t)
  BY <1>3, HandOnFacts DEF Cleared
<1>4. CASE FinishTask
  BY <1>4, FinishFacts DEF Cleared
<1> QED
  BY <1>1, <1>2, <1>3, <1>4 DEF Judged

LEMMA NextOwn == LoopInv /\ FilesAreOwn /\ [AgentNext]_agentVars => FilesAreOwn'
PROOF
<1> SUFFICES ASSUME LoopInv, FilesAreOwn, [AgentNext]_agentVars
             PROVE  FilesAreOwn'
  OBVIOUS
<1>1. CASE Judged
  BY <1>1, JudgedAs, JudgeOwn
<1>2. CASE TakePending \/ TakeListed \/ TakeInitial
  BY <1>2, StartOwn
<1>3. CASE AgentExits
  BY <1>3, ExitOwn
<1>4. CASE AgentTimesOut
  BY <1>4, LostOwn DEF AgentTimesOut
<1> QED
  BY <1>1, <1>2, <1>3, <1>4, RestOwn DEF AgentNext, AgentStep, Judged

\* Only a judged iteration adds to the rounds.
LEMMA RoundsAreJudged ==
    ASSUME LoopInv, [AgentNext]_agentVars, rounds' # rounds
    PROVE  Judged
PROOF
<1>2. TakePending \/ TakeListed \/ TakeInitial \/ FindNothing => rounds' = rounds
  BY DEF TakePending, TakeListed, TakeInitial, FindNothing, SelectTask, Select
<1>3. ExhaustBudget \/ AgentExits \/ AgentTimesOut \/ SaveLoop \/ SaveMission => rounds' = rounds
  BY DEF ExhaustBudget, AgentExits, AgentTimesOut, SaveLoop, SaveMission, agentHistory
<1>4. ReturnToOuter \/ AgentCrash => rounds' = rounds
  BY DEF ReturnToOuter, AgentCrash
<1>5. (\E p \in AgentPhases : StrayWrites(p)) => rounds' = rounds
  BY DEF StrayWrites, agentHistory
<1>6. UNCHANGED agentVars => rounds' = rounds
  BY DEF agentVars
<1>1. (\E p \in AgentPhases : Dispatch(p)) => rounds' = rounds
  BY DEF Dispatch, Call
<1> QED
  BY <1>1, <1>2, <1>3, <1>4, <1>5, <1>6 DEF AgentNext, AgentStep, Judged

\* A result that counts as a success was written in the same iteration: a file that
\* was there before is accepted only once a crash or an exception made the iteration
\* number be used again. Until then no agent of a dead runtime is left to write, the
\* files an iteration starts with are nobody's, and what it finds it wrote.
THEOREM SuccessIsOwn == AgentSpec => FreshResult
PROOF
<1>1. LoopInv /\ FilesAreOwn /\ [AgentNext]_agentVars =>
        (rounds' # rounds /\ exited /\ latest'.says \in {"continue", "complete"} =>
           results'[task.phase].by = "this" \/ uncounted > 0)
  <2> SUFFICES ASSUME LoopInv, FilesAreOwn, [AgentNext]_agentVars, rounds' # rounds,
                      uncounted = 0
               PROVE  results'[task.phase].by = "this"
    BY LoopNumbers
  <2>1. WriteBack /\ apc = "judge"
    BY RoundsAreJudged, JudgedAs DEF JudgeAs
  <2>2. results[task.phase].by \in {"nobody", "this"}
    BY ResultTypes DEF FilesAreOwn
  <2> QED
    BY <2>1, <2>2, ResultTypes, WrittenBackBy
<1>2. AgentInit => FilesAreOwn
  <2>1. \A p \in AgentPhases : NoResults[p].by = "nobody"
    BY DEF NoResults, NoResult
  <2> QED
    BY <2>1 DEF AgentInit, FilesAreOwn
<1>3. AgentSpec => []FilesAreOwn
  BY <1>2, NextOwn, LoopInvariant, PTL DEF AgentSpec
<1> QED
  BY <1>1, <1>3, LoopInvariant, PTL DEF AgentSpec, FreshResult

----------------------------------------------------------------------------
(* A dispatch works on its action first.                                   *)

\* A choice at a dispatch's first choice takes the action it was made for.
LEMMA FirstTake ==
    ASSUME LoopInv, FirstChoice, apc = "select", given.first, given.left > 0, ~given.served
    PROVE  /\ left > 0 /\ mission.phase = given.phase
           /\ Chosen(mission.actions, loop.cursor) # 0
           /\ mission.actions[Chosen(mission.actions, loop.cursor)].phase = given.phase
           /\ KeepsPending => loop.pending.id = given.phase
PROOF
<1>1. /\ left = given.left /\ mission.phase = given.phase
      /\ At(mission.actions, given.phase) # 0
      /\ Chosen(mission.actions, loop.cursor) = At(mission.actions, given.phase)
  BY DEF FirstChoice
<1>2. mission.actions[At(mission.actions, given.phase)].phase = given.phase
  BY <1>1, LoopTypes, AtFacts
<1> QED
  BY <1>1, <1>2 DEF KeepsPending

LEMMA CallFirst ==
    ASSUME LoopInv, NEW p \in AgentPhases, Dispatch(p)
    PROVE  FirstChoice'
PROOF
<1>1. mission'.actions = Upsert(mission.actions, p, "in_progress") /\ mission'.phase = p
  BY LoopTypes DEF Dispatch, Call, Mission
<1>2. At(mission'.actions, p) # 0
  BY <1>1, LoopTypes, UpsertFacts DEF ActionState
<1>3. /\ apc' = "select" /\ loop' = loopFile
      /\ given' = [phase |-> p, left |-> left', served |-> FALSE,
                   first |-> Chosen(mission'.actions, loopFile.cursor) = At(mission'.actions, p)]
  BY DEF Dispatch, Call
<1> QED
  BY <1>1, <1>2, <1>3 DEF FirstChoice

LEMMA TakeFirst ==
    ASSUME LoopInv, FirstChoice, TakePending \/ TakeListed \/ TakeInitial \/ FindNothing
    PROVE  FirstChoice'
PROOF
<1>1. apc = "select"
  BY DEF TakePending, TakeListed, TakeInitial, FindNothing, SelectTask, Select
<1>2. CASE ~(given.first /\ given.left > 0 /\ ~given.served)
  <2>1. given'.first = given.first /\ given'.left = given.left /\ (given.served => given'.served)
    <3>1. CASE FindNothing
      BY <3>1 DEF FindNothing
    <3>2. CASE TakePending \/ TakeListed \/ TakeInitial
      <4>1. given' = [given EXCEPT !.served = @ \/ task'.id = given.phase]
        BY <3>2 DEF TakePending, TakeListed, TakeInitial, StartIteration
      <4>2. given \in [phase : AgentPhases, left : 0..MaxIterations, first : BOOLEAN,
                       served : BOOLEAN]
        BY DEF LoopInv, AgentTypeOK
      <4> QED
        BY <4>1, <4>2
    <3> QED
      BY <3>1, <3>2
  <2> QED
    BY <1>2, <2>1 DEF FirstChoice
<1>3. CASE given.first /\ given.left > 0 /\ ~given.served
  <2>1. /\ Chosen(mission.actions, loop.cursor) # 0
        /\ mission.actions[Chosen(mission.actions, loop.cursor)].phase = given.phase
        /\ KeepsPending => loop.pending.id = given.phase
    BY <1>1, <1>3, FirstTake
  <2>2. ~TakeInitial /\ ~FindNothing
    BY <2>1 DEF TakeInitial, FindNothing, NoneListed
  <2>3. task'.id = given.phase
    <3>1. CASE TakePending
      BY <2>1, <3>1, LoopTypes DEF TakePending, SelectTask, Select, AgentLoop, Task
    <3>2. CASE TakeListed
      BY <2>1, <3>2 DEF TakeListed, SelectTask, Select
    <3> QED
      BY <2>2, <3>1, <3>2
  <2>4. given' = [given EXCEPT !.served = @ \/ task'.id = given.phase]
    BY <2>2 DEF TakePending, TakeListed, StartIteration
  <2>5. given \in [phase : AgentPhases, left : 0..MaxIterations, first : BOOLEAN, served : BOOLEAN]
    BY DEF LoopInv, AgentTypeOK
  <2>6. given'.served
    BY <2>3, <2>4, <2>5
  <2> QED
    BY <2>6 DEF FirstChoice
<1> QED
  BY <1>2, <1>3

LEMMA NextFirst == LoopInv /\ FirstChoice /\ [AgentNext]_agentVars => FirstChoice'
PROOF
<1> SUFFICES ASSUME LoopInv, FirstChoice, [AgentNext]_agentVars
             PROVE  FirstChoice'
  OBVIOUS
<1>1. CASE \E p \in AgentPhases : Dispatch(p)
  BY <1>1, CallFirst
<1>2. CASE TakePending \/ TakeListed \/ TakeInitial \/ FindNothing
  BY <1>2, TakeFirst
<1>3. CASE ExhaustBudget
  <2>1. apc = "select" /\ left = 0 /\ given' = given
    BY <1>3 DEF ExhaustBudget
  <2>2. ~(given.first /\ given.left > 0 /\ ~given.served)
    <3>1. ~(left > 0)
      BY <2>1
    <3> QED
      BY <2>1, <3>1, FirstTake
  <2> QED
    BY <2>1, <2>2 DEF FirstChoice
<1>4. CASE \/ AgentExits \/ AgentTimesOut \/ Judged \/ SaveLoop \/ SaveMission
  <2>1. apc \notin {"idle", "select"} /\ given' = given
    BY <1>4, JudgedAs DEF AgentExits, AgentTimesOut, SaveLoop, SaveMission, JudgeAs
  <2>2. ~(given.first /\ given.left > 0 /\ ~given.served)
    BY <2>1 DEF FirstChoice
  <2> QED
    BY <2>1, <2>2 DEF FirstChoice
<1>5. CASE ReturnToOuter \/ AgentCrash
  BY <1>5 DEF ReturnToOuter, AgentCrash, Forget, FirstChoice
<1>6. CASE \E p \in AgentPhases : StrayWrites(p)
  BY <1>6 DEF StrayWrites, inMemory, FirstChoice
<1>7. CASE UNCHANGED agentVars
  BY <1>7 DEF agentVars, FirstChoice
<1> QED
  BY <1>1, <1>2, <1>3, <1>4, <1>5, <1>6, <1>7 DEF AgentNext, AgentStep, Judged

----------------------------------------------------------------------------
(* Which actions are passed by.                                            *)

ServeInv == ListInv /\ CursorInv

\* The actions keep their places.
SamePlaces(a, b) ==
    /\ Len(a) <= Len(b)
    /\ \A i \in DOMAIN a : i \in DOMAIN b /\ b[i].phase = a[i].phase

LEMMA AtStays ==
    ASSUME NEW a \in Seq(Item), NEW b \in Seq(Item), SamePlaces(a, b), Distinct(b),
           NEW p, At(a, p) # 0
    PROVE  At(b, p) = At(a, p)
PROOF
<1>1. At(a, p) \in DOMAIN a /\ a[At(a, p)].phase = p
  BY AtFacts
<1>2. At(a, p) \in DOMAIN b /\ b[At(a, p)].phase = p
  BY <1>1 DEF SamePlaces
<1> QED
  BY <1>2, AtOfIndex

LEMMA UpsertDistinct ==
    ASSUME NEW a \in Seq(Item), Distinct(a), NEW p \in AgentPhases, NEW s \in ActionState
    PROVE  SamePlaces(a, Upsert(a, p, s)) /\ Distinct(Upsert(a, p, s))
PROOF
<1> DEFINE u == Upsert(a, p, s)
<1>1. SamePlaces(a, u)
  BY UpsertFacts DEF SamePlaces
<1>2. DOMAIN a = 1..Len(a) /\ Len(a) \in Nat
  BY LenProperties
<1>3. \A i \in DOMAIN u :
        \/ i \in DOMAIN a /\ u[i].phase = a[i].phase
        \/ At(a, p) = 0 /\ i = Len(a) + 1 /\ u[i].phase = p
  <2>1. At(a, p) \in 0..Len(a) /\ (At(a, p) # 0 => At(a, p) \in DOMAIN a /\ a[At(a, p)].phase = p)
    BY AtFacts
  <2>2. 0 \notin DOMAIN u
    <3>1. u \in Seq(Item)
      BY UpsertFacts
    <3> QED
      BY <3>1, LenProperties
  <2>3. \A i \in DOMAIN u :
          \/ i \in DOMAIN a /\ u[i] = a[i]
          \/ i = At(a, p) /\ u[i] = [phase |-> p, status |-> s]
          \/ At(a, p) = 0 /\ i = Len(a) + 1 /\ u[i] = [phase |-> p, status |-> s]
    BY UpsertFacts
  <2> HIDE DEF u
  <2> QED
    BY <2>1, <2>2, <2>3
<1>4. At(a, p) = 0 => \A i \in DOMAIN a : a[i].phase # p
  BY AtFacts
<1> HIDE DEF u
<1>5. Distinct(u)
  BY <1>3, <1>4 DEF Distinct
<1> QED
  BY <1>1, <1>5 DEF u

\* A task stays in reach while the list keeps its places.
LEMMA ReachStays ==
    ASSUME LoopInv, LoopInv', SamePlaces(mission.actions, mission'.actions),
           Distinct(mission'.actions), excused \subseteq excused',
           NEW t, NEW c \in Nat \ {0}, InReach(t, c), t.id \in AgentPhases
    PROVE  t.phase = t.id /\ (t.id \in excused' \/ c <= At(mission'.actions, t.id))
PROOF
<1>1. t.phase = t.id /\ (t.id \in excused \/ c <= At(mission.actions, t.id))
  BY DEF InReach
<1>2. mission.actions \in Seq(Item) /\ mission'.actions \in Seq(Item)
  <2>1. mission' \in Mission
    BY DEF LoopInv, AgentTypeOK
  <2> QED
    BY <2>1, LoopTypes DEF Mission, Item
<1>3. CASE t.id \in excused
  BY <1>1, <1>3
<1>4. CASE c <= At(mission.actions, t.id)
  <2>1. At(mission.actions, t.id) # 0
    BY <1>4
  <2>2. At(mission'.actions, t.id) = At(mission.actions, t.id)
    BY <1>2, <2>1, AtStays
  <2> QED
    BY <1>1, <1>4, <2>2
<1> QED
  BY <1>1, <1>3, <1>4

LEMMA ListTypes ==
    ASSUME LoopInv
    PROVE  /\ mission.actions \in Seq(Item)
           /\ DOMAIN mission.actions = 1..Len(mission.actions)
           /\ Len(mission.actions) \in Nat
           /\ \A i \in DOMAIN mission.actions :
                mission.actions[i].phase \in AgentPhases /\ mission.actions[i].status \in ActionState
           /\ \A p : At(mission.actions, p) \in 0..Len(mission.actions)
           /\ \A p : At(mission.actions, p) # 0 =>
                At(mission.actions, p) \in DOMAIN mission.actions
                /\ mission.actions[At(mission.actions, p)].phase = p
PROOF
<1>1. mission.actions \in Seq(Item)
  BY LoopTypes
<1>2. DOMAIN mission.actions = 1..Len(mission.actions) /\ Len(mission.actions) \in Nat
  BY <1>1, LenProperties
<1>3. \A i \in DOMAIN mission.actions : mission.actions[i] \in Item
  BY <1>1, <1>2, ElementOfSeq
<1> QED
  BY <1>1, <1>2, <1>3, AtFacts DEF Item

LEMMA TypesAfter ==
    ASSUME LoopInv'
    PROVE  /\ mission'.actions \in Seq(Item)
           /\ DOMAIN mission'.actions = 1..Len(mission'.actions)
           /\ Len(mission'.actions) \in Nat
           /\ loop'.cursor \in Nat \ {0} /\ loopFile'.cursor \in Nat \ {0}
PROOF
<1>1. mission' \in Mission /\ loop' \in AgentLoop /\ loopFile' \in AgentLoop
  BY DEF LoopInv, AgentTypeOK
<1>2. mission'.actions \in Seq(Item)
  BY <1>1 DEF Mission, Item
<1> QED
  BY <1>1, <1>2, LenProperties DEF AgentLoop

\* Steps that keep the places of the list and choose and judge nothing.
LEMMA MovedList ==
    ASSUME LoopInv, LoopInv', ListInv,
           SamePlaces(mission.actions, mission'.actions), Distinct(mission'.actions),
           seen' = mission', excused \subseteq excused',
           loop' = loop \/ loop' = loopFile, loopFile' = loopFile \/ loopFile' = loop,
           task' = task \/ task' = NoTask
    PROVE  ListInv'
PROOF
<1>1. loop'.cursor <= Len(mission'.actions) + 1 /\ loopFile'.cursor <= Len(mission'.actions) + 1
  <2>1. /\ loop.cursor <= Len(mission.actions) + 1 /\ loopFile.cursor <= Len(mission.actions) + 1
        /\ Len(mission.actions) <= Len(mission'.actions)
    BY DEF ListInv, SamePlaces
  <2>2. /\ loop.cursor \in Nat /\ loopFile.cursor \in Nat
        /\ Len(mission.actions) \in Nat /\ Len(mission'.actions) \in Nat
    BY LoopNumbers, ListTypes, TypesAfter
  <2>3. /\ loop.cursor <= Len(mission'.actions) + 1
        /\ loopFile.cursor <= Len(mission'.actions) + 1
    BY <2>1, <2>2
  <2> QED
    BY <2>3
<1>2. ASSUME loop.pending.id \in AgentPhases
      PROVE  /\ loop.pending.phase = loop.pending.id
             /\ \/ loop.pending.id \in excused'
                \/ loop.cursor <= At(mission'.actions, loop.pending.id)
  BY <1>2, LoopNumbers, ReachStays DEF ListInv
<1>3. ASSUME loopFile.pending.id \in AgentPhases
      PROVE  /\ loopFile.pending.phase = loopFile.pending.id
             /\ \/ loopFile.pending.id \in excused'
                \/ loopFile.cursor <= At(mission'.actions, loopFile.pending.id)
  BY <1>3, LoopNumbers, ReachStays DEF ListInv
<1>4. InReach(loop.pending, loop.cursor)'
  BY <1>2, <1>3 DEF InReach
<1>5. InReach(loopFile.pending, loopFile.cursor)'
  BY <1>2, <1>3 DEF InReach
<1>6. task'.id \in AgentPhases => task'.phase = task'.id
  BY Constants DEF ListInv, NoTask
<1> QED
  BY <1>1, <1>4, <1>5, <1>6 DEF ListInv

LEMMA SamePlacesSame ==
    ASSUME LoopInv, mission' = mission
    PROVE  SamePlaces(mission.actions, mission'.actions)
PROOF
  BY ListTypes DEF SamePlaces

LEMMA AppliedPlaces ==
    ASSUME LoopInv, ListInv
    PROVE  SamePlaces(mission.actions, Applied.actions) /\ Distinct(Applied.actions)
PROOF
<1>1. /\ Len(Applied.actions) = Len(mission.actions)
      /\ \A i \in DOMAIN mission.actions :
           i \in DOMAIN Applied.actions /\ Applied.actions[i].phase = mission.actions[i].phase
  BY AppliedFacts DEF ListInv
<1>2. DOMAIN Applied.actions = DOMAIN mission.actions
  <2>1. Applied.actions \in Seq(Item)
    BY AppliedFacts DEF Mission, Item
  <2> QED
    BY <1>1, <2>1, ListTypes, LenProperties
<1>3. Len(mission.actions) <= Len(Applied.actions)
  BY <1>1, ListTypes
<1> QED
  BY <1>1, <1>2, <1>3 DEF SamePlaces, Distinct, ListInv

\* What is passed by stays so in a list that keeps its places, and in which an
\* action passed by is opened again only with an excuse.
LEMMA PassedStays ==
    ASSUME NEW a, NEW b, NEW c, PassedBy(a, c, {}),
           \A i \in DOMAIN b : i < c /\ b[i].status \notin Skipped =>
             \/ i \in DOMAIN a /\ b[i].phase = a[i].phase /\ a[i].status \notin Skipped
             \/ b[i].phase \in excused',
           excused \subseteq excused'
    PROVE  \A i \in DOMAIN b : i < c /\ b[i].status \notin Skipped => b[i].phase \in excused'
PROOF
  BY DEF PassedBy

LEMMA UpsertedAction ==
    ASSUME NEW a \in Seq(Item), NEW p \in AgentPhases, NEW s \in ActionState,
           NEW b, b = Upsert(a, p, s), NEW i \in DOMAIN b
    PROVE  \/ i \in DOMAIN a /\ b[i] = a[i]
           \/ i = At(a, p) /\ b[i] = [phase |-> p, status |-> s]
           \/ At(a, p) = 0 /\ i = Len(a) + 1
PROOF
  BY UpsertFacts

LEMMA CallServe ==
    ASSUME LoopInv, LoopInv', ServeInv, NEW p \in AgentPhases, Dispatch(p)
    PROVE  ServeInv'
PROOF
<1> DEFINE a == mission.actions
           b == mission'.actions
<1>1. /\ apc = "idle" /\ apc' = "select" /\ seen' = mission' /\ loop' = loopFile
      /\ loopFile' = loopFile /\ task' = NoTask /\ latest' = Nothing
      /\ excused' = IF At(a, p) = 0 THEN excused ELSE excused \cup {p}
  BY DEF Dispatch, Call, loopFiles
<1>2. b = Upsert(a, p, "in_progress")
  BY LoopTypes DEF Dispatch, Call, Mission
<1>3. SamePlaces(a, b) /\ Distinct(b)
  BY <1>2, LoopTypes, UpsertDistinct DEF ActionState, ServeInv, ListInv
<1>4. excused \subseteq excused'
  BY <1>1
<1>5. ListInv'
  BY <1>1, <1>3, <1>4, MovedList DEF ServeInv
<1>6. ASSUME NEW i \in DOMAIN b, i < loopFile.cursor, b[i].status \notin Skipped
      PROVE  \/ i \in DOMAIN a /\ b[i].phase = a[i].phase /\ a[i].status \notin Skipped
             \/ b[i].phase \in excused'
  <2>1. \/ i \in DOMAIN a /\ b[i] = a[i]
        \/ i = At(a, p) /\ b[i] = [phase |-> p, status |-> "in_progress"]
        \/ At(a, p) = 0 /\ i = Len(a) + 1
    <3>1. "in_progress" \in ActionState
      BY DEF ActionState
    <3> QED
      BY <1>2, <3>1, LoopTypes, UpsertedAction
  <2>2. i \in Nat \ {0} /\ i # Len(a) + 1
    <3>1. loopFile.cursor <= Len(a) + 1
      BY DEF ServeInv, ListInv
    <3>2. i \in Nat \ {0}
      BY TypesAfter
    <3> QED
      BY <1>6, <3>1, <3>2, LoopNumbers, ListTypes
  <2> QED
    BY <1>1, <1>6, <2>1, <2>2
<1>7. PassedBy(a, loopFile.cursor, {})
  BY <1>1 DEF ServeInv, CursorInv
<1>8. \A i \in DOMAIN b : i < loopFile.cursor /\ b[i].status \notin Skipped => b[i].phase \in excused'
  BY <1>4, <1>6, <1>7, PassedStays
<1>9. CursorInv'
  BY <1>1, <1>8 DEF CursorInv, PassedBy
<1> QED
  BY <1>5, <1>9 DEF ServeInv

LEMMA ReturnServe ==
    ASSUME LoopInv, LoopInv', ServeInv, ReturnToOuter
    PROVE  ServeInv'
PROOF
<1> DEFINE a == mission.actions
           b == mission'.actions
           p == given.phase
           s == Settled(ExecutorStatus)
<1>1. /\ apc = "return" /\ apc' = "idle" /\ seen' = mission' /\ loop' = loopFile
      /\ loopFile' = loopFile /\ task' = NoTask
      /\ excused' = IF ExecutorStatus = "max-iterations" THEN excused \cup {p} ELSE excused
  BY DEF ReturnToOuter, Forget, loopFiles
<1>2. b = Upsert(a, p, s)
  BY LoopTypes DEF ReturnToOuter, Mission
<1>3. s \in ActionState /\ (s \notin Skipped => ExecutorStatus = "max-iterations")
  <2>1. stop \in {"completed", "blocked", "max-iterations", "raised"}
    BY <1>1 DEF LoopInv, AgentTypeOK, LoopControl
  <2>2. ExecutorStatus \in {"completed", "blocked", "max-iterations", "raised"}
    BY <2>1 DEF ExecutorStatus
  <2> QED
    BY <2>2 DEF Settled, ActionState, Skipped
<1>4. p \in AgentPhases
  BY DEF LoopInv, AgentTypeOK
<1>5. SamePlaces(a, b) /\ Distinct(b)
  BY <1>2, <1>3, <1>4, LoopTypes, UpsertDistinct DEF ServeInv, ListInv
<1>6. excused \subseteq excused'
  BY <1>1
<1>7. ListInv'
  BY <1>1, <1>5, <1>6, MovedList DEF ServeInv
<1>8. ASSUME NEW i \in DOMAIN b, i < loopFile.cursor, b[i].status \notin Skipped
      PROVE  \/ i \in DOMAIN a /\ b[i].phase = a[i].phase /\ a[i].status \notin Skipped
             \/ b[i].phase \in excused'
  <2>1. \/ i \in DOMAIN a /\ b[i] = a[i]
        \/ i = At(a, p) /\ b[i] = [phase |-> p, status |-> s]
        \/ At(a, p) = 0 /\ i = Len(a) + 1
    BY <1>2, <1>3, <1>4, LoopTypes, UpsertedAction
  <2>2. i # Len(a) + 1
    <3>1. loopFile.cursor <= Len(a) + 1
      BY DEF ServeInv, ListInv
    <3>2. i \in Nat \ {0}
      BY TypesAfter
    <3> QED
      BY <1>8, <3>1, <3>2, LoopNumbers, ListTypes
  <2> QED
    BY <1>1, <1>3, <1>8, <2>1, <2>2
<1>9. PassedBy(a, loopFile.cursor, {})
  BY <1>1 DEF ServeInv, CursorInv
<1>10. \A i \in DOMAIN b : i < loopFile.cursor /\ b[i].status \notin Skipped => b[i].phase \in excused'
  BY <1>6, <1>8, <1>9, PassedStays
<1>11. CursorInv'
  BY <1>1, <1>10 DEF CursorInv, PassedBy
<1> QED
  BY <1>7, <1>11 DEF ServeInv

\* The cursor a choice leaves has passed only excused actions.
LEMMA PassedAfter ==
    ASSUME LoopInv, ServeInv, apc = "select"
    PROVE  /\ CursorAfter(mission.actions, loop.cursor) <= Len(mission.actions) + 1
           /\ PassedBy(mission.actions, CursorAfter(mission.actions, loop.cursor), {})
PROOF
<1> DEFINE a == mission.actions
           c == CursorAfter(a, loop.cursor)
<1>1. a \in Seq(Item) /\ loop.cursor \in Nat \ {0} /\ loop.cursor <= Len(a) + 1
  BY ListTypes, LoopNumbers DEF ServeInv, ListInv
<1>2. /\ c \in Nat \ {0} /\ c <= Len(a) + 1
      /\ \A i \in DOMAIN a : loop.cursor <= i /\ i < c => a[i].status \in Skipped
  BY <1>1, CursorAfterFacts
<1>3. \A i \in DOMAIN a : i < loop.cursor \/ loop.cursor <= i
  BY <1>1, ListTypes
<1>4. PassedBy(a, loop.cursor, {})
  BY DEF ServeInv, CursorInv
<1> HIDE DEF c
<1>5. PassedBy(a, c, {})
  BY <1>2, <1>3, <1>4 DEF PassedBy
<1> QED
  BY <1>2, <1>5 DEF c

\* A choice of a task from the list, or past it.
LEMMA SelectServe ==
    ASSUME LoopInv, LoopInv', ServeInv, apc = "select", NEW t \in Task, NEW l \in AgentLoop,
           SelectTask(t, l), mission' = mission, loopFile' = loopFile, apc' = "run",
           l.cursor <= Len(mission.actions) + 1, PassedBy(mission.actions, l.cursor, {}),
           l.pending.id \in AgentPhases =>
             l.pending.phase = l.pending.id
             /\ (l.pending.id \in excused \/ l.cursor <= At(mission.actions, l.pending.id)),
           t.id \in AgentPhases =>
             t.phase = t.id /\ (t.id \in excused \/ l.cursor <= At(mission.actions, t.id)),
           t.index # 0 =>
             /\ t.index = l.cursor /\ t.index \in DOMAIN mission.actions
             /\ t.id = mission.actions[t.index].phase
    PROVE  ServeInv'
PROOF
<1>1. seen' = mission' /\ task' = t /\ loop' = l /\ excused' = excused
  BY DEF SelectTask, Select
<1>2. ListInv'
  BY <1>1 DEF ServeInv, ListInv, InReach
<1>3. CursorInv'
  BY <1>1 DEF ServeInv, CursorInv, PassedBy, InReach
<1> QED
  BY <1>2, <1>3 DEF ServeInv

LEMMA TakeServe ==
    ASSUME LoopInv, LoopInv', ServeInv, TakePending \/ TakeListed \/ TakeInitial
    PROVE  ServeInv'
PROOF
<1> DEFINE a == mission.actions
<1>1. /\ apc = "select" /\ apc' = "run" /\ mission' = mission /\ loopFile' = loopFile
  BY DEF TakePending, TakeListed, TakeInitial, StartIteration, SelectTask, Select, loopFiles
<1>2. CASE TakePending
  <2> DEFINE t == [loop.pending EXCEPT !.index = 0]
  <2>1. SelectTask(t, loop)
    BY <1>2 DEF TakePending
  <2>2. loop.pending \in Task /\ loop \in AgentLoop
    BY LoopTypes DEF AgentLoop
  <2>3. t \in Task /\ t.id = loop.pending.id /\ t.phase = loop.pending.phase /\ t.index = 0
    BY <2>2, TaskTypes DEF Task
  <2>4. /\ loop.cursor <= Len(a) + 1 /\ PassedBy(a, loop.cursor, {})
        /\ InReach(loop.pending, loop.cursor)
    BY <1>1 DEF ServeInv, ListInv, CursorInv
  <2> HIDE DEF t
  <2> QED
    BY <1>1, <2>1, <2>2, <2>3, <2>4, SelectServe DEF InReach
<1>3. NoTask.id \notin AgentPhases
  BY Constants DEF NoTask
<1>4. CASE TakeListed
  <2> DEFINE i == Chosen(a, loop.cursor)
             t == [phase |-> a[i].phase, id |-> a[i].phase, listed |-> TRUE, index |-> i]
             l == [DropPending(loop) EXCEPT !.cursor = i]
  <2>1. i # 0 /\ SelectTask(t, l)
    BY <1>4 DEF TakeListed
  <2>2. i \in DOMAIN a /\ i \in Nat \ {0}
    BY <2>1, ListTypes, LoopNumbers, ChosenFacts
  <2>3. a[i].phase \in AgentPhases
    BY <2>2, ListTypes
  <2>4. l \in AgentLoop /\ l.cursor = i /\ l.pending = NoTask
    BY <2>2, PastType
  <2>5. CursorAfter(a, loop.cursor) = i
    <3>1. loop.cursor <= Len(a) + 1
      BY DEF ServeInv, ListInv
    <3> QED
      BY <2>1, <3>1, ListTypes, LoopNumbers, CursorAfterFacts
  <2>6. At(a, a[i].phase) = i
    BY <2>2, ListTypes, AtOfIndex DEF ServeInv, ListInv
  <2>7. t \in Task
    BY <2>2, <2>3 DEF Task
  <2>8. /\ t.id = a[i].phase /\ t.phase = a[i].phase /\ t.index = i
    OBVIOUS
  <2>9. i <= i
    BY <2>2
  <2>10. i <= Len(a) + 1 /\ PassedBy(a, i, {})
    BY <1>1, <2>5, PassedAfter
  <2> HIDE DEF i, t, l
  <2> QED
    BY <1>1, <1>3, <2>1, <2>2, <2>4, <2>6, <2>7, <2>8, <2>9, <2>10, SelectServe
<1>5. CASE TakeInitial
  <2> DEFINE t == [NoTask EXCEPT !.phase = mission.phase, !.id = "initial"]
             l == [PastTheList EXCEPT !.initialDone = TRUE]
             c == CursorAfter(a, loop.cursor)
  <2>1. SelectTask(t, l)
    BY <1>5 DEF TakeInitial
  <2>2. c \in Nat \ {0}
    BY LoopTypes, LoopNumbers, CursorAfterType
  <2>3. PastTheList \in AgentLoop /\ PastTheList.cursor = c /\ PastTheList.pending = NoTask
    BY <2>2, PastType DEF PastTheList
  <2>4. l \in AgentLoop /\ l.cursor = c /\ l.pending = NoTask
    BY <2>3 DEF AgentLoop
  <2>5. t \in Task /\ t.id \notin AgentPhases /\ t.index = 0
    BY LoopTypes, TaskTypes, Constants DEF NoTask
  <2>6. c <= Len(a) + 1 /\ PassedBy(a, c, {})
    BY <1>1, PassedAfter
  <2> HIDE DEF t, l, c
  <2> QED
    BY <1>1, <1>3, <2>1, <2>4, <2>5, <2>6, SelectServe
<1> QED
  BY <1>2, <1>4, <1>5

\* What the save will write, in terms of the list before it.
AppliedIs ==
    /\ DOMAIN Applied.actions = DOMAIN mission.actions
    /\ \A i \in DOMAIN mission.actions :
         /\ Applied.actions[i].phase = mission.actions[i].phase
         /\ Applied.actions[i].status =
              IF latest # Nothing /\ i = At(mission.actions, task.id) THEN Effective
              ELSE mission.actions[i].status

LEMMA AppliedActions == LoopInv /\ ListInv => AppliedIs
PROOF
<1> SUFFICES ASSUME LoopInv, ListInv
             PROVE  AppliedIs
  OBVIOUS
<1>1. seen = mission
  BY DEF ListInv
<1>2. Applied.actions \in Seq(Item) /\ Len(Applied.actions) = Len(mission.actions)
  BY <1>1, AppliedFacts DEF Mission, Item
<1>3. DOMAIN Applied.actions = DOMAIN mission.actions
  BY <1>2, ListTypes, LenProperties
<1> QED
  BY <1>1, <1>3, AppliedFacts DEF AppliedIs

LEMMA AppliedAfter == (LoopInv /\ ListInv => AppliedIs)'
PROOF
  BY AppliedActions, PTL

LEMMA SavedNext ==
    ASSUME LoopInv', ListInv', mission' = mission
    PROVE  /\ DOMAIN Applied'.actions = DOMAIN mission.actions
           /\ \A i \in DOMAIN mission.actions :
                /\ Applied'.actions[i].phase = mission.actions[i].phase
                /\ Applied'.actions[i].status =
                     IF latest' # Nothing /\ i = At(mission.actions, task'.id) THEN Effective'
                     ELSE mission.actions[i].status
PROOF
  BY AppliedAfter DEF AppliedIs

\* A loop that stops before an iteration saves the list as it is.
LEMMA StopServe ==
    ASSUME LoopInv, LoopInv', ServeInv, FindNothing \/ ExhaustBudget
    PROVE  ServeInv'
PROOF
<1> DEFINE a == mission.actions
           c == CursorAfter(a, loop.cursor)
<1>1. /\ apc = "select" /\ apc' = "saveLoop" /\ mission' = mission /\ loopFile' = loopFile
      /\ excused' = excused /\ seen' = mission
  BY DEF FindNothing, ExhaustBudget, SelectTask, Select, loopFiles, agentHistory, ServeInv, ListInv
<1>2. PassedBy(a, loopFile.cursor, {}) /\ PassedBy(a, loop.cursor, {})
  BY <1>1 DEF ServeInv, CursorInv
<1>3. loop'.cursor <= Len(a) + 1 /\ PassedBy(a, loop'.cursor, {}) /\ ListInv'
  <2>1. CASE FindNothing
    <3>1. c \in Nat \ {0}
      BY LoopTypes, LoopNumbers, CursorAfterType
    <3>2. PastTheList.cursor = c /\ PastTheList.pending = NoTask
      BY <3>1, PastType DEF PastTheList
    <3>3. loop' = PastTheList /\ task' = [NoTask EXCEPT !.phase = mission.phase]
      BY <2>1 DEF FindNothing, SelectTask, Select
    <3>4. task'.id \notin AgentPhases /\ NoTask.id \notin AgentPhases
      BY <3>3, Constants DEF NoTask
    <3>5. c <= Len(a) + 1 /\ PassedBy(a, c, {})
      BY <1>1, PassedAfter
    <3> HIDE DEF c
    <3>6. ListInv'
      BY <1>1, <3>2, <3>3, <3>4, <3>5 DEF ServeInv, ListInv, InReach
    <3> QED
      BY <3>2, <3>3, <3>5, <3>6
  <2>2. CASE ExhaustBudget
    <3>1. loop' = loop /\ task' = task
      BY <2>2 DEF ExhaustBudget, inHand
    <3> QED
      BY <1>1, <1>2, <3>1 DEF ServeInv, ListInv, InReach
  <2> QED
    BY <2>1, <2>2
<1>4. /\ DOMAIN Applied'.actions = DOMAIN a
      /\ \A i \in DOMAIN a : /\ Applied'.actions[i].phase = a[i].phase
                             /\ Applied'.actions[i].status = a[i].status
  <2>1. CASE FindNothing
    <3>1. task'.id = "none"
      BY <2>1 DEF FindNothing, SelectTask, Select, NoTask
    <3>2. At(a, "none") = 0
      <4>1. \A i \in DOMAIN a : a[i].phase # "none"
        BY ListTypes, Constants
      <4> QED
        BY <4>1, ListTypes
    <3>3. 0 \notin DOMAIN a
      BY ListTypes
    <3> QED
      BY <1>1, <1>3, <3>1, <3>2, <3>3, SavedNext
  <2>2. CASE ExhaustBudget
    <3>1. latest' = latest /\ task' = task /\ stop' = "max-iterations"
      BY <2>2 DEF ExhaustBudget, inHand
    <3>2. Effective' = latest.result
      BY <3>1 DEF Effective
    <3>3. ASSUME latest # Nothing, NEW i \in DOMAIN a, i = At(a, task.id)
          PROVE  a[i].status = latest.result
      <4>1. At(a, task.id) # 0
        BY <3>3, ListTypes
      <4> QED
        BY <1>1, <3>3, <4>1 DEF ServeInv, CursorInv
    <3> QED
      BY <1>1, <1>3, <3>1, <3>2, <3>3, SavedNext
  <2> QED
    BY <2>1, <2>2
<1>5. CursorInv'
  BY <1>1, <1>2, <1>3, <1>4 DEF CursorInv, PassedBy
<1> QED
  BY <1>3, <1>5 DEF ServeInv

LEMMA StillList ==
    ASSUME LoopInv, LoopInv', ListInv, mission' = mission, seen' = seen,
           excused \subseteq excused',
           loop' = loop \/ loop' = loopFile, loopFile' = loopFile \/ loopFile' = loop,
           task' = task \/ task' = NoTask
    PROVE  ListInv'
PROOF
<1>1. SamePlaces(mission.actions, mission'.actions) /\ Distinct(mission'.actions)
  BY SamePlacesSame DEF ListInv
<1> QED
  BY <1>1, MovedList DEF ListInv

LEMMA RunServe ==
    ASSUME LoopInv, LoopInv', ServeInv,
           \/ AgentExits \/ AgentTimesOut
           \/ \E p \in AgentPhases : StrayWrites(p)
           \/ UNCHANGED agentVars
    PROVE  ServeInv'
PROOF
<1>1. /\ mission' = mission /\ seen' = seen /\ excused' = excused /\ loop' = loop
      /\ loopFile' = loopFile /\ task' = task /\ latest' = latest
  BY DEF AgentExits, AgentTimesOut, StrayWrites, loopFiles, inHand, inMemory, agentHistory, agentVars
<1>2. ListInv'
  BY <1>1, StillList DEF ServeInv
<1>3. CASE AgentExits
  <2>1. apc = "run" /\ apc' \in {"run", "judge"}
    BY <1>3 DEF AgentExits
  <2> QED
    BY <1>1, <1>2, <2>1 DEF ServeInv, CursorInv, PassedBy, InReach
<1>4. CASE AgentTimesOut
  <2>1. apc = "run" /\ apc' = "return"
    BY <1>4 DEF AgentTimesOut
  <2> QED
    BY <1>1, <1>2, <2>1 DEF ServeInv, CursorInv, PassedBy
<1>5. CASE (\E p \in AgentPhases : StrayWrites(p)) \/ UNCHANGED agentVars
  <2>1. apc' = apc /\ stop' = stop
    BY <1>5 DEF StrayWrites, inMemory, agentVars
  <2>2. Applied' = Applied
    BY <1>1, <2>1 DEF Applied, PhaseAfter, Effective
  <2> QED
    BY <1>1, <1>2, <2>1, <2>2 DEF ServeInv, CursorInv, PassedBy, InReach
<1> QED
  BY <1>3, <1>4, <1>5

LEMMA ResultIsSome ==
    ASSUME LoopInv
    PROVE  Result # Nothing /\ Result.result \in {"completed", "in_progress", "blocked"}
PROOF
<1>1. Result \in Payload /\ Nothing.says = "nothing"
  BY ResultType DEF Nothing, NoPayload
<1> QED
  BY <1>1 DEF Payload

\* The cursor an iteration leaves passes nothing but its own task.
LEMMA JudgedCursor ==
    ASSUME LoopInv, ServeInv, Judged
    PROVE  \/ loop'.cursor = loop.cursor
           \/ /\ task.index # 0 /\ loop'.cursor = task.index + 1
              /\ stop' \in {"", "completed"}
              /\ Result.result = "in_progress" => task.phase \in excused'
PROOF
<1>1. CASE Fail
  BY <1>1, FailFacts
<1>2. CASE Yield
  BY <1>2, YieldFacts
<1>3. CASE \E t \in HandOffs : HandOn(t)
  BY <1>3, HandOnFacts
<1>4. CASE FinishTask
  <2>1. stop' \in {"", "completed"}
    BY <1>4, FinishFacts DEF Cleared
  <2> QED
    BY <1>4, <2>1, FinishFacts
<1> QED
  BY <1>1, <1>2, <1>3, <1>4 DEF Judged

LEMMA JudgedPending ==
    ASSUME LoopInv, ServeInv, Judged, apc = "judge"
    PROVE  /\ excused \subseteq excused'
           /\ loop'.pending.id \in AgentPhases =>
                /\ loop'.pending.phase = loop'.pending.id
                /\ \/ loop'.pending.id \in excused'
                   \/ /\ loop'.cursor = loop.cursor
                      /\ loop.cursor <= At(mission.actions, loop'.pending.id)
PROOF
<1>1. NoTask.id \notin AgentPhases
  BY Constants DEF NoTask
<1>2. CASE Fail
  <2>1. /\ loop'.pending = [task EXCEPT !.index = 0] /\ excused' = excused
        /\ loop'.cursor = loop.cursor
    BY <1>2, FailFacts
  <2>2. loop'.pending.id = task.id /\ loop'.pending.phase = task.phase
    BY <2>1, LoopTypes DEF Task
  <2>3. InReach(task, loop.cursor)
    BY DEF ServeInv, CursorInv
  <2> QED
    BY <2>1, <2>2, <2>3 DEF InReach
<1>3. CASE Yield
  BY <1>1, <1>3, YieldFacts
<1>4. CASE \E t \in HandOffs : HandOn(t)
  <2>1. PICK t \in HandOffs : HandOn(t)
    BY <1>4
  <2>2. /\ loop'.pending = t
        /\ excused' = IF t.id \in AgentPhases THEN excused \cup {t.id} ELSE excused
    BY <2>1, HandOnFacts
  <2>3. t.id = "hand-off" \/ t.id = t.phase
    BY <2>1 DEF HandOn, HandOnFrom, HandsOnTo
  <2> QED
    BY <2>2, <2>3, Constants
<1>5. CASE FinishTask
  BY <1>1, <1>5, FinishFacts
<1> QED
  BY <1>2, <1>3, <1>4, <1>5 DEF Judged

LEMMA JudgedServe ==
    ASSUME LoopInv, LoopInv', ServeInv, Judged
    PROVE  ServeInv'
PROOF
<1> DEFINE a == mission.actions
           k == At(a, task.id)
<1>1. /\ apc = "judge" /\ apc' = "saveLoop" /\ mission' = mission /\ seen' = seen
      /\ loopFile' = loopFile /\ task' = task /\ latest' = Result
  BY JudgedAs DEF JudgeAs, inHand
<1>2. /\ seen = mission /\ Distinct(a) /\ InReach(task, loop.cursor)
      /\ PassedBy(a, loop.cursor, {}) /\ PassedBy(a, loopFile.cursor, {})
      /\ loop.cursor <= Len(a) + 1
      /\ task.index # 0 => /\ task.index = loop.cursor /\ task.index \in DOMAIN a
                           /\ task.id = a[task.index].phase
      /\ task.id \in AgentPhases => task.phase = task.id
  BY <1>1 DEF ServeInv, ListInv, CursorInv
<1>3. excused \subseteq excused'
  BY <1>1, JudgedPending
<1>4. k \in 0..Len(a) /\ (k # 0 => k \in DOMAIN a /\ a[k].phase = task.id)
  BY ListTypes
<1>5. /\ loop.cursor \in Nat \ {0} /\ Len(a) \in Nat /\ DOMAIN a = 1..Len(a)
      /\ \A i \in DOMAIN a : a[i].phase \in AgentPhases
  BY ListTypes, LoopNumbers
<1>6. ListInv'
  <2>1. loop'.cursor <= Len(a) + 1
    <3>1. CASE loop'.cursor = loop.cursor
      BY <1>2, <3>1
    <3>2. CASE task.index # 0 /\ loop'.cursor = task.index + 1
      BY <1>2, <1>5, <3>2
    <3> QED
      BY <3>1, <3>2, JudgedCursor
  <2>2. InReach(loop.pending, loop.cursor)'
    BY <1>1, JudgedPending DEF InReach
  <2>3. InReach(loopFile.pending, loopFile.cursor)'
    BY <1>1, <1>3 DEF ServeInv, ListInv, InReach
  <2> QED
    BY <1>1, <1>2, <2>1, <2>2, <2>3 DEF ServeInv, ListInv
<1>7. /\ DOMAIN Applied'.actions = DOMAIN a
      /\ \A i \in DOMAIN a :
           /\ Applied'.actions[i].phase = a[i].phase
           /\ Applied'.actions[i].status = IF i = k THEN Effective' ELSE a[i].status
  BY <1>1, <1>6, ResultIsSome, SavedNext
<1>8. CASE loop'.cursor = loop.cursor
  <2>1. ASSUME NEW i \in DOMAIN a, i < loop.cursor,
               Applied'.actions[i].status \notin Skipped
        PROVE  a[i].phase \in excused'
    <3>1. CASE i = k
      <4>1. a[i].phase = task.id /\ task.id \in AgentPhases
        BY <1>4, <1>5, <3>1
      <4>2. ~(loop.cursor <= i)
        BY <1>5, <2>1
      <4> QED
        BY <1>2, <1>3, <3>1, <4>1, <4>2 DEF InReach
    <3>2. CASE i # k
      BY <1>2, <1>3, <1>7, <2>1, <3>2 DEF PassedBy
    <3> QED
      BY <3>1, <3>2
  <2> QED
    BY <1>1, <1>2, <1>3, <1>6, <1>7, <1>8, <2>1 DEF ServeInv, CursorInv, PassedBy
<1>9. CASE /\ task.index # 0 /\ loop'.cursor = task.index + 1
           /\ stop' \in {"", "completed"}
           /\ Result.result = "in_progress" => task.phase \in excused'
  <2> DEFINE n == task.index
  <2>1. /\ n = loop.cursor /\ n \in DOMAIN a /\ task.id = a[n].phase
        /\ n \in Nat /\ task.phase = a[n].phase
    BY <1>2, <1>5, <1>9
  <2>2. k = n
    BY <1>2, <2>1, ListTypes, AtOfIndex
  <2>3. Effective' = Result.result
    BY <1>1, <1>9 DEF Effective
  <2>4. ASSUME NEW i \in DOMAIN a, i < n + 1
        PROVE  (i < loop.cursor /\ i # n) \/ i = n
    BY <1>5, <2>1, <2>4
  <2>5. ASSUME NEW i \in DOMAIN a, i < n + 1, Applied'.actions[i].status \notin Skipped
        PROVE  a[i].phase \in excused'
    <3>1. CASE i = n
      <4>1. Applied'.actions[i].status = Result.result
        BY <1>7, <2>2, <2>3, <3>1
      <4>2. Result.result = "in_progress"
        BY <2>5, <4>1, ResultIsSome DEF Skipped
      <4> QED
        BY <1>9, <2>1, <3>1, <4>2
    <3>2. CASE i < loop.cursor /\ i # n
      BY <1>2, <1>3, <1>7, <2>2, <2>5, <3>2 DEF PassedBy
    <3> QED
      BY <2>4, <2>5, <3>1, <3>2
  <2>6. ASSUME NEW i \in DOMAIN a, i < n + 1, a[i].status \notin Skipped
        PROVE  a[i].phase \in excused' \cup {task.phase}
    BY <1>2, <1>3, <2>1, <2>4, <2>6 DEF PassedBy
  <2> HIDE DEF n
  <2> QED
    BY <1>1, <1>2, <1>3, <1>6, <1>7, <1>9, <2>5, <2>6 DEF ServeInv, CursorInv, PassedBy, n
<1> QED
  BY <1>8, <1>9, JudgedCursor

LEMMA SaveLoopServe ==
    ASSUME LoopInv, LoopInv', ServeInv, SaveLoop
    PROVE  ServeInv'
PROOF
<1>1. /\ apc = "saveLoop" /\ apc' = "saveMission" /\ mission' = mission /\ seen' = seen
      /\ excused' = excused /\ loop' = loop /\ loopFile' = loop /\ task' = task
      /\ latest' = latest /\ stop' = stop
  BY DEF SaveLoop, inHand, agentHistory
<1>2. ListInv'
  BY <1>1, StillList DEF ServeInv
<1>3. Applied' = Applied
  BY <1>1 DEF Applied, PhaseAfter, Effective
<1> QED
  BY <1>1, <1>2, <1>3 DEF ServeInv, CursorInv, PassedBy

LEMMA SaveMissionServe ==
    ASSUME LoopInv, LoopInv', ServeInv, SaveMission
    PROVE  ServeInv'
PROOF
<1> DEFINE a == mission.actions
           b == mission'.actions
<1>1. /\ apc = "saveMission" /\ apc' = (IF stop = "" THEN "select" ELSE "return")
      /\ mission' = Applied /\ seen' = mission'
      /\ excused' = excused /\ loop' = loop /\ loopFile' = loopFile /\ task' = task
      /\ latest' = latest /\ stop' = stop
  BY DEF SaveMission, loopFiles, inHand, agentHistory
<1>2. SamePlaces(a, b) /\ Distinct(b)
  BY <1>1, AppliedPlaces DEF ServeInv
<1>3. ListInv'
  BY <1>1, <1>2, MovedList DEF ServeInv
<1>4. loopFile = loop /\ PassedBy(b, loop.cursor, {})
  BY <1>1 DEF ServeInv, CursorInv
<1>5. ASSUME stop = "", latest # Nothing, At(b, task.id) # 0
      PROVE  b[At(b, task.id)].status = latest.result
  <2>1. /\ b \in Seq(Item) /\ DOMAIN b = DOMAIN a
        /\ \A i \in DOMAIN a : b[i].phase = a[i].phase
        /\ \A i \in DOMAIN a : b[i].status = IF i = At(a, task.id) THEN Effective ELSE a[i].status
    BY <1>1, <1>5, TypesAfter, AppliedActions DEF ServeInv, AppliedIs
  <2>2. At(b, task.id) \in DOMAIN a /\ b[At(b, task.id)].phase = task.id
    BY <1>5, <2>1, AtFacts
  <2>3. a[At(b, task.id)].phase = task.id
    BY <2>1, <2>2
  <2>4. At(a, task.id) = At(b, task.id)
    BY <2>2, <2>3, ListTypes, AtOfIndex DEF ServeInv, ListInv
  <2>5. Effective = latest.result
    BY <1>5 DEF Effective
  <2> QED
    BY <2>1, <2>2, <2>4, <2>5
<1> QED
  BY <1>1, <1>3, <1>4, <1>5 DEF ServeInv, CursorInv, PassedBy

LEMMA CrashServe ==
    ASSUME LoopInv, LoopInv', ServeInv, AgentCrash
    PROVE  ServeInv'
PROOF
<1>1. /\ apc' = "idle" /\ mission' = mission /\ seen' = mission /\ loop' = loopFile
      /\ loopFile' = loopFile /\ task' = NoTask
      /\ excused' = IF apc = "saveMission" THEN excused \cup {task.phase} ELSE excused
  BY DEF AgentCrash, Forget
<1>2. seen' = seen
  BY <1>1 DEF ServeInv, ListInv
<1>3. ListInv'
  BY <1>1, <1>2, StillList DEF ServeInv
<1>4. CursorInv'
  BY <1>1 DEF ServeInv, CursorInv, PassedBy
<1> QED
  BY <1>3, <1>4 DEF ServeInv

LEMMA InitServe == AgentInit => ServeInv
PROOF
<1> SUFFICES ASSUME AgentInit
             PROVE  ServeInv
  OBVIOUS
<1>1. /\ mission.actions = <<>> /\ seen = mission /\ apc = "idle" /\ task = NoTask
      /\ loop.cursor = 1 /\ loopFile.cursor = 1
      /\ loop.pending = NoTask /\ loopFile.pending = NoTask
  BY DEF AgentInit, Fresh
<1>2. NoTask.id \notin AgentPhases
  BY Constants DEF NoTask
<1>3. DOMAIN mission.actions = {} /\ Len(mission.actions) = 0
  BY <1>1
<1>4. 1 <= 0 + 1
  OBVIOUS
<1> QED
  BY <1>1, <1>2, <1>3, <1>4 DEF ServeInv, ListInv, CursorInv, InReach, Distinct, PassedBy

LEMMA NextServe == LoopInv /\ LoopInv' /\ ServeInv /\ [AgentNext]_agentVars => ServeInv'
PROOF
<1> SUFFICES ASSUME LoopInv, LoopInv', ServeInv, [AgentNext]_agentVars
             PROVE  ServeInv'
  OBVIOUS
<1>1. CASE \E p \in AgentPhases : Dispatch(p)
  BY <1>1, CallServe
<1>2. CASE TakePending \/ TakeListed \/ TakeInitial
  BY <1>2, TakeServe
<1>3. CASE FindNothing \/ ExhaustBudget
  BY <1>3, StopServe
<1>4. CASE AgentExits \/ AgentTimesOut \/ (\E p \in AgentPhases : StrayWrites(p)) \/ UNCHANGED agentVars
  BY <1>4, RunServe
<1>5. CASE Judged
  BY <1>5, JudgedServe
<1>6. CASE SaveLoop
  BY <1>6, SaveLoopServe
<1>7. CASE SaveMission
  BY <1>7, SaveMissionServe
<1>8. CASE ReturnToOuter
  BY <1>8, ReturnServe
<1>9. CASE AgentCrash
  BY <1>9, CrashServe
<1> QED
  BY <1>1, <1>2, <1>3, <1>4, <1>5, <1>6, <1>7, <1>8, <1>9 DEF AgentNext, AgentStep, Judged

\* The loop's saved cursor is past an open action of the mission only if that
\* action was opened again, left open by its agent, or lost between the two saves;
\* and a dispatch whose action is the first open one past the cursor works on it,
\* whatever an earlier dispatch left pending. The cursor passes an action only when
\* the list the loop is about to save settles or excuses it, and a task kept
\* pending is at or past the cursor, or excused.
THEOREM ActionsServed == AgentSpec => []ActionsAreServed
PROOF
<1>1. ServeInv /\ FirstChoice => ActionsAreServed
  BY DEF ServeInv, CursorInv, PassedBy, FirstChoice, ActionsAreServed
<1>2. AgentInit => FirstChoice
  BY DEF AgentInit, FirstChoice
<1>3. AgentSpec => []FirstChoice
  BY <1>2, NextFirst, LoopInvariant, PTL DEF AgentSpec
<1>4. AgentSpec => []ServeInv
  BY InitServe, NextServe, LoopInvariant, PTL DEF AgentSpec
<1> QED
  BY <1>1, <1>3, <1>4, PTL

----------------------------------------------------------------------------
(* The provider's launcher: what a made-up result may replace.             *)

\* The launcher gives up on an answer only if it came after its last look at the
\* file; while it decides whether it was quiet, an answer counts as activity; and a
\* result recovered outside the phase execution rests on outputs that stay new.
Unread ==
    /\ file.is = "answer" /\ lpc \in {"giveUp", "salvage"} => overtaken
    /\ file.is = "answer" /\ lpc = "idle" => active
    /\ ~inExecution /\ file.is = "recovered" => outputs = "new"

\* A launcher under way has a provider, which has exited when the launcher says so.
Exits ==
    /\ lpc \notin {"off", "judge"} => provider # "off"
    /\ lpc \in {"exited", "grace", "salvage"} => provider # "running"

ProviderInv == ProviderTypeOK /\ Unread /\ Exits

LEMMA ProviderStarts == ProviderInit => ProviderInv
PROOF
<1> SUFFICES ASSUME ProviderInit PROVE ProviderInv
  OBVIOUS
<1>1. file \in [is : {"none", "partial", "answer", "recovered", "failure"}, of : Nat] /\ file.is # "recovered"
  BY DEF ProviderInit, NoFile
<1> QED
  BY <1>1 DEF ProviderInit, ProviderInv, ProviderTypeOK, Unread, Exits

LEMMA GotoKeeps ==
    ASSUME ProviderTypeOK, NEW place \in {"assemble", "read", "poll", "reread", "idle", "giveUp",
                                          "end", "exited", "grace", "salvage"},
           Goto(place)
    PROVE  ProviderTypeOK'
PROOF
  BY DEF ProviderTypeOK, Goto, sandbox, attempts

LEMMA WritingType ==
    ASSUME try \in Nat, NEW what \in {"none", "partial", "answer", "recovered", "failure"}, Writing(what)
    PROVE  /\ file' \in [is : {"none", "partial", "answer", "recovered", "failure"}, of : Nat]
           /\ file'.is = what
PROOF
  BY DEF Writing

\* What a made-up result rests on, in each of the two places that write one.
MadeUpStep ==
    ~inExecution /\ file'.is \in {"recovered", "failure"} =>
        /\ file.is = "answer" => overtaken
        /\ file'.is = "recovered" => outputs' = "new"

LEMMA LoopKeeps ==
    ASSUME ProviderInv, Assemble \/ ReadFile \/ Poll \/ Reread \/ Idle
    PROVE  ProviderInv' /\ MadeUpStep
PROOF
<1>1. CASE Assemble
  <2>1. CASE RecoverExecution /\ lpc' = "read"
    <3>1. file' \in [is : {"none", "partial", "answer", "recovered", "failure"}, of : Nat] /\ file'.is = "recovered"
      BY <2>1, WritingType DEF RecoverExecution, ProviderInv, ProviderTypeOK
    <3> QED
      BY <1>1, <2>1, <3>1 DEF Assemble, RecoverExecution, Assembled, ProviderInv, ProviderTypeOK, Unread, Exits, MadeUpStep, attempts
  <2>2. CASE ~Assembled /\ Goto("read")
    BY <1>1, <2>2, GotoKeeps DEF Assemble, Goto, ProviderInv, Unread, Exits, MadeUpStep, sandbox
  <2> QED
    BY <1>1, <2>1, <2>2 DEF Assemble
<1>2. CASE ReadFile
  BY <1>2, GotoKeeps DEF ReadFile, Goto, ProviderInv, Unread, Exits, MadeUpStep, sandbox, Ready
<1>3. CASE Poll
  BY <1>3, GotoKeeps DEF Poll, Goto, ProviderInv, Unread, Exits, MadeUpStep, sandbox
<1>4. CASE Reread
  BY <1>4, GotoKeeps DEF Reread, Goto, ProviderInv, Unread, Exits, MadeUpStep, sandbox, Ready
<1>5. CASE Idle
  BY <1>5, GotoKeeps DEF Idle, Goto, ProviderInv, Unread, Exits, MadeUpStep, sandbox
<1> QED
  BY <1>1, <1>2, <1>3, <1>4, <1>5

LEMMA GiveUpKeeps ==
    ASSUME ProviderInv, GiveUp
    PROVE  ProviderInv' /\ MadeUpStep
PROOF
<1>1. /\ file' \in [is : {"none", "partial", "answer", "recovered", "failure"}, of : Nat]
      /\ file'.is = IF Recoverable THEN "recovered" ELSE "failure"
  BY WritingType DEF GiveUp, MakeUp, ProviderInv, ProviderTypeOK
<1> QED
  BY <1>1 DEF GiveUp, MakeUp, Recoverable, ProviderInv, ProviderTypeOK, Unread, Exits, MadeUpStep, sandbox, attempts

LEMMA ReturnKeeps ==
    ASSUME ProviderTypeOK, NEW c \in {"ok", "error", "timeout"}, Return(c),
           file' \in [is : {"none", "partial", "answer", "recovered", "failure"}, of : Nat],
           artifacts' \in {"none", "runs", "some", "all"}, active' = active
    PROVE  ProviderTypeOK' /\ lpc' \in {"judge", "off"}
PROOF
  BY DEF ProviderTypeOK, Return

LEMMA EndsKeep ==
    ASSUME ProviderInv, EndProvider \/ Exited \/ Grace
    PROVE  ProviderInv' /\ MadeUpStep
PROOF
<1>1. CASE Return("ok") /\ UNCHANGED <<file, artifacts, active>>
  <2>1. ProviderTypeOK' /\ lpc' \in {"judge", "off"}
    BY <1>1, ReturnKeeps DEF ProviderInv, ProviderTypeOK
  <2> QED
    BY <1>1, <2>1 DEF Return, ProviderInv, Unread, Exits, MadeUpStep
<1>2. CASE lpc \in {"exited", "grace"} /\ ~Ready /\ \E place \in {"grace", "salvage"} : Goto(place)
  BY <1>2, GotoKeeps DEF Goto, ProviderInv, Unread, Exits, MadeUpStep, sandbox, Ready
<1> QED
  BY <1>1, <1>2 DEF EndProvider, Exited, Grace

LEMMA SalvageKeeps ==
    ASSUME ProviderInv, Salvage
    PROVE  ProviderInv' /\ MadeUpStep
PROOF
<1>1. CASE /\ provider = "ok" /\ said
           /\ Writing("answer") /\ Return("ok")
           /\ UNCHANGED <<artifacts, active>>
  <2>1. file' \in [is : {"none", "partial", "answer", "recovered", "failure"}, of : Nat] /\ file'.is = "answer"
    BY <1>1, WritingType DEF ProviderInv, ProviderTypeOK
  <2>2. ProviderTypeOK' /\ lpc' \in {"judge", "off"}
    BY <1>1, <2>1, ReturnKeeps DEF ProviderInv, ProviderTypeOK
  <2> QED
    BY <2>1, <2>2 DEF ProviderInv, Unread, Exits, MadeUpStep
<1>2. CASE /\ IF Assembled
                THEN artifacts' = "all" /\ Writing("recovered")
                ELSE UNCHANGED artifacts
                     /\ Writing(IF Recoverable THEN "recovered" ELSE "failure")
           /\ Return(provider)
           /\ UNCHANGED active
           /\ lpc = "salvage"
  <2>1. /\ file' \in [is : {"none", "partial", "answer", "recovered", "failure"}, of : Nat]
        /\ file'.is = IF Assembled \/ Recoverable THEN "recovered" ELSE "failure"
    BY <1>2, WritingType DEF ProviderInv, ProviderTypeOK
  <2>2. artifacts' \in {"none", "runs", "some", "all"}
    BY <1>2 DEF ProviderInv, ProviderTypeOK
  <2>3. ProviderTypeOK' /\ lpc' \in {"judge", "off"}
    <3>1. Return(provider) /\ active' = active
      BY <1>2
    <3>2. ProviderTypeOK
      BY DEF ProviderInv
    <3>3. provider \in {"ok", "error", "timeout"}
      BY <1>2 DEF ProviderInv, ProviderTypeOK, Exits
    <3> QED
      BY <2>1, <2>2, <3>1, <3>2, <3>3, ReturnKeeps
  <2> QED
    <3>1. UNCHANGED <<inExecution, outputs>>
      BY <1>2 DEF Return
    <3>2. ~inExecution /\ Recoverable => outputs = "new"
      BY DEF Recoverable
    <3>3. ~inExecution => ~Assembled
      BY DEF Assembled
    <3>4. Unread' /\ Exits'
      BY <2>1, <2>3, <3>1, <3>2, <3>3 DEF Unread, Exits
    <3>5. MadeUpStep
      BY <1>2, <2>1, <3>1, <3>2, <3>3 DEF ProviderInv, Unread, Exits, MadeUpStep
    <3> QED
      BY <2>3, <3>4, <3>5 DEF ProviderInv
<1> QED
  BY <1>1, <1>2 DEF Salvage

LEMMA ProviderKeeps ==
    ASSUME ProviderInv,
           \/ \E n \in 1..(ProviderRetries + 1) : ProviderWrites(n)
           \/ ProviderWorks \/ ProviderExits
    PROVE  ProviderInv' /\ MadeUpStep
PROOF
<1>1. ASSUME NEW n \in 1..(ProviderRetries + 1), ProviderWrites(n)
      PROVE  ProviderInv' /\ MadeUpStep
  <2>1. n \in Nat /\ writes + 1 \in Nat
    BY ProviderAssumption DEF ProviderInv, ProviderTypeOK
  <2>2. PICK what \in {"partial", "answer"} :
          /\ file' = [is |-> what, of |-> n]
          /\ overtaken' = (what = "answer" /\ lpc \in {"giveUp", "salvage"})
    BY <1>1 DEF ProviderWrites
  <2>3. file' \in [is : {"none", "partial", "answer", "recovered", "failure"}, of : Nat] /\ file'.is = what
    BY <2>1, <2>2
  <2> QED
    <3>1. ProviderTypeOK'
      BY <1>1, <2>1, <2>2, <2>3 DEF ProviderWrites, ProviderInv, ProviderTypeOK, sandbox, attempts
    <3>2. Unread' /\ Exits' /\ MadeUpStep
      BY <1>1, <2>2, <2>3 DEF ProviderWrites, ProviderInv, Unread, Exits, MadeUpStep, sandbox, attempts
    <3> QED
      BY <3>1, <3>2 DEF ProviderInv
<1>2. CASE ProviderWorks
  <2>1. ProviderTypeOK'
    BY <1>2 DEF ProviderWorks, ProviderInv, ProviderTypeOK, sandbox, attempts
  <2>2. Unread' /\ Exits'
    BY <1>2 DEF ProviderWorks, ProviderInv, Unread, Exits, sandbox, attempts
  <2>3. MadeUpStep
    BY <1>2 DEF ProviderWorks, ProviderInv, Unread, Exits, MadeUpStep, sandbox, attempts
  <2> QED
    BY <2>1, <2>2, <2>3 DEF ProviderInv
<1>3. CASE ProviderExits
  <2>1. ProviderTypeOK'
    BY <1>3 DEF ProviderExits, ProviderInv, ProviderTypeOK, sandbox, attempts
  <2>2. Unread' /\ Exits'
    BY <1>3 DEF ProviderExits, ProviderInv, Unread, Exits, sandbox, attempts
  <2>3. MadeUpStep
    BY <1>3 DEF ProviderExits, ProviderInv, Unread, Exits, MadeUpStep, sandbox, attempts
  <2> QED
    BY <2>1, <2>2, <2>3 DEF ProviderInv
<1> QED
  BY <1>1, <1>2, <1>3

LEMMA AroundKeeps ==
    ASSUME ProviderInv, StartAttempt \/ Quiet \/ TimeLimit
    PROVE  ProviderInv' /\ MadeUpStep
PROOF
<1>1. CASE StartAttempt
  <2>0. /\ UNCHANGED <<inExecution, outputs, artifacts, file, orphaned, ended, overtaken, writes>>
        /\ provider' = "running" /\ said' = FALSE /\ active' = TRUE /\ lpc' = "assemble" /\ try' = try + 1
    BY <1>1 DEF StartAttempt, sandbox, attempts
  <2>1. ProviderTypeOK'
    <3>1. file' \in [is : {"none", "partial", "answer", "recovered", "failure"}, of : Nat]
      BY <2>0 DEF ProviderInv, ProviderTypeOK
    <3>2. try' \in Nat
      BY <2>0 DEF ProviderInv, ProviderTypeOK
    <3>3. orphaned' \in SUBSET Nat
      BY <2>0 DEF ProviderInv, ProviderTypeOK
    <3>4. ended' \in {"ok", "error", "timeout"} /\ overtaken' \in BOOLEAN /\ writes' \in Nat
      BY <2>0 DEF ProviderInv, ProviderTypeOK
    <3>5. inExecution' \in BOOLEAN /\ outputs' \in {"none", "old", "new"}
          /\ artifacts' \in {"none", "runs", "some", "all"}
      BY <2>0 DEF ProviderInv, ProviderTypeOK
    <3>6. provider' \in {"off", "running", "ok", "error"} /\ said' \in BOOLEAN /\ active' \in BOOLEAN
      BY <2>0 DEF ProviderInv, ProviderTypeOK
    <3> QED
      BY <2>0, <3>1, <3>2, <3>3, <3>4, <3>5, <3>6 DEF ProviderInv, ProviderTypeOK
  <2>2. Unread' /\ Exits'
    BY <1>1 DEF StartAttempt, ProviderInv, Unread, Exits, sandbox, attempts
  <2>3. MadeUpStep
    BY <1>1 DEF StartAttempt, ProviderInv, Unread, Exits, MadeUpStep, sandbox, attempts
  <2> QED
    BY <2>1, <2>2, <2>3 DEF ProviderInv
<1>2. CASE Quiet
  <2>0. UNCHANGED <<inExecution, outputs, artifacts, file, provider, said, orphaned, lpc, ended, try, overtaken, writes>> /\ active' = FALSE
    BY <1>2 DEF Quiet, sandbox, attempts
  <2>1. ProviderTypeOK'
    <3>1. file' \in [is : {"none", "partial", "answer", "recovered", "failure"}, of : Nat]
      BY <2>0 DEF ProviderInv, ProviderTypeOK
    <3>2. try' \in Nat
      BY <2>0 DEF ProviderInv, ProviderTypeOK
    <3>3. orphaned' \in SUBSET Nat
      BY <2>0 DEF ProviderInv, ProviderTypeOK
    <3>4. ended' \in {"ok", "error", "timeout"} /\ overtaken' \in BOOLEAN /\ writes' \in Nat
      BY <2>0 DEF ProviderInv, ProviderTypeOK
    <3>5. inExecution' \in BOOLEAN /\ outputs' \in {"none", "old", "new"}
          /\ artifacts' \in {"none", "runs", "some", "all"}
      BY <2>0 DEF ProviderInv, ProviderTypeOK
    <3>6. provider' \in {"off", "running", "ok", "error"} /\ said' \in BOOLEAN /\ active' \in BOOLEAN
      BY <2>0 DEF ProviderInv, ProviderTypeOK
    <3> QED
      BY <2>0, <3>1, <3>2, <3>3, <3>4, <3>5, <3>6 DEF ProviderInv, ProviderTypeOK
  <2>2. Unread' /\ Exits'
    BY <1>2 DEF Quiet, ProviderInv, Unread, Exits, sandbox, attempts
  <2>3. MadeUpStep
    BY <1>2 DEF Quiet, ProviderInv, Unread, Exits, MadeUpStep, sandbox, attempts
  <2> QED
    BY <2>1, <2>2, <2>3 DEF ProviderInv
<1>3. CASE TimeLimit
  <2>1. ProviderTypeOK'
    BY <1>3 DEF TimeLimit, ProviderInv, ProviderTypeOK, sandbox, attempts
  <2>2. Unread' /\ Exits'
    BY <1>3 DEF TimeLimit, ProviderInv, Unread, Exits, sandbox, attempts
  <2>3. MadeUpStep
    BY <1>3 DEF TimeLimit, ProviderInv, Unread, Exits, MadeUpStep, sandbox, attempts
  <2> QED
    BY <2>1, <2>2, <2>3 DEF ProviderInv
<1> QED
  BY <1>1, <1>2, <1>3

LEMMA ProviderInvariance == ProviderSpec => []ProviderInv
PROOF
<1>1. ProviderInv /\ [ProviderNext]_providerVars => ProviderInv'
  <2> SUFFICES ASSUME ProviderInv, [ProviderNext]_providerVars PROVE ProviderInv'
    OBVIOUS
  <2>1. CASE ProviderNext
    BY <2>1, LoopKeeps, GiveUpKeeps, EndsKeep, SalvageKeeps, ProviderKeeps, AroundKeeps DEF ProviderNext, LauncherStep
  <2>2. CASE UNCHANGED providerVars
    BY <2>2 DEF providerVars, ProviderInv, ProviderTypeOK, Unread, Exits
  <2> QED
    BY <2>1, <2>2
<1> QED
  BY ProviderStarts, <1>1, PTL DEF ProviderSpec

\* For any number of retries and writes: outside the phase execution the launcher
\* replaces no answer it could have read, and what it makes up of outputs rests on
\* outputs newer than the prompt.
THEOREM AnswersStand == ProviderSpec => MadeUpIsJustified
PROOF
<1>1. ProviderInv /\ [ProviderNext]_providerVars => [MadeUpStep]_providerVars
  <2> SUFFICES ASSUME ProviderInv, ProviderNext PROVE MadeUpStep
    OBVIOUS
  <2> QED
    BY LoopKeeps, GiveUpKeeps, EndsKeep, SalvageKeeps, ProviderKeeps, AroundKeeps DEF ProviderNext, LauncherStep
<1>2. [][MadeUpStep]_providerVars => MadeUpIsJustified
  BY PTL DEF MadeUpIsJustified, MadeUpStep
<1> QED
  BY ProviderInvariance, <1>1, <1>2, PTL DEF ProviderSpec

----------------------------------------------------------------------------
(* Parallel subagents: the report, and the sandboxes of tasks alone in     *)
(* their role.                                                             *)

SubEntry == [task : SubTask, status : {"completed", "failed", "timeout"}]

\* The list tells of the tasks in S, and of each of them once.
TellsOf(list, S) ==
    /\ \A e \in DOMAIN list : list[e].task \in S
    /\ \A t \in S : \E e \in DOMAIN list : list[e].task = t
    /\ \A e, f \in DOMAIN list : list[e].task = list[f].task => e = f

Done == {t \in SubTask : at[t] = "done"}

\* Between two calls the report is the last one's; during a call the entries are of
\* the tasks that are done.
EntriesAgree ==
    \/ /\ Idling
       /\ calls > 0 => [i \in DOMAIN report |-> report[i].task] = [t \in SubTask |-> t]
    \/ /\ \A t \in SubTask : at[t] # "idle"
       /\ TellsOf(aggregated, Done)

\* Only a task that has run wrote, and nobody empties the sandbox of a lone role.
OutputsStay ==
    /\ \A t \in wrote : at[t] \notin {"queued", "preparing"}
    /\ \A t \in wrote : Solo(t) => t \in shared[RoleOf[t]]

SubInv == SubTypeOK /\ EntriesAgree /\ OutputsStay

LEMMA TaskNumbers == Tasks \in Nat \ {0} /\ SubTask \subseteq Nat \ {0} /\ 1 \in SubTask
PROOF
  BY SubagentsAssumption DEF SubTask

LEMMA RoleFacts == \A t \in SubTask : RoleOf[t] \in SubRoles
PROOF
  BY DEF SubRoles

\* A list that tells of every task once has one entry per task, and the entries
\* before that of task t are t - 1.
LEMMA CountBefore ==
    ASSUME NEW list \in Seq(SubEntry), TellsOf(list, SubTask), NEW e \in DOMAIN list
    PROVE  Cardinality({f \in DOMAIN list : list[f].task < list[e].task})
             = list[e].task - 1
PROOF
<1> DEFINE B == {f \in DOMAIN list : list[f].task < list[e].task}
           T == 1..(list[e].task - 1)
           place == [f \in B |-> list[f].task]
<1>1. Len(list) \in Nat /\ DOMAIN list = 1..Len(list)
  BY LenProperties
<1>2. list[e].task \in SubTask /\ list[e].task \in Nat \ {0}
  BY TaskNumbers DEF TellsOf
<1>3. IsFiniteSet(B)
  <2>1. IsFiniteSet(DOMAIN list)
    BY <1>1, FS_Interval
  <2> QED
    BY <2>1, FS_Subset
<1>4. place \in [B -> T]
  <2> SUFFICES ASSUME NEW f \in B PROVE list[f].task \in T
    OBVIOUS
  <2>1. list[f].task \in Nat \ {0} /\ list[f].task < list[e].task
    BY TaskNumbers DEF TellsOf
  <2> QED
    BY <1>2, <2>1
<1>5. \A f, g \in B : place[f] = place[g] => f = g
  BY DEF TellsOf
<1>6. ASSUME NEW t \in T
      PROVE  \E f \in B : place[f] = t
  <2>1. t \in SubTask /\ t < list[e].task
    BY <1>2, TaskNumbers DEF SubTask
  <2>2. PICK f \in DOMAIN list : list[f].task = t
    BY <2>1 DEF TellsOf
  <2> QED
    BY <2>1, <2>2
<1>7. place \in Bijection(B, T)
  BY <1>4, <1>5, <1>6 DEF Bijection, Injection, Surjection, IsInjective
<1>8. Cardinality(T) = Cardinality(B)
  <2> HIDE DEF B, T, place
  <2> QED
    BY <1>3, <1>7, FS_Bijection DEF ExistsBijection
<1>9. Cardinality(T) = list[e].task - 1
  <2>1. 1 \in Int /\ list[e].task - 1 \in Int
    BY <1>2
  <2>2. Cardinality(1..(list[e].task - 1)) =
          IF 1 > list[e].task - 1 THEN 0 ELSE list[e].task - 1 - 1 + 1
    BY <2>1, FS_Interval
  <2> QED
    BY <1>2, <2>2
<1> QED
  BY <1>8, <1>9

LEMMA OneEntryEach ==
    ASSUME NEW list \in Seq(SubEntry), TellsOf(list, SubTask)
    PROVE  DOMAIN list = SubTask /\ Len(list) = Tasks
PROOF
<1> DEFINE D == DOMAIN list
           place == [e \in D |-> list[e].task]
<1>1. Len(list) \in Nat /\ D = 1..Len(list)
  BY LenProperties
<1>2. place \in Bijection(D, SubTask)
  BY DEF Bijection, Injection, Surjection, IsInjective, TellsOf
<1>3. IsFiniteSet(D) /\ Cardinality(D) = Len(list)
  <2>1. /\ Cardinality(1..Len(list)) = IF 1 > Len(list) THEN 0 ELSE Len(list) - 1 + 1
        /\ IsFiniteSet(1..Len(list))
    BY <1>1, FS_Interval
  <2> QED
    BY <1>1, <2>1
<1>4. Cardinality(SubTask) = Tasks
  <2>1. Cardinality(1..Tasks) = IF 1 > Tasks THEN 0 ELSE Tasks - 1 + 1
    BY TaskNumbers, FS_Interval
  <2> QED
    BY <2>1, TaskNumbers DEF SubTask
<1>5. Cardinality(SubTask) = Cardinality(D)
  <2> HIDE DEF D, place
  <2> QED
    BY <1>2, <1>3, FS_Bijection DEF ExistsBijection
<1> QED
  BY <1>1, <1>3, <1>4, <1>5 DEF SubTask

\* The report has the entries in the order of the tasks.
LEMMA InOrderTells ==
    ASSUME NEW list \in Seq(SubEntry), TellsOf(list, SubTask)
    PROVE  /\ InOrder(list) \in Seq(SubEntry)
           /\ [i \in DOMAIN InOrder(list) |-> InOrder(list)[i].task] = [t \in SubTask |-> t]
PROOF
<1> DEFINE Before(e) == {f \in DOMAIN list : list[f].task < list[e].task}
           Place(i) == CHOOSE e \in DOMAIN list : Cardinality(Before(e)) = i - 1
<1>1. DOMAIN list = SubTask /\ Len(list) = Tasks
  BY OneEntryEach
<1>2. \A e \in DOMAIN list : Cardinality(Before(e)) = list[e].task - 1 /\ list[e].task \in Nat
  BY CountBefore, TaskNumbers DEF TellsOf
<1>3. ASSUME NEW i \in SubTask
      PROVE  Place(i) \in DOMAIN list /\ list[Place(i)].task = i
  <2>1. i \in Nat
    BY TaskNumbers
  <2>2. \E e \in DOMAIN list : list[e].task = i
    BY DEF TellsOf
  <2> HIDE DEF Before
  <2>3. \E e \in DOMAIN list : Cardinality(Before(e)) = i - 1
    BY <1>2, <2>2
  <2>4. Place(i) \in DOMAIN list /\ Cardinality(Before(Place(i))) = i - 1
    BY <2>3
  <2> QED
    BY <1>2, <2>1, <2>4
<1>4. InOrder(list) = [i \in DOMAIN list |-> list[Place(i)]]
  BY DEF InOrder
<1>5. \A i \in SubTask : list[Place(i)] \in SubEntry
  BY <1>3, ElementOfSeq, LenProperties
<1> HIDE DEF Place
<1>6. InOrder(list) \in [1..Tasks -> SubEntry]
  BY <1>1, <1>4, <1>5 DEF SubTask
<1>7. InOrder(list) \in Seq(SubEntry)
  BY <1>6, TaskNumbers, SeqDef
<1> QED
  BY <1>1, <1>3, <1>4, <1>7


LEMMA SubStarts == SubInit => SubInv
PROOF
<1> SUFFICES ASSUME SubInit PROVE SubInv
  OBVIOUS
<1>1. SubTypeOK
  BY SubagentsAssumption, EmptySeq DEF SubInit, SubTypeOK
<1>2. EntriesAgree /\ OutputsStay
  BY DEF SubInit, EntriesAgree, OutputsStay, Idling
<1> QED
  BY <1>1, <1>2 DEF SubInv

LEMMA CallKeeps ==
    ASSUME SubInv, SubCall
    PROVE  SubInv'
PROOF
<1>1. SubTypeOK'
  <2>1. calls' \in 0..MaxCalls
    BY SubagentsAssumption DEF SubCall, SubInv, SubTypeOK
  <2>2. aggregated' \in Seq(SubEntry)
    BY EmptySeq DEF SubCall
  <2> QED
    BY <2>1, <2>2 DEF SubCall, SubInv, SubTypeOK, SubEntry
<1>2. EntriesAgree'
  <2>1. (\A t \in SubTask : at[t] # "idle")' /\ Done' = {}
    BY DEF SubCall, Done
  <2>2. DOMAIN (aggregated') = {}
    BY DEF SubCall
  <2>3. TellsOf(aggregated', {})
    BY <2>2 DEF TellsOf
  <2> QED
    BY <2>1, <2>3 DEF EntriesAgree
<1>3. OutputsStay'
  BY DEF SubCall, OutputsStay
<1> QED
  BY <1>1, <1>2, <1>3 DEF SubInv

\* What the steps of a task that is not done have in common.
LEMMA TaskMoves ==
    ASSUME SubInv, NEW t \in SubTask, at[t] \notin {"idle", "done"},
           NEW place \in {"preparing", "running", "reading", "raised"},
           Moves(t, place) \/ at' = at,
           UNCHANGED <<calls, aggregated, report>>
    PROVE  EntriesAgree'
PROOF
<1>1. at \in [SubTask -> {"idle", "queued", "preparing", "running", "reading", "raised", "done"}]
  BY DEF SubInv, SubTypeOK
<1>2. ~Idling
  BY DEF Idling
<1>3. (\A u \in SubTask : at[u] # "idle") /\ TellsOf(aggregated, Done)
  BY <1>2 DEF SubInv, EntriesAgree
<1>4. (\A u \in SubTask : at[u] # "idle")' /\ Done' = Done
  BY <1>1, <1>3 DEF Moves, Done
<1> QED
  BY <1>3, <1>4 DEF EntriesAgree, TellsOf

LEMMA TakeKeeps ==
    ASSUME SubInv, NEW t \in SubTask, SubTake(t) \/ SubExits(t)
    PROVE  SubInv'
PROOF
<1>1. SubTypeOK'
  BY DEF SubTake, SubExits, Moves, SubInv, SubTypeOK
<1>2. EntriesAgree'
  BY TaskMoves DEF SubTake, SubExits
<1>3. OutputsStay'
  BY DEF SubTake, SubExits, Moves, SubInv, SubTypeOK, OutputsStay
<1> QED
  BY <1>1, <1>2, <1>3 DEF SubInv

LEMMA TaskStartKeeps ==
    ASSUME SubInv, NEW t \in SubTask, SubStart(t)
    PROVE  SubInv'
PROOF
<1>1. SubTypeOK'
  BY DEF SubStart, Emptied, Moves, SubInv, SubTypeOK
<1>2. EntriesAgree'
  BY TaskMoves DEF SubStart
<1>3. OutputsStay'
  <2>1. t \notin wrote /\ wrote' = wrote /\ wrote \subseteq SubTask
    BY DEF SubStart, SubInv, SubTypeOK, OutputsStay
  <2>2. \A u \in wrote : at'[u] = at[u]
    BY <2>1 DEF SubStart, Moves, SubInv, SubTypeOK
  <2>3. ASSUME NEW u \in wrote, Solo(u)
        PROVE  u \in shared'[RoleOf[u]]
    <3>1. RoleOf[t] # RoleOf[u]
      BY <2>1, <2>3 DEF Solo
    <3>2. shared' = [shared EXCEPT ![RoleOf[t]] = {}] /\ shared \in [SubRoles -> SUBSET SubTask]
          /\ RoleOf[u] \in SubRoles
      BY <2>1, RoleFacts DEF SubStart, Emptied, SubInv, SubTypeOK
    <3>3. u \in shared[RoleOf[u]]
      BY <2>3 DEF SubInv, OutputsStay
    <3> QED
      BY <3>1, <3>2, <3>3
  <2> QED
    BY <2>1, <2>2, <2>3 DEF SubInv, OutputsStay, Solo
<1> QED
  BY <1>1, <1>2, <1>3 DEF SubInv

LEMMA TaskWorks ==
    ASSUME SubInv, NEW t \in SubTask, SubWorks(t)
    PROVE  SubInv'
PROOF
<1>1. SubTypeOK'
  BY RoleFacts DEF SubWorks, SubInv, SubTypeOK
<1>2. EntriesAgree'
  BY TaskMoves DEF SubWorks
<1>3. OutputsStay'
  <2>1. shared \in [SubRoles -> SUBSET SubTask] /\ wrote \subseteq SubTask
    BY DEF SubInv, SubTypeOK
  <2>2. CASE UNCHANGED <<shared, wrote>>
    BY <2>2 DEF SubWorks, SubInv, OutputsStay, Solo
  <2>3. CASE /\ shared' = [shared EXCEPT ![RoleOf[t]] = @ \cup {t}]
             /\ wrote' = wrote \cup {t}
    <3>1. \A u \in wrote' : u \in SubTask /\ RoleOf[u] \in SubRoles
      BY <2>1, <2>3, RoleFacts
    <3>2. \A u \in wrote' : Solo(u) => u \in shared'[RoleOf[u]]
      BY <2>1, <2>3, <3>1 DEF SubInv, OutputsStay
    <3>3. \A u \in wrote' : at'[u] \notin {"queued", "preparing"}
      BY <2>3 DEF SubWorks, SubInv, OutputsStay
    <3> QED
      BY <3>2, <3>3 DEF OutputsStay, Solo
  <2> QED
    BY <2>2, <2>3 DEF SubWorks
<1> QED
  BY <1>1, <1>2, <1>3 DEF SubInv

\* A new entry is of the task that gets done with it.
LEMMA EntryAdded ==
    ASSUME SubInv, NEW t \in SubTask, at[t] \notin {"idle", "done"}, Moves(t, "done"),
           NEW status \in {"completed", "failed", "timeout"}, Reports(t, status),
           UNCHANGED <<calls, report>>
    PROVE  EntriesAgree' /\ aggregated' \in Seq(SubEntry)
PROOF
<1>1. at \in [SubTask -> {"idle", "queued", "preparing", "running", "reading", "raised", "done"}]
      /\ aggregated \in Seq(SubEntry)
  BY DEF SubInv, SubTypeOK, SubEntry
<1>2. ~Idling
  BY DEF Idling
<1>3. (\A u \in SubTask : at[u] # "idle") /\ TellsOf(aggregated, Done)
  BY <1>2 DEF SubInv, EntriesAgree
<1>4. (\A u \in SubTask : at[u] # "idle")' /\ Done' = Done \cup {t} /\ t \notin Done
  BY <1>1, <1>3 DEF Moves, Done
<1> DEFINE added == [task |-> t, status |-> status]
<1>5. added \in SubEntry /\ added.task = t
  BY DEF SubEntry
<1>6. aggregated' = Append(aggregated, added)
  BY DEF Reports
<1> HIDE DEF added
<1> DEFINE n == Len(aggregated)
<1>7. /\ aggregated' \in Seq(SubEntry) /\ n \in Nat
      /\ DOMAIN aggregated = 1..n /\ DOMAIN (aggregated') = 1..(n + 1)
      /\ \A i \in 1..n : aggregated'[i] = aggregated[i]
      /\ aggregated'[n + 1] = added
  BY <1>1, <1>5, <1>6, AppendProperties, LenProperties
<1> HIDE DEF n
<1>8. 1..(n + 1) = 1..n \cup {n + 1} /\ n + 1 \notin 1..n
  BY <1>7
<1>9. TellsOf(aggregated', Done \cup {t})
  <2>1. \A e \in 1..n : aggregated'[e].task \in Done /\ aggregated'[e].task # t
    BY <1>3, <1>4, <1>7 DEF TellsOf
  <2>2. aggregated'[n + 1].task = t
    BY <1>5, <1>7
  <2>3. \A e, f \in 1..n : aggregated'[e].task = aggregated'[f].task => e = f
    BY <1>3, <1>7 DEF TellsOf
  <2>4. \A u \in Done : \E e \in 1..n : aggregated'[e].task = u
    BY <1>3, <1>7 DEF TellsOf
  <2> QED
    BY <1>7, <1>8, <2>1, <2>2, <2>3, <2>4 DEF TellsOf
<1> QED
  BY <1>4, <1>7, <1>9 DEF EntriesAgree

LEMMA ReadKeeps ==
    ASSUME SubInv, NEW t \in SubTask, SubRead(t) \/ SubCollect(t)
    PROVE  SubInv'
PROOF
<1>1. \E status \in {"completed", "failed", "timeout"} : Reports(t, status)
  <2>1. CASE SubRead(t)
    <3>1. exit[t] \in {"zero", "nonzero", "timeout"}
      BY DEF SubInv, SubTypeOK
    <3>2. SubStatus(t) \in {"completed", "failed", "timeout"}
      BY <3>1 DEF SubStatus
    <3> QED
      BY <2>1, <3>2 DEF SubRead
  <2>2. CASE SubCollect(t)
    BY <2>2 DEF SubCollect
  <2> QED
    BY <2>1, <2>2
<1>2. at[t] \notin {"idle", "done"} /\ Moves(t, "done") /\ UNCHANGED <<calls, report, shared, wrote, resultOf>>
  BY DEF SubRead, SubCollect
<1>3. EntriesAgree' /\ aggregated' \in Seq(SubEntry)
  BY <1>1, <1>2, EntryAdded
<1>4. exit' = exit \/ exit' = [exit EXCEPT ![t] = "zero"]
  BY DEF SubRead, SubCollect
<1>5. SubTypeOK'
  BY <1>2, <1>3, <1>4 DEF Moves, SubInv, SubTypeOK, SubEntry
<1>6. OutputsStay'
  BY <1>2 DEF Moves, SubInv, SubTypeOK, OutputsStay, Solo
<1> QED
  BY <1>3, <1>5, <1>6 DEF SubInv

LEMMA ReportKeeps ==
    ASSUME SubInv, SubReport
    PROVE  SubInv'
PROOF
<1>1. Done = SubTask /\ ~Idling
  BY TaskNumbers DEF SubReport, Done, Idling
<1>2. aggregated \in Seq(SubEntry) /\ TellsOf(aggregated, SubTask)
  BY <1>1 DEF SubInv, SubTypeOK, SubEntry, EntriesAgree
<1>3. /\ report' \in Seq(SubEntry)
      /\ [i \in DOMAIN (report') |-> report'[i].task] = [t \in SubTask |-> t]
  BY <1>2, InOrderTells DEF SubReport
<1>4. SubTypeOK'
  BY <1>3 DEF SubReport, SubInv, SubTypeOK, SubEntry
<1>5. EntriesAgree'
  BY <1>3 DEF SubReport, EntriesAgree, Idling
<1>6. OutputsStay'
  BY DEF SubReport, SubInv, SubTypeOK, OutputsStay, Solo
<1> QED
  BY <1>4, <1>5, <1>6 DEF SubInv

LEMMA SubInvariance == SubSpec => []SubInv
PROOF
<1>1. SubInv /\ [SubNext]_subVars => SubInv'
  <2> SUFFICES ASSUME SubInv, [SubNext]_subVars PROVE SubInv'
    OBVIOUS
  <2>1. CASE SubNext
    BY <2>1, CallKeeps, TakeKeeps, TaskStartKeeps, TaskWorks, ReadKeeps, ReportKeeps
       DEF SubNext, SubStep
  <2>2. CASE UNCHANGED subVars
    BY <2>2 DEF subVars, SubInv, SubTypeOK, EntriesAgree, OutputsStay, Idling, TellsOf, Done, Solo
  <2> QED
    BY <2>1, <2>2
<1> QED
  BY SubStarts, <1>1, PTL DEF SubSpec

\* For any number of tasks, threads and calls and any roles: the report of a call
\* that has returned has one entry per task, in order, and the sandbox of a lone
\* role still holds what its task wrote.
THEOREM ReportsAreWhole == SubSpec => []ReportIsWhole
PROOF
<1>1. SubInv => ReportIsWhole
  <2> SUFFICES ASSUME SubInv, calls > 0, Idling
               PROVE  /\ [i \in DOMAIN report |-> report[i].task] = [t \in SubTask |-> t]
                      /\ \A t \in wrote : Solo(t) => t \in shared[RoleOf[t]]
    BY DEF ReportIsWhole
  <2>1. ~(\A t \in SubTask : at[t] # "idle")
    BY TaskNumbers DEF Idling
  <2> QED
    BY <2>1 DEF SubInv, EntriesAgree, OutputsStay
<1> QED
  BY SubInvariance, <1>1, PTL

----------------------------------------------------------------------------
(* The experiment search: whose result an operation gets.                  *)

\* What the prover needs of the two states' shape.
SearchShape ==
    /\ held = [phase |-> held.phase, nodes |-> held.nodes, pending |-> held.pending]
    /\ saved = [phase |-> saved.phase, nodes |-> saved.nodes, pending |-> saved.pending]

\* An operation that waits while no executor of its own runs was left by a process
\* that died or an executor that raised; one whose result was taken waits no more.
LeftBehind ==
    /\ xpc = "off" /\ saved.pending # NoOperation => broken
    /\ xpc = "decide" /\ held.pending # NoOperation => broken
    /\ xpc = "execute" => /\ saved.pending = held.pending
                          /\ saved.pending # NoOperation => own \/ broken
    /\ xpc = "save" => held.pending = NoOperation
    /\ xpc \in {"off", "decide", "execute", "save"}

OwnInv == SearchShape /\ LeftBehind

LEMMA SearchStarts == SearchInit => OwnInv
PROOF
  BY DEF SearchInit, OwnInv, SearchShape, LeftBehind

LEMMA SelectKeeps ==
    ASSUME OwnInv, SelectOperation
    PROVE  OwnInv'
PROOF
<1>1. PICK todo \in Selections(held.nodes) : held' = [held EXCEPT !.pending = todo]
  BY DEF SelectOperation
<1>2. held' = [phase |-> held.phase, nodes |-> held.nodes, pending |-> todo]
  BY <1>1 DEF OwnInv, SearchShape
<1>3. saved' = held' /\ own' = TRUE /\ xpc' = "execute"
  BY DEF SelectOperation
<1> QED
  BY <1>2, <1>3 DEF OwnInv, SearchShape, LeftBehind

LEMMA MoveKeeps ==
    ASSUME OwnInv, MovePhase
    PROVE  OwnInv'
PROOF
<1>1. PICK p : saved' = [saved EXCEPT !.phase = p]
  BY DEF MovePhase
<1>2. saved' = [phase |-> p, nodes |-> saved.nodes, pending |-> saved.pending]
  BY <1>1 DEF OwnInv, SearchShape
<1>3. UNCHANGED <<held, xpc, own, broken>> /\ xpc = "execute"
  BY DEF MovePhase
<1> QED
  BY <1>2, <1>3 DEF OwnInv, SearchShape, LeftBehind

\* A result changes the tree only through an operation that waits.
LEMMA ApplyKeeps ==
    ASSUME OwnInv, ApplyResult
    PROVE  OwnInv' /\ (held'.nodes # saved.nodes => own \/ broken)
PROOF
<1>1. PICK x \in Experiments :
        held' = [saved EXCEPT
                   !.pending = NoOperation,
                   !.nodes = IF saved.pending # NoOperation /\ x.code
                               THEN WithResult(@, saved.pending, x) ELSE @]
  BY DEF ApplyResult
<1> DEFINE grown == IF saved.pending # NoOperation /\ x.code
                      THEN WithResult(saved.nodes, saved.pending, x) ELSE saved.nodes
           cleared == [phase |-> saved.phase, nodes |-> saved.nodes, pending |-> NoOperation]
<1>2. [saved EXCEPT !.pending = NoOperation] = cleared
  BY DEF OwnInv, SearchShape
<1>3. held' = [saved EXCEPT !.pending = NoOperation, !.nodes = grown]
  BY <1>1
<1>4. grown # saved.nodes => saved.pending # NoOperation
  OBVIOUS
<1> HIDE DEF grown
<1>5. [cleared EXCEPT !.nodes = grown] = [phase |-> saved.phase, nodes |-> grown, pending |-> NoOperation]
  OBVIOUS
<1> HIDE DEF cleared
<1>6. held' = [cleared EXCEPT !.nodes = grown]
  BY <1>2, <1>3, Zenon
<1>7. held' = [phase |-> saved.phase, nodes |-> grown, pending |-> NoOperation]
  BY <1>5, <1>6
<1>8. UNCHANGED <<saved, own, broken>> /\ xpc = "execute" /\ xpc' = "save"
  BY DEF ApplyResult
<1> QED
  BY <1>4, <1>7, <1>8 DEF OwnInv, SearchShape, LeftBehind

LEMMA SearchStepKeeps ==
    ASSUME OwnInv, SearchNext
    PROVE  OwnInv'
PROOF
<1>1. CASE SearchBegins
  BY <1>1 DEF SearchBegins, OwnInv, SearchShape, LeftBehind
<1>2. CASE OrdinaryDispatch
  BY <1>2 DEF OrdinaryDispatch, OwnInv, SearchShape, LeftBehind
<1>3. CASE SaveSearch
  BY <1>3 DEF SaveSearch, OwnInv, SearchShape, LeftBehind
<1>4. CASE SearchRaises
  BY <1>4 DEF SearchRaises, OwnInv, SearchShape, LeftBehind
<1>5. CASE SearchDies
  BY <1>5 DEF SearchDies, OwnInv, SearchShape, LeftBehind
<1> QED
  BY <1>1, <1>2, <1>3, <1>4, <1>5, SelectKeeps, MoveKeeps, ApplyKeeps DEF SearchNext

LEMMA OwnInvariance == SearchSpec => []OwnInv
PROOF
<1>1. OwnInv /\ [SearchNext]_searchVars => OwnInv'
  BY SearchStepKeeps DEF searchVars, OwnInv, SearchShape, LeftBehind
<1> QED
  BY SearchStarts, <1>1, PTL DEF SearchSpec

OwnStep == xpc = "execute" /\ xpc' = "save" /\ held'.nodes # saved.nodes => own \/ broken

\* For any tree, metrics, payloads, operations and deaths: a result becomes a node
\* for the operation it was dispatched for, unless a process died or an executor
\* raised with the operation pending.
THEOREM OperationsGetTheirResult == SearchSpec => ResultsAreOwn
PROOF
<1>1. OwnInv /\ [SearchNext]_searchVars => [OwnStep]_searchVars
  <2> SUFFICES ASSUME OwnInv, SearchNext PROVE OwnStep
    OBVIOUS
  <2>1. CASE ApplyResult
    BY <2>1, ApplyKeeps DEF OwnStep
  <2>2. CASE ~ApplyResult
    BY <2>2 DEF SearchNext, OwnStep, SearchBegins, SelectOperation, OrdinaryDispatch, MovePhase,
                SaveSearch, SearchRaises, SearchDies
  <2> QED
    BY <2>1, <2>2
<1>2. [][OwnStep]_searchVars => ResultsAreOwn
  BY PTL DEF ResultsAreOwn, OwnStep
<1> QED
  BY OwnInvariance, <1>1, <1>2, PTL DEF SearchSpec

----------------------------------------------------------------------------
(* The experiment search: the tree stays within the operations decided.    *)

Trees == Seq([parent : 0..MaxOperations, metric : Metrics \cup {NoMetric}, buggy : BOOLEAN])

\* Among experiments that were measured there is a best one.
LEMMA BestExists ==
    ASSUME NEW nodes \in Trees, NEW among \in SUBSET Evaluated(nodes), among # {}
    PROVE  BestOf(nodes, among) \in among
PROOF
<1> DEFINE v(n) == nodes[n].metric
           IsBest(n, S) == n \in S /\ \A m \in S : Better(v(n), v(m)) \/ (v(n) = v(m) /\ n <= m)
           Prefix(k) == {n \in among : n <= k}
           T == {k \in 0..Len(nodes) : Prefix(k) # {} /\ \A n \in among : ~IsBest(n, Prefix(k))}
<1>1. Len(nodes) \in Nat /\ DOMAIN nodes = 1..Len(nodes)
  BY LenProperties DEF Trees
<1>2. \A n \in among : n \in 1..Len(nodes) /\ v(n) \in Int
  <2> SUFFICES ASSUME NEW n \in among PROVE n \in 1..Len(nodes) /\ v(n) \in Int
    OBVIOUS
  <2>1. n \in 1..Len(nodes) /\ nodes[n].metric # NoMetric
    BY <1>1 DEF Evaluated
  <2>2. nodes[n] \in [parent : 0..MaxOperations, metric : Metrics \cup {NoMetric}, buggy : BOOLEAN]
    BY <2>1, ElementOfSeq DEF Trees
  <2> QED
    BY <2>1, <2>2, SearchAssumption
<1> HIDE DEF v
<1>3. T = {}
  <2> SUFFICES ASSUME T # {} PROVE FALSE
    OBVIOUS
  <2>1. T \in SUBSET Nat
    BY <1>1
  <2> HIDE DEF T
  <2>2. PICK k \in T : \A y \in T : k <= y
    BY <2>1, LeastNatural
  <2>3. k \in 0..Len(nodes) /\ Prefix(k) # {} /\ \A n \in among : ~IsBest(n, Prefix(k))
    BY DEF T
  <2>4. k # 0 /\ k \in Nat /\ k - 1 \in 0..Len(nodes) /\ k - 1 \in Nat
    BY <1>1, <1>2, <2>3
  <2>5. Prefix(k - 1) = {} \/ \E n \in among : IsBest(n, Prefix(k - 1))
    <3>1. k - 1 \notin T
      BY <2>1, <2>2, <2>4
    <3> QED
      BY <3>1, <2>4 DEF T
  <2>6. \A n \in Prefix(k) : n = k \/ n \in Prefix(k - 1)
    BY <1>2, <2>4
  <2>7. \A n \in Prefix(k - 1) : n \in Prefix(k) /\ n \in among /\ n < k
    BY <1>2, <2>4
  <2>8. \A n \in Prefix(k - 1) : n \in among
    OBVIOUS
  <2>9. CASE k \notin among
    <3>1. \A n \in Prefix(k) : n \in Prefix(k - 1)
      BY <2>6, <2>9
    <3>2. PICK b \in among : IsBest(b, Prefix(k - 1))
      BY <3>1, <2>3, <2>5
    <3>3. IsBest(b, Prefix(k))
      BY <3>1, <3>2, <2>7
    <3> QED
      BY <3>3, <2>3
  <2>10. CASE k \in among
    <3>1. k \in Prefix(k) /\ v(k) \in Int /\ k <= k
      BY <1>2, <2>4, <2>10
    <3>2. CASE \A m \in Prefix(k - 1) : Better(v(k), v(m))
      <4>1. IsBest(k, Prefix(k))
        BY <3>1, <3>2, <2>6
      <4> QED
        BY <4>1, <2>3, <2>10
    <3>3. CASE \E m \in Prefix(k - 1) : ~Better(v(k), v(m))
      <4>1. PICK b \in among : IsBest(b, Prefix(k - 1))
        BY <3>3, <2>5
      <4>2. PICK m \in Prefix(k - 1) : ~Better(v(k), v(m))
        BY <3>3
      <4>3. v(b) \in Int /\ v(m) \in Int /\ b < k
        BY <1>2, <2>7, <4>1
      <4>4. Better(v(b), v(m)) \/ v(b) = v(m)
        BY <4>1
      <4>5. Better(v(b), v(k)) \/ (v(b) = v(k) /\ b <= k)
        <5>1. b \in Nat /\ k \in Nat
          BY <1>2, <2>4, <4>1
        <5> QED
          BY <3>1, <4>2, <4>3, <4>4, <5>1 DEF Better
      <4>6. IsBest(b, Prefix(k))
        BY <4>1, <4>5, <2>6, <2>7
      <4> QED
        BY <4>6, <2>3
    <3> QED
      BY <3>2, <3>3
  <2> QED
    BY <2>9, <2>10
<1>4. \E n \in among : IsBest(n, among)
  <2>1. Len(nodes) \notin T
    BY <1>3
  <2>2. Prefix(Len(nodes)) = among
    BY <1>1, <1>2
  <2>3. Len(nodes) \in 0..Len(nodes)
    BY <1>1
  <2>4. \E n \in among : IsBest(n, Prefix(Len(nodes)))
    <3> HIDE DEF Prefix, IsBest
    <3> QED
      BY <2>1, <2>2, <2>3
  <2> QED
    BY <2>2, <2>4
<1>5. BestOf(nodes, among) = CHOOSE n \in among : \A m \in among :
                               Better(v(n), v(m)) \/ (v(n) = v(m) /\ n <= m)
  BY DEF BestOf, v
<1> QED
  BY <1>4, <1>5


ExperimentNodes == [parent : 0..MaxOperations, metric : Metrics \cup {NoMetric}, buggy : BOOLEAN]
Todo == [op : {"none", "draft", "improve", "debug"}, node : 0..(MaxOperations + 1)]

\* An operation refers to a node of the tree it was selected on.
RefersTo(todo, nodes) ==
    \/ todo = [op |-> "draft", node |-> 0]
    \/ \E n \in DOMAIN nodes : \/ todo = [op |-> "improve", node |-> n]
                               \/ todo = [op |-> "debug", node |-> n]

\* A tree has at most one node per operation decided, besides the root; an operation
\* that waits has not brought its own yet.
IsTree(s) ==
    /\ s.phase \in TreePhase \cup {"critique"}
    /\ s.nodes \in Seq(ExperimentNodes)
    /\ \/ s.pending = NoOperation /\ Len(s.nodes) <= operations + 1
       \/ RefersTo(s.pending, s.nodes) /\ Len(s.nodes) <= operations

TreesGrowSlowly ==
    /\ SearchShape
    /\ IsTree(held) /\ IsTree(saved)
    /\ configured \in BOOLEAN /\ own \in BOOLEAN /\ broken \in BOOLEAN
    /\ xpc \in {"off", "decide", "execute", "save"}
    /\ operations \in 0..MaxOperations /\ deaths \in 0..MaxDeaths

LEMMA SearchNumbers ==
    /\ MaxOperations \in Nat /\ MaxDeaths \in Nat
    /\ 0 \in Metrics \cup {NoMetric} /\ NoMetric \in Metrics \cup {NoMetric}
PROOF
  BY SearchAssumption

LEMMA SelectionsRefer ==
    ASSUME NEW nodes \in Seq(ExperimentNodes), NEW todo \in Selections(nodes)
    PROVE  RefersTo(todo, nodes)
PROOF
<1> DEFINE debugs == {[op |-> "debug", node |-> n] :
                        n \in {m \in ToDebug(nodes) : DebugDepth(nodes, m) < MaxDebugDepth}}
           best == BestOf(nodes, Good(nodes))
<1>1. \A n \in ToDebug(nodes) : n \in DOMAIN nodes
  <2>1. CASE Buggy(nodes) \cap Evaluated(nodes) # {}
    <3>1. BestOf(nodes, Buggy(nodes) \cap Evaluated(nodes)) \in Evaluated(nodes)
      BY <2>1, BestExists DEF Trees, ExperimentNodes
    <3> QED
      BY <2>1, <3>1 DEF ToDebug, Evaluated
  <2>2. CASE Buggy(nodes) \cap Evaluated(nodes) = {}
    BY <2>2 DEF ToDebug, Buggy
  <2> QED
    BY <2>1, <2>2
<1>2. Good(nodes) # {} => best \in DOMAIN nodes
  <2>1. Good(nodes) \in SUBSET Evaluated(nodes)
    BY DEF Good
  <2>2. Good(nodes) # {} => best \in Good(nodes)
    BY <2>1, BestExists DEF Trees, ExperimentNodes
  <2> QED
    BY <2>2 DEF Good, Evaluated
<1>3. \/ todo = [op |-> "draft", node |-> 0]
      \/ todo \in debugs
      \/ Good(nodes) # {} /\ todo = [op |-> "improve", node |-> best]
  BY DEF Selections
<1>4. CASE todo \in debugs
  <2>1. PICK n \in ToDebug(nodes) : todo = [op |-> "debug", node |-> n]
    BY <1>4
  <2> QED
    BY <1>1, <2>1 DEF RefersTo
<1>5. CASE Good(nodes) # {} /\ todo = [op |-> "improve", node |-> best]
  BY <1>2, <1>5 DEF RefersTo
<1> QED
  BY <1>3, <1>4, <1>5 DEF RefersTo

LEMMA WithResultType ==
    ASSUME NEW nodes \in Seq(ExperimentNodes), NEW todo, RefersTo(todo, nodes), NEW x \in Experiments,
           Len(nodes) <= MaxOperations
    PROVE  /\ WithResult(nodes, todo, x) \in Seq(ExperimentNodes)
           /\ Len(WithResult(nodes, todo, x)) <= Len(nodes) + 1
PROOF
<1> DEFINE metric == IF x.metric = NoMetric THEN 0 ELSE x.metric
<1>1. /\ metric \in Metrics \cup {NoMetric} /\ x.buggy \in BOOLEAN
  BY SearchAssumption
<1>2. Len(nodes) \in Nat /\ DOMAIN nodes = 1..Len(nodes)
  BY LenProperties
<1> HIDE DEF metric
<1>3. ASSUME NEW node \in ExperimentNodes
      PROVE  Grown(nodes, node) \in Seq(ExperimentNodes) /\ Len(Grown(nodes, node)) = Len(nodes) + 1
  BY AppendProperties DEF Grown
<1>4. CASE todo = [op |-> "draft", node |-> 0]
  <2>1. WithResult(nodes, todo, x) = Grown(nodes, Node(0, metric, x.buggy))
    BY <1>4 DEF WithResult, metric
  <2>2. Node(0, metric, x.buggy) \in ExperimentNodes
    BY <1>1, SearchNumbers DEF Node, ExperimentNodes
  <2> QED
    BY <1>2, <1>3, <2>1, <2>2
<1>5. ASSUME NEW n \in DOMAIN nodes, todo = [op |-> "improve", node |-> n]
      PROVE  /\ WithResult(nodes, todo, x) \in Seq(ExperimentNodes)
             /\ Len(WithResult(nodes, todo, x)) <= Len(nodes) + 1
  <2>1. WithResult(nodes, todo, x) = Grown(nodes, Node(n, metric, FALSE))
    BY <1>5 DEF WithResult, metric
  <2>2. Node(n, metric, FALSE) \in ExperimentNodes
    BY <1>1, <1>2, SearchNumbers DEF Node, ExperimentNodes
  <2>3. /\ Grown(nodes, Node(n, metric, FALSE)) \in Seq(ExperimentNodes)
        /\ Len(Grown(nodes, Node(n, metric, FALSE))) = Len(nodes) + 1
    BY <2>2, <1>3
  <2>4. Len(nodes) + 1 <= Len(nodes) + 1
    BY <1>2
  <2> QED
    BY <2>1, <2>3, <2>4, Zenon
<1>6. ASSUME NEW n \in DOMAIN nodes, todo = [op |-> "debug", node |-> n]
      PROVE  /\ WithResult(nodes, todo, x) \in Seq(ExperimentNodes)
             /\ Len(WithResult(nodes, todo, x)) <= Len(nodes) + 1
  <2>1. CASE x.buggy
    <3>1. WithResult(nodes, todo, x) = [nodes EXCEPT ![n].buggy = TRUE]
      BY <1>6, <2>1 DEF WithResult
    <3>2. [nodes EXCEPT ![n].buggy = TRUE] = [nodes EXCEPT ![n] = [nodes[n] EXCEPT !.buggy = TRUE]]
      OBVIOUS
    <3>3. nodes[n] \in ExperimentNodes
      BY <1>2, ElementOfSeq
    <3>4. [nodes[n] EXCEPT !.buggy = TRUE] \in ExperimentNodes
      BY <3>3 DEF ExperimentNodes
    <3> QED
      BY <1>2, <3>1, <3>2, <3>4, ExceptSeq
  <2>2. CASE ~x.buggy
    <3>1. WithResult(nodes, todo, x) = Grown(nodes, Node(n, NoMetric, FALSE))
      BY <1>6, <2>2 DEF WithResult
    <3>2. Node(n, NoMetric, FALSE) \in ExperimentNodes
      BY <1>2, SearchNumbers DEF Node, ExperimentNodes
    <3>3. /\ Grown(nodes, Node(n, NoMetric, FALSE)) \in Seq(ExperimentNodes)
          /\ Len(Grown(nodes, Node(n, NoMetric, FALSE))) = Len(nodes) + 1
      BY <3>2, <1>3
    <3>4. Len(nodes) + 1 <= Len(nodes) + 1
      BY <1>2
    <3> QED
      BY <3>1, <3>3, <3>4, Zenon
  <2> QED
    BY <2>1, <2>2
<1> QED
  BY <1>4, <1>5, <1>6 DEF RefersTo

LEMMA SearchTreesInit == SearchInit => TreesGrowSlowly
PROOF
<1> SUFFICES ASSUME SearchInit PROVE TreesGrowSlowly
  OBVIOUS
<1> DEFINE root == Node(0, NoMetric, FALSE)
<1>1. root \in ExperimentNodes
  BY SearchNumbers DEF Node, ExperimentNodes
<1> HIDE DEF root
<1>2. <<root>> \in Seq(ExperimentNodes) /\ Len(<<root>>) = 1
  BY <1>1
<1>3. saved = [phase |-> "experiment-design", nodes |-> <<root>>, pending |-> NoOperation] /\ held = saved
  BY DEF SearchInit, root
<1>4. operations = 0 /\ deaths = 0 /\ configured \in BOOLEAN /\ xpc = "off" /\ own = FALSE /\ broken = FALSE
  BY DEF SearchInit
<1>5. saved.nodes = <<root>> /\ saved.pending = NoOperation /\ saved.phase = "experiment-design"
  BY <1>3
<1>6. IsTree(saved) /\ IsTree(held)
  BY <1>2, <1>3, <1>4, <1>5 DEF IsTree, TreePhase
<1>7. SearchShape
  BY <1>3 DEF SearchShape
<1>8. 0 \in 0..MaxOperations /\ 0 \in 0..MaxDeaths
  BY SearchNumbers
<1>9. operations \in 0..MaxOperations /\ deaths \in 0..MaxDeaths
  BY <1>4, <1>8
<1> QED
  BY <1>4, <1>6, <1>7, <1>9 DEF TreesGrowSlowly

LEMMA SelectTrees ==
    ASSUME TreesGrowSlowly, SelectOperation
    PROVE  TreesGrowSlowly'
PROOF
<1>1. PICK todo \in Selections(held.nodes) : held' = [held EXCEPT !.pending = todo]
  BY DEF SelectOperation
<1>2. held' = [phase |-> held.phase, nodes |-> held.nodes, pending |-> todo]
  BY <1>1 DEF TreesGrowSlowly, SearchShape
<1>3. /\ saved' = held' /\ own' = TRUE /\ broken' = FALSE /\ xpc' = "execute"
      /\ operations < MaxOperations /\ operations' = operations + 1
      /\ UNCHANGED <<configured, deaths>>
  BY DEF SelectOperation
<1>4. held.nodes \in Seq(ExperimentNodes) /\ Len(held.nodes) \in Nat /\ Len(held.nodes) <= operations + 1
      /\ operations \in Nat
  BY LenProperties, SearchNumbers DEF TreesGrowSlowly, IsTree
<1>5. RefersTo(todo, held.nodes)
  BY <1>4, SelectionsRefer
<1>6. IsTree(held)'
  <2>1. held'.pending = todo /\ held'.nodes = held.nodes /\ held'.phase = held.phase
    BY <1>2
  <2>2. RefersTo(held'.pending, held'.nodes) /\ Len(held'.nodes) <= operations'
    BY <1>3, <1>4, <1>5, <2>1
  <2>3. held'.nodes \in Seq(ExperimentNodes) /\ held'.phase \in TreePhase \cup {"critique"}
    BY <1>4, <2>1 DEF TreesGrowSlowly, IsTree
  <2> QED
    BY <2>2, <2>3 DEF IsTree, RefersTo, ExperimentNodes, TreePhase, NoOperation
<1>7. IsTree(saved)'
  BY <1>3, <1>6 DEF IsTree, RefersTo, ExperimentNodes, TreePhase, NoOperation
<1>8. SearchShape'
  BY <1>2, <1>3 DEF SearchShape
<1>9. operations' \in 0..MaxOperations
  BY <1>3, <1>4, SearchNumbers
<1> QED
  BY <1>3, <1>6, <1>7, <1>8, <1>9 DEF TreesGrowSlowly

LEMMA ApplyTrees ==
    ASSUME TreesGrowSlowly, ApplyResult
    PROVE  TreesGrowSlowly'
PROOF
<1>1. PICK x \in Experiments :
        held' = [saved EXCEPT
                   !.pending = NoOperation,
                   !.nodes = IF saved.pending # NoOperation /\ x.code
                               THEN WithResult(@, saved.pending, x) ELSE @]
  BY DEF ApplyResult
<1> DEFINE grown == IF saved.pending # NoOperation /\ x.code
                      THEN WithResult(saved.nodes, saved.pending, x) ELSE saved.nodes
           cleared == [phase |-> saved.phase, nodes |-> saved.nodes, pending |-> NoOperation]
<1>2. [saved EXCEPT !.pending = NoOperation] = cleared
  BY DEF TreesGrowSlowly, SearchShape
<1>3. held' = [saved EXCEPT !.pending = NoOperation, !.nodes = grown]
  BY <1>1
<1>4. grown \in Seq(ExperimentNodes) /\ Len(grown) <= operations + 1
  <2>1. saved.nodes \in Seq(ExperimentNodes) /\ Len(saved.nodes) \in Nat /\ operations \in Nat
        /\ operations <= MaxOperations /\ Len(saved.nodes) <= operations + 1
    BY LenProperties, SearchNumbers DEF TreesGrowSlowly, IsTree
  <2>2. CASE saved.pending # NoOperation /\ x.code
    <3>1. RefersTo(saved.pending, saved.nodes) /\ Len(saved.nodes) <= operations
      BY <2>2 DEF TreesGrowSlowly, IsTree
    <3>2. Len(saved.nodes) <= MaxOperations
      BY <2>1, <3>1, SearchNumbers
    <3>3. /\ WithResult(saved.nodes, saved.pending, x) \in Seq(ExperimentNodes)
          /\ Len(WithResult(saved.nodes, saved.pending, x)) <= Len(saved.nodes) + 1
      BY <2>1, <3>1, <3>2, WithResultType
    <3>4. Len(WithResult(saved.nodes, saved.pending, x)) \in Nat
      BY <3>3, LenProperties
    <3> QED
      BY <2>1, <2>2, <3>1, <3>3, <3>4
  <2>3. CASE ~(saved.pending # NoOperation /\ x.code)
    BY <2>1, <2>3
  <2> QED
    BY <2>2, <2>3
<1> HIDE DEF grown
<1>5. [cleared EXCEPT !.nodes = grown] = [phase |-> saved.phase, nodes |-> grown, pending |-> NoOperation]
  OBVIOUS
<1> HIDE DEF cleared
<1>6. held' = [cleared EXCEPT !.nodes = grown]
  BY <1>2, <1>3, Zenon
<1>7. held' = [phase |-> saved.phase, nodes |-> grown, pending |-> NoOperation]
  BY <1>5, <1>6
<1>8. UNCHANGED <<configured, saved, own, broken, operations, deaths>> /\ xpc' = "save"
  BY DEF ApplyResult, searchBounds
<1>9. IsTree(held)'
  <2>1. held'.pending = NoOperation /\ held'.nodes = grown /\ held'.phase = saved.phase
    BY <1>7
  <2> QED
    BY <1>4, <1>8, <2>1 DEF TreesGrowSlowly, IsTree, TreePhase, ExperimentNodes, NoOperation
<1>10. IsTree(saved)'
  BY <1>8 DEF TreesGrowSlowly, IsTree, RefersTo, TreePhase, ExperimentNodes, NoOperation
<1>11. SearchShape'
  BY <1>7, <1>8 DEF SearchShape, TreesGrowSlowly
<1> QED
  BY <1>8, <1>9, <1>10, <1>11 DEF TreesGrowSlowly

LEMMA MoveTrees ==
    ASSUME TreesGrowSlowly, MovePhase
    PROVE  TreesGrowSlowly'
PROOF
<1>1. PICK p \in {"experiment-design", "execution", "critique"} : saved' = [saved EXCEPT !.phase = p]
  BY DEF MovePhase
<1>2. saved' = [phase |-> p, nodes |-> saved.nodes, pending |-> saved.pending]
  BY <1>1 DEF TreesGrowSlowly, SearchShape
<1>3. UNCHANGED <<configured, held, xpc, own, broken, operations, deaths>>
  BY DEF MovePhase, searchBounds
<1>4. saved'.pending = saved.pending /\ saved'.nodes = saved.nodes /\ saved'.phase = p
  BY <1>2
<1>5. IsTree(saved)' /\ IsTree(held)'
  BY <1>3, <1>4 DEF TreesGrowSlowly, IsTree, RefersTo, TreePhase, ExperimentNodes, NoOperation
<1>6. SearchShape'
  BY <1>2, <1>3 DEF SearchShape, TreesGrowSlowly
<1> QED
  BY <1>3, <1>5, <1>6 DEF TreesGrowSlowly

\* The steps that copy one of the two states to the other, or neither.
LEMMA CopiedTrees ==
    ASSUME TreesGrowSlowly,
           held' \in {held, saved}, saved' \in {held, saved},
           operations' \in {operations, operations + 1}, operations' \in 0..MaxOperations,
           UNCHANGED configured, own' \in BOOLEAN, broken' \in BOOLEAN,
           xpc' \in {"off", "decide", "execute", "save"}, deaths' \in 0..MaxDeaths
    PROVE  TreesGrowSlowly'
PROOF
<1>1. ASSUME NEW s \in {held, saved}
      PROVE  /\ s.phase \in TreePhase \cup {"critique"}
             /\ s.nodes \in Seq(ExperimentNodes)
             /\ \/ s.pending = NoOperation /\ Len(s.nodes) <= operations' + 1
                \/ RefersTo(s.pending, s.nodes) /\ Len(s.nodes) <= operations'
  <2>1. IsTree(s)
    BY DEF TreesGrowSlowly
  <2>2. Len(s.nodes) \in Nat /\ operations \in Nat
    BY <2>1, LenProperties, SearchNumbers DEF IsTree, TreesGrowSlowly
  <2> QED
    BY <2>1, <2>2 DEF IsTree
<1>2. IsTree(held)'
  BY <1>1 DEF IsTree, RefersTo, TreePhase, ExperimentNodes, NoOperation
<1>3. IsTree(saved)'
  BY <1>1 DEF IsTree, RefersTo, TreePhase, ExperimentNodes, NoOperation
<1>4. SearchShape'
  BY DEF TreesGrowSlowly, SearchShape
<1> QED
  BY <1>2, <1>3, <1>4 DEF TreesGrowSlowly

LEMMA SearchTrees ==
    ASSUME TreesGrowSlowly, [SearchNext]_searchVars
    PROVE  TreesGrowSlowly'
PROOF
<1>1. CASE SearchBegins \/ SaveSearch
  BY <1>1, CopiedTrees DEF SearchBegins, SaveSearch, searchBounds, TreesGrowSlowly
<1>2. CASE OrdinaryDispatch
  <2>1. operations' \in 0..MaxOperations
    BY <1>2, SearchNumbers DEF OrdinaryDispatch, TreesGrowSlowly
  <2> QED
    BY <1>2, <2>1, CopiedTrees DEF OrdinaryDispatch, TreesGrowSlowly
<1>3. CASE SearchRaises \/ SearchDies
  <2>1. deaths' \in 0..MaxDeaths
    BY <1>3, SearchNumbers DEF SearchRaises, SearchDies, TreesGrowSlowly
  <2> QED
    BY <1>3, <2>1, CopiedTrees DEF SearchRaises, SearchDies, TreesGrowSlowly
<1>4. CASE UNCHANGED searchVars
  BY <1>4, CopiedTrees DEF searchVars, searchBounds, TreesGrowSlowly
<1> QED
  BY <1>1, <1>2, <1>3, <1>4, SelectTrees, ApplyTrees, MoveTrees DEF SearchNext

\* For any tree parameters, metrics and payloads the search keeps its types: what it
\* selects is a node of its tree, and the tree grows by at most one per operation.
LEMMA SearchTypeCorrect == SearchSpec => []SearchTypeOK
PROOF
<1>1. TreesGrowSlowly => SearchTypeOK
  <2> SUFFICES ASSUME TreesGrowSlowly PROVE SearchTypeOK
    OBVIOUS
  <2>1. ASSUME NEW s, IsTree(s)
        PROVE  IsSearchState(s)
    <3>1. s.nodes \in Seq(ExperimentNodes) /\ DOMAIN s.nodes = 1..Len(s.nodes) /\ Len(s.nodes) \in Nat
      BY <2>1, LenProperties DEF IsTree
    <3>2. s.pending \in Todo
      <4>1. CASE s.pending = NoOperation
        BY <4>1, SearchNumbers DEF NoOperation, Todo
      <4>2. CASE RefersTo(s.pending, s.nodes) /\ Len(s.nodes) <= operations
        <5>1. operations \in Nat /\ operations <= MaxOperations
          BY SearchNumbers DEF TreesGrowSlowly
        <5>2. \A n \in DOMAIN s.nodes : n \in 0..(MaxOperations + 1)
          BY <3>1, <4>2, <5>1, SearchNumbers
        <5>3. 0 \in 0..(MaxOperations + 1)
          BY SearchNumbers
        <5>4. CASE s.pending = [op |-> "draft", node |-> 0]
          BY <5>3, <5>4 DEF Todo
        <5>5. ASSUME NEW n \in DOMAIN s.nodes,
                     s.pending = [op |-> "improve", node |-> n] \/ s.pending = [op |-> "debug", node |-> n]
              PROVE  s.pending \in Todo
          BY <5>2, <5>5 DEF Todo
        <5> QED
          BY <4>2, <5>4, <5>5 DEF RefersTo
      <4> QED
        BY <2>1, <4>1, <4>2 DEF IsTree
    <3> QED
      BY <2>1, <3>1, <3>2 DEF IsTree, IsSearchState, ExperimentNodes, Todo
  <2> QED
    BY <2>1 DEF TreesGrowSlowly, SearchTypeOK
<1>2. TreesGrowSlowly /\ [SearchNext]_searchVars => TreesGrowSlowly'
  BY SearchTrees
<1> QED
  BY SearchTreesInit, <1>1, <1>2, PTL DEF SearchSpec

----------------------------------------------------------------------------
(* The executors together.                                                 *)

\* Whichever executor runs, each of them behaves as its own specification says.
LEMMA ExecutorsBehaviours ==
    ExecutorsSpec => QueueSpec /\ AgentSpec /\ ProviderSpec /\ SubSpec /\ SearchSpec
PROOF
<1>1. ExecutorsInit => QueueInit /\ AgentInit /\ ProviderInit /\ SubInit /\ SearchInit
  BY DEF ExecutorsInit
<1>2. [ExecutorsNext]_executorVars => [QueueNext]_queueVars
  BY DEF ExecutorsNext, executorVars
<1>3. [ExecutorsNext]_executorVars => [AgentNext]_agentVars
  BY DEF ExecutorsNext, executorVars
<1>4. [ExecutorsNext]_executorVars => [ProviderNext]_providerVars
  BY DEF ExecutorsNext, executorVars
<1>5. [ExecutorsNext]_executorVars => [SubNext]_subVars
  BY DEF ExecutorsNext, executorVars
<1>6. [ExecutorsNext]_executorVars => [SearchNext]_searchVars
  BY DEF ExecutorsNext, executorVars
<1> QED
  BY <1>1, <1>2, <1>3, <1>4, <1>5, <1>6, PTL
  DEF ExecutorsSpec, QueueSpec, AgentSpec, ProviderSpec, SubSpec, SearchSpec

\* Everything the executors keep stays well typed, whichever of them runs.
THEOREM ExecutorsTypeCorrect == ExecutorsSpec => []ExecutorsTypeOK
PROOF
<1>1. ProviderInv => ProviderTypeOK
  BY DEF ProviderInv
<1>2. SubInv => SubTypeOK
  BY DEF SubInv
<1>3. QueueTypeOK /\ AgentTypeOK /\ ProviderTypeOK /\ SubTypeOK /\ SearchTypeOK => ExecutorsTypeOK
  BY DEF ExecutorsTypeOK
<1> QED
  BY <1>1, <1>2, <1>3, ExecutorsBehaviours, QueueTypes, AgentTypeCorrect, ProviderInvariance,
     SubInvariance, SearchTypeCorrect, PTL
=============================================================================
