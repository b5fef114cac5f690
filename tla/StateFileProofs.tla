--------------------------- MODULE StateFileProofs ---------------------------
(***************************************************************************)
(* StateFile for any number of writers, edits and crashes: types and locks,*)
(* the implementation of StateRegister, and what callers that take turns   *)
(* may rely on.                                                            *)
(***************************************************************************)
EXTENDS StateFile, TLAPS

Steps(w) == LoadAndEdit(w) \/ Initialise(w) \/ WriteStep(w) \/ Crash(w)

LEMMA InitType == Init => TypeOK
PROOF
<1> SUFFICES ASSUME Init PROVE TypeOK
  OBVIOUS
<1>1. edits \in [Writer -> 0..MaxEdits] /\ pc \in [Writer -> Places]
  BY FileAssumption DEF Init, Places
<1>2. payload \in [Writer -> SUBSET Edit] /\ lock \in [Writer -> Nat] /\ handle \in [Writer -> Nat]
  BY DEF Init
<1> QED
  BY <1>1, <1>2 DEF Init, TypeOK

\* Preparing a state changes one writer's payload, count and place.
LEMMA PrepareType ==
    ASSUME TypeOK, NEW w \in Writer, NEW from \in SUBSET Edit, Prepare(w, from)
    PROVE  /\ payload' \in [Writer -> SUBSET Edit]
           /\ edits' \in [Writer -> 0..MaxEdits]
           /\ pc' \in [Writer -> Places]
           /\ pc'[w] = "ready"
           /\ \E e \in Edit : payload' = [payload EXCEPT ![w] = from \cup {e}]
PROOF
<1> DEFINE e == <<w, edits'[w]>>
<1>1. edits[w] + 1 \in 1..MaxEdits
  BY FileAssumption DEF Prepare, MayBegin, TypeOK
<1>2. edits' = [edits EXCEPT ![w] = edits[w] + 1] /\ edits'[w] = edits[w] + 1
  BY DEF Prepare, TypeOK
<1>3. e \in Edit
  BY <1>1, <1>2 DEF Edit
<1>4. payload' = [payload EXCEPT ![w] = from \cup {e}]
  BY DEF Prepare
<1>5. edits' \in [Writer -> 0..MaxEdits]
  BY <1>1, <1>2, FileAssumption DEF TypeOK
<1>6. payload' \in [Writer -> SUBSET Edit]
  BY <1>3, <1>4 DEF TypeOK
<1>7. pc' \in [Writer -> Places] /\ pc'[w] = "ready"
  BY DEF Prepare, Goto, TypeOK, Places
<1> QED
  BY <1>3, <1>4, <1>5, <1>6, <1>7

LEMMA StepType ==
    ASSUME TypeOK, NEW w \in Writer, Steps(w)
    PROVE  TypeOK'
PROOF
<1>1. CASE LoadAndEdit(w)
  <2>1. content \in SUBSET Edit /\ Prepare(w, content)
    BY <1>1 DEF LoadAndEdit, TypeOK
  <2> QED
    BY <1>1, <2>1, PrepareType DEF LoadAndEdit, Prepare, TypeOK, file, shown
<1>2. CASE Initialise(w)
  <2>1. {} \in SUBSET Edit /\ Prepare(w, {})
    BY <1>2 DEF Initialise
  <2> QED
    BY <1>2, <2>1, PrepareType DEF Initialise, Prepare, TypeOK, file, shown
<1>3. CASE Open(w)
  BY <1>3 DEF Open, Goto, TypeOK, shown, Places
<1>4. CASE Lock(w) \/ GiveUp(w) \/ ReturnDescriptor(w) \/ Release(w)
  BY <1>4 DEF Lock, GiveUp, ReturnDescriptor, Release, Goto, TypeOK, file, shown, Places
<1>5. CASE Replace(w)
  BY <1>5 DEF Replace, Goto, TypeOK, shown, Places
<1>6. CASE SyncSummary(w) \/ FirstSummary(w)
  BY <1>6 DEF SyncSummary, FirstSummary, Goto, TypeOK, file, Places
<1>7. CASE Crash(w)
  BY <1>7 DEF Crash, Goto, TypeOK, file, shown, Places
<1> QED
  BY <1>1, <1>2, <1>3, <1>4, <1>5, <1>6, <1>7 DEF Steps, WriteStep

LEMMA NextType == TypeOK /\ [Next]_vars => TypeOK'
PROOF
<1> SUFFICES ASSUME TypeOK, [Next]_vars PROVE TypeOK'
  OBVIOUS
<1>1. CASE UNCHANGED vars
  BY <1>1 DEF vars, TypeOK
<1>2. CASE Next
  <2>1. PICK w \in Writer : Steps(w)
    BY <1>2 DEF Next, Steps
  <2> QED
    BY <2>1, StepType
<1> QED
  BY <1>1, <1>2

\* Every variable keeps its type, however many processes write and die.
THEOREM FileTypeCorrect == Spec => []TypeOK
PROOF
  BY InitType, NextType, PTL DEF Spec

----------------------------------------------------------------------------
(* Locks.                                                                  *)

LEMMA StepLocks ==
    ASSUME TypeOK, LocksAreLive, NEW w \in Writer, Steps(w)
    PROVE  LocksAreLive'
PROOF
<1> SUFFICES ASSUME NEW v \in Writer, lock'[v] # 0
             PROVE  pc'[v] = "acquired" /\ lock'[v] = handle'[v]
  BY DEF LocksAreLive
<1>1. CASE LoadAndEdit(w) \/ Initialise(w)
  BY <1>1 DEF LoadAndEdit, Initialise, Prepare, MayBegin, Goto, TypeOK, LocksAreLive
<1>2. CASE Open(w)
  BY <1>2 DEF Open, Goto, TypeOK, LocksAreLive
<1>3. CASE Lock(w) \/ GiveUp(w) \/ ReturnDescriptor(w) \/ Release(w)
  BY <1>3 DEF Lock, GiveUp, ReturnDescriptor, Release, Goto, TypeOK, LocksAreLive
<1>4. CASE Replace(w) \/ SyncSummary(w) \/ FirstSummary(w)
  BY <1>4 DEF Replace, SyncSummary, FirstSummary, Goto, TypeOK, LocksAreLive
<1>5. CASE Crash(w)
  BY <1>5 DEF Crash, Goto, TypeOK, LocksAreLive
<1> QED
  BY <1>1, <1>2, <1>3, <1>4, <1>5 DEF Steps, WriteStep

\* No call and no death of a process leaves a lock behind, so that the lock can
\* make a write be skipped only while another process is acquiring it.
THEOREM LocksNeverLeak == Spec => []LocksAreLive
PROOF
<1>1. Init => LocksAreLive
  BY DEF Init, LocksAreLive
<1>2. TypeOK /\ LocksAreLive /\ [Next]_vars => LocksAreLive'
  <2> SUFFICES ASSUME TypeOK, LocksAreLive, [Next]_vars PROVE LocksAreLive'
    OBVIOUS
  <2>1. CASE UNCHANGED vars
    BY <2>1 DEF vars, LocksAreLive
  <2>2. CASE Next
    <3>1. PICK w \in Writer : Steps(w)
      BY <2>2 DEF Next, Steps
    <3> QED
      BY <3>1, StepLocks
  <2> QED
    BY <2>1, <2>2
<1> QED
  BY <1>1, <1>2, FileTypeCorrect, PTL DEF Spec

----------------------------------------------------------------------------
(* The implementation of StateRegister.                                    *)

Call == [w \in Writer |->
            CASE pc[w] \in {"idle", "first"} -> "none"
              [] pc[w] \in {"ready", "acquire", "acquired", "replace"} -> "pending"
              [] pc[w] \in {"summary", "release"} -> "effective"]

\* One writer's step is a step of the register, or none.
LEMMA StepImplements ==
    ASSUME TypeOK, NEW w \in Writer, Steps(w)
    PROVE  [Register!Next]_(Register!register)
PROOF
<1> DEFINE Value == IF valid THEN {content} ELSE {}
<1> USE DEF Register!register
<1>1. Register!Next <=> \E v \in Writer : Register!Begin(v) \/ Register!Commit(v) \/ Register!End(v)
  BY DEF Register!Next
<1>a. CASE LoadAndEdit(w) \/ Initialise(w)
  <2>0. PICK from \in SUBSET Edit : Prepare(w, from) /\ from \in {UNION Value, {}}
    <3>1. CASE LoadAndEdit(w)
      <4>1. UNION Value = content
        BY <3>1 DEF LoadAndEdit
      <4>2. content \in SUBSET Edit /\ Prepare(w, content)
        BY <3>1 DEF LoadAndEdit, TypeOK
      <4> QED
        BY <4>1, <4>2
    <3>2. CASE Initialise(w)
      BY <3>2 DEF Initialise
    <3> QED
      BY <1>a, <3>1, <3>2
  <2>1. \E old \in {UNION Value, {}}, e \in Edit : payload' = [payload EXCEPT ![w] = old \cup {e}]
    <3>1. \E e \in Edit : payload' = [payload EXCEPT ![w] = from \cup {e}]
      BY <2>0, PrepareType
    <3> HIDE DEF Value
    <3> QED
      BY <2>0, <3>1
  <2>2. Call[w] = "none" /\ Call' = [Call EXCEPT ![w] = "pending"]
    <3>1. pc[w] = "idle" /\ pc' = [pc EXCEPT ![w] = "ready"]
      BY <2>0 DEF Prepare, MayBegin, Goto
    <3> QED
      BY <3>1 DEF TypeOK, Call, Places
  <2>3. UNCHANGED Value
    BY <1>a DEF LoadAndEdit, Initialise, Prepare, file
  <2>4. Register!Begin(w)
    BY <2>1, <2>2, <2>3 DEF Register!Begin, Call
  <2> QED
    BY <1>1, <2>4
<1>b. CASE Open(w) \/ Lock(w) \/ ReturnDescriptor(w) \/ SyncSummary(w) \/ FirstSummary(w)
  <2>1. Call' = Call
    BY <1>b DEF Open, Lock, ReturnDescriptor, SyncSummary, FirstSummary, Goto, TypeOK, Call, Places
  <2>2. UNCHANGED <<Value, payload>>
    BY <1>b DEF Open, Lock, ReturnDescriptor, SyncSummary, FirstSummary, file
  <2> QED
    BY <2>1, <2>2 DEF Call
<1>c. CASE GiveUp(w) \/ Release(w)
  <2>1. Call[w] # "none" /\ Call' = [Call EXCEPT ![w] = "none"]
    BY <1>c DEF GiveUp, Release, Goto, TypeOK, Call, Places
  <2>2. UNCHANGED <<Value, payload>>
    BY <1>c DEF GiveUp, Release, file
  <2>3. Register!End(w)
    BY <2>1, <2>2 DEF Register!End, Call
  <2> QED
    BY <1>1, <2>3
<1>d. CASE Replace(w)
  <2>1. Call[w] = "pending" /\ Call' = [Call EXCEPT ![w] = "effective"]
    BY <1>d DEF Replace, Goto, TypeOK, Call, Places
  <2>2. Value' = {payload[w]} /\ UNCHANGED payload
    BY <1>d DEF Replace
  <2>3. Register!Commit(w)
    BY <2>1, <2>2 DEF Register!Commit, Call
  <2> QED
    BY <1>1, <2>3
<1>e. CASE Crash(w)
  <2>1. UNCHANGED <<Value, payload>>
    BY <1>e DEF Crash, file
  <2>2. Call' = [Call EXCEPT ![w] = "none"]
    BY <1>e DEF Crash, Goto, TypeOK, Call, Places
  <2>3. CASE Call[w] = "none"
    <3>1. Call' = Call
      BY <2>2, <2>3 DEF Call
    <3> QED
      BY <2>1, <3>1 DEF Call
  <2>4. CASE Call[w] # "none"
    <3>1. Register!End(w)
      BY <2>1, <2>2, <2>4 DEF Register!End, Call
    <3> QED
      BY <1>1, <3>1
  <2> QED
    BY <2>3, <2>4
<1> QED
  BY <1>a, <1>b, <1>c, <1>d, <1>e DEF Steps, WriteStep

\* Whoever writes and whoever dies, readers see the mission state change from
\* one whole, loaded and edited state to another; a skipped write or a dead
\* writer changes nothing.
THEOREM WritesAreWhole == Spec => WritesAreAtomic
PROOF
<1>1. Init => Register!Init
  <2> SUFFICES ASSUME Init PROVE Register!Init
    OBVIOUS
  <2>1. Call = [w \in Writer |-> "none"]
    BY DEF Init, Call
  <2> QED
    BY <2>1 DEF Init, Register!Init, Call
<1>2. TypeOK /\ [Next]_vars => [Register!Next]_(Register!register)
  <2> SUFFICES ASSUME TypeOK, [Next]_vars PROVE [Register!Next]_(Register!register)
    OBVIOUS
  <2>1. CASE UNCHANGED vars
    BY <2>1 DEF vars, Register!register
  <2>2. CASE Next
    <3>1. PICK w \in Writer : Steps(w)
      BY <2>2 DEF Next, Steps
    <3> QED
      BY <3>1, StepImplements
  <2> QED
    BY <2>1, <2>2
<1> QED
  BY <1>1, <1>2, FileTypeCorrect, PTL DEF Spec, WritesAreAtomic, Register!Spec
----------------------------------------------------------------------------
(* Callers that take turns.                                                *)

\* With Turns, a caller begins only when no other call is under way.
LEMMA BeginAlone ==
    ASSUME Turns, TurnsInv, NEW w \in Writer, LoadAndEdit(w) \/ Initialise(w)
    PROVE  TurnsInv'
PROOF
<1>1. TypeOK'
  BY StepType DEF Steps, TurnsInv
<1>2. PICK from \in SUBSET Edit : Prepare(w, from) /\ (valid => from = content \/ w \in creating')
  BY DEF LoadAndEdit, Initialise, TurnsInv, TypeOK
<1>3. (\A v \in Writer : pc[v] = "idle") /\ pc' = [pc EXCEPT ![w] = "ready"]
  BY <1>2 DEF Prepare, MayBegin, Goto
<1>4. pc' = [v \in Writer |-> IF v = w THEN "ready" ELSE "idle"]
  BY <1>3 DEF TurnsInv, TypeOK
<1>5. valid => content \subseteq payload'[w] \/ w \in creating'
  <2>1. payload'[w] = from \cup {<<w, edits'[w]>>}
    BY <1>2 DEF Prepare, TurnsInv, TypeOK
  <2> QED
    BY <1>2, <2>1
<1>6. UNCHANGED <<valid, content>>
  BY <1>2 DEF Prepare, file
<1> QED
  BY <1>1, <1>4, <1>5, <1>6 DEF TurnsInv, SummaryFollows

\* The step of the one caller that is writing.
LEMMA WriteAlone ==
    ASSUME Turns, TurnsInv, NEW w \in Writer, WriteStep(w) \/ Crash(w)
    PROVE  TurnsInv'
PROOF
<1>1. TypeOK'
  BY StepType DEF Steps, TurnsInv
<1>2. pc[w] # "idle" /\ \E place \in Places : pc' = [pc EXCEPT ![w] = place]
  BY DEF WriteStep, Open, Lock, GiveUp, ReturnDescriptor, Replace, SyncSummary,
         Release, FirstSummary, Crash, Goto, Places
<1>3. \A v \in Writer : v # w => pc[v] = "idle" /\ pc'[v] = "idle"
  BY <1>2 DEF TurnsInv, TypeOK
<1>4. \A u, v \in Writer : pc'[u] # "idle" /\ pc'[v] # "idle" => u = v
  BY <1>3
<1>5. pc'[w] \in {"ready", "acquire", "acquired", "replace"} /\ valid'
         => content' \subseteq payload'[w] \/ w \in creating'
  BY DEF WriteStep, Open, Lock, GiveUp, ReturnDescriptor, Replace, SyncSummary,
         Release, FirstSummary, Crash, Goto, file, TurnsInv, TypeOK
<1>6. pc'[w] = "summary" => content' = payload'[w]
  BY DEF WriteStep, Open, Lock, GiveUp, ReturnDescriptor, Replace, SyncSummary,
         Release, FirstSummary, Crash, Goto, file, TurnsInv, TypeOK
<1>7. pc'[w] = "release" /\ hasSummary' => summary' = content'
  BY DEF WriteStep, Open, Lock, GiveUp, ReturnDescriptor, Replace, SyncSummary,
         Release, FirstSummary, Crash, Goto, file, shown, TurnsInv, TypeOK
<1> QED
  BY <1>1, <1>3, <1>4, <1>5, <1>6, <1>7 DEF TurnsInv, SummaryFollows

LEMMA TurnsStep == Turns /\ TurnsInv /\ [Next]_vars => TurnsInv'
PROOF
<1> SUFFICES ASSUME Turns, TurnsInv, [Next]_vars PROVE TurnsInv'
  OBVIOUS
<1>1. CASE UNCHANGED vars
  BY <1>1 DEF vars, TurnsInv, TypeOK, SummaryFollows
<1>2. CASE Next
  <2>1. PICK w \in Writer : Steps(w)
    BY <1>2 DEF Next, Steps
  <2> QED
    BY <2>1, BeginAlone, WriteAlone DEF Steps
<1> QED
  BY <1>1, <1>2

LEMMA TurnsInit == Init => TurnsInv
PROOF
  BY InitType DEF Init, TurnsInv, SummaryFollows

\* Callers that take turns: the only writer under way holds everything the file
\* holds, and the file holds what it wrote until it is done.
THEOREM TurnsInvariance == ASSUME Turns PROVE Spec => []TurnsInv
PROOF
<1>1. TurnsInv /\ [Next]_vars => TurnsInv'
  BY TurnsStep
<1> QED
  BY <1>1, TurnsInit, PTL DEF Spec

\* Callers that take turns find the summary in line with the state after every
\* write that gets that far.
THEOREM SummaryIsCurrent == ASSUME Turns PROVE Spec => []SummaryFollows
PROOF
<1>1. TurnsInv => SummaryFollows
  BY DEF TurnsInv
<1> QED
  BY <1>1, TurnsInvariance, PTL

\* Callers that take turns never lose an edit, whichever of them dies where: the
\* outer loop and the executor it waits for may rely on the file alone, as long as
\* nobody initialises the mission again.
THEOREM EditsAreKept == ASSUME Turns PROVE Spec => NoLostEdits
PROOF
<1>1. TurnsInv /\ [Next]_vars =>
        [valid => valid' /\ (content \subseteq content' \/ \E w \in creating : Replace(w))]_vars
  <2> SUFFICES ASSUME TurnsInv, Next
               PROVE  valid => valid' /\ (content \subseteq content' \/ \E w \in creating : Replace(w))
    OBVIOUS
  <2>1. PICK w \in Writer : Steps(w)
    BY DEF Next, Steps
  <2>2. CASE Replace(w)
    BY <2>2 DEF Replace, TurnsInv
  <2>3. CASE ~Replace(w)
    <3>1. UNCHANGED <<valid, content>>
      BY <2>1, <2>3 DEF Steps, WriteStep, LoadAndEdit, Initialise, Prepare, Open, Lock, GiveUp,
                        ReturnDescriptor, SyncSummary, Release, FirstSummary, Crash, file
    <3> QED
      BY <3>1
  <2> QED
    BY <2>2, <2>3
<1> QED
  BY <1>1, TurnsInvariance, PTL DEF Spec, NoLostEdits
=============================================================================
