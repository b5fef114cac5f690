---------------------------- MODULE StateRegister ----------------------------
(***************************************************************************)
(* What mission_state.py promises its callers: one mission state that      *)
(* every reader sees whole. A caller takes a state it has loaded, adds its *)
(* own edit and asks for it to be written; the write takes effect at one   *)
(* moment, or, when it is skipped or its process dies, not at all.         *)
(***************************************************************************)
CONSTANTS
    Writer,     \* the processes that write the mission state
    Edit        \* what they add to it

VARIABLES
    value,      \* holds the mission state, a set of edits; empty without a readable one
    call,       \* per writer: no call, a call not yet effective, an effective one
    payload     \* per writer: the state it asked to be written

register == <<value, call, payload>>

Init ==
    /\ value = {}
    /\ call = [w \in Writer |-> "none"]
    /\ payload = [w \in Writer |-> {}]

\* A caller loads the state, or starts a new one, and adds an edit.
Begin(w) ==
    /\ call[w] = "none"
    /\ call' = [call EXCEPT ![w] = "pending"]
    /\ \E from \in {UNION value, {}}, e \in Edit :
         payload' = [payload EXCEPT ![w] = from \cup {e}]
    /\ UNCHANGED value

Commit(w) ==
    /\ call[w] = "pending"
    /\ call' = [call EXCEPT ![w] = "effective"]
    /\ value' = {payload[w]}
    /\ UNCHANGED payload

\* The call returns, or its process dies; a pending call was skipped.
End(w) ==
    /\ call[w] # "none"
    /\ call' = [call EXCEPT ![w] = "none"]
    /\ UNCHANGED <<value, payload>>

Next == \E w \in Writer : Begin(w) \/ Commit(w) \/ End(w)

Spec == Init /\ [][Next]_register
=============================================================================
