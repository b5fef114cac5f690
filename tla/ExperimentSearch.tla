-------------------------- MODULE ExperimentSearch --------------------------
(***************************************************************************)
(* The search over experiments (research/tree_search.py) as the outer loop *)
(* uses it: in the phases experiment-design and execution decide() selects *)
(* the next operation on the tree kept in the mission state, an agent is   *)
(* dispatched for it, and what its payload says of an experiment becomes a *)
(* node.                                                                   *)
(*                                                                         *)
(* The operation waits in the state until some executor returns. A process *)
(* that dies meanwhile leaves it there.                                    *)
(***************************************************************************)
EXTENDS Integers, FiniteSets, Sequences

CONSTANTS
    NumDrafts,       \* num_drafts of the tree
    MaxDebugDepth,   \* max_debug_depth
    HigherIsBetter,  \* direction of the mission's metric
    Metrics,         \* metrics an experiment may have
    NoMetric,
    Experiments,     \* what payloads hold: [code, metric, buggy]
    MaxOperations,   \* bound: decisions of the tree
    MaxDeaths        \* bound: processes that die, and executors that raise

ASSUME SearchAssumption ==
    /\ NumDrafts \in Nat \ {0} /\ MaxDebugDepth \in Nat \ {0}
    /\ HigherIsBetter \in BOOLEAN
    /\ Metrics \subseteq Int /\ 0 \in Metrics /\ NoMetric \notin Int
    /\ Experiments \subseteq [code : BOOLEAN, metric : Metrics \cup {NoMetric}, buggy : BOOLEAN]
    /\ MaxOperations \in Nat /\ MaxDeaths \in Nat

VARIABLES
    configured, \* whether a config of the recursive agent is found
    held,       \* the state of the process: [phase, nodes, pending]
    saved,      \* mission_state.json
    xpc,        \* the process: "off", "decide", "execute", "save"
    own,        \* history: the executor that runs is of the pending operation
    broken,     \* history: a process died with an operation pending
    operations, deaths

searchVars == <<configured, held, saved, xpc, own, broken, operations, deaths>>
searchBounds == <<operations, deaths>>

TreePhase == {"experiment-design", "execution"}
NoOperation == [op |-> "none", node |-> 0]
Node(parent, metric, buggy) == [parent |-> parent, metric |-> metric, buggy |-> buggy]

----------------------------------------------------------------------------
(* The tree: its nodes in the order they were added; drafts have parent 0. *)

Drafts(nodes) == {n \in DOMAIN nodes : nodes[n].parent = 0}
Evaluated(nodes) == {n \in DOMAIN nodes : nodes[n].metric # NoMetric}
Buggy(nodes) == {n \in DOMAIN nodes : nodes[n].buggy}
Better(a, b) == IF HigherIsBetter THEN a > b ELSE a < b

\* The first of those with the best metric.
BestOf(nodes, among) ==
    CHOOSE n \in among : \A m \in among :
        \/ Better(nodes[n].metric, nodes[m].metric)
        \/ nodes[n].metric = nodes[m].metric /\ n <= m

Good(nodes) == Evaluated(nodes) \ Buggy(nodes)

\* A buggy node without a metric is taken by its random identifier.
ToDebug(nodes) ==
    LET measured == Buggy(nodes) \cap Evaluated(nodes)
    IN  IF measured # {} THEN {BestOf(nodes, measured)} ELSE Buggy(nodes)

\* Consecutive buggy ancestors.
DebugDepth(nodes, node) ==
    LET depth[n \in DOMAIN nodes] ==
            LET p == nodes[n].parent
            IN  IF p = 0 THEN 0 ELSE IF nodes[p].buggy THEN 1 + depth[p] ELSE 0
    IN  depth[node]

\* select_next, whatever its random number.
Selections(nodes) ==
    LET debugs == {[op |-> "debug", node |-> n] :
                     n \in {m \in ToDebug(nodes) : DebugDepth(nodes, m) < MaxDebugDepth}}
        draft == {[op |-> "draft", node |-> 0]}
    IN  CASE Cardinality(Drafts(nodes)) < NumDrafts -> draft
          [] Good(nodes) # {} ->
               debugs \cup {[op |-> "improve", node |-> BestOf(nodes, Good(nodes))]}
          [] Good(nodes) = {} /\ debugs # {} -> debugs
          [] OTHER -> draft

Grown(nodes, node) == Append(nodes, node)

\* apply_tree_search_result on a payload with code: no metric counts as 0, an
\* improvement is never buggy, and a corrected node is never measured.
WithResult(nodes, todo, x) ==
    LET metric == IF x.metric = NoMetric THEN 0 ELSE x.metric
    IN  CASE todo.op = "draft"             -> Grown(nodes, Node(0, metric, x.buggy))
          [] todo.op = "improve"           -> Grown(nodes, Node(todo.node, metric, FALSE))
          [] todo.op = "debug" /\ x.buggy  -> [nodes EXCEPT ![todo.node].buggy = TRUE]
          [] todo.op = "debug" /\ ~x.buggy -> Grown(nodes, Node(todo.node, NoMetric, FALSE))

----------------------------------------------------------------------------
(* The outer loop.                                                         *)

SearchInit ==
    /\ configured \in BOOLEAN
    /\ saved = [phase |-> "experiment-design", nodes |-> <<Node(0, NoMetric, FALSE)>>,
                pending |-> NoOperation]
    /\ held = saved
    /\ xpc = "off" /\ own = FALSE /\ broken = FALSE
    /\ operations = 0 /\ deaths = 0

Searching == configured /\ held.phase \in TreePhase

SearchBegins ==
    /\ xpc = "off" /\ xpc' = "decide"
    /\ held' = saved
    /\ UNCHANGED <<configured, saved, own, broken, searchBounds>>

\* The search comes before pending actions and hops, and replaces an operation
\* that waits; the state is written before the agent is dispatched.
SelectOperation ==
    /\ xpc = "decide" /\ Searching /\ operations < MaxOperations
    /\ \E todo \in Selections(held.nodes) : held' = [held EXCEPT !.pending = todo]
    /\ saved' = held'
    /\ own' = TRUE /\ broken' = FALSE
    /\ operations' = operations + 1
    /\ xpc' = "execute"
    /\ UNCHANGED <<configured, deaths>>

\* Any other phase, or no config: an executor of the ordinary decision.
OrdinaryDispatch ==
    /\ xpc = "decide" /\ ~Searching /\ operations < MaxOperations
    /\ saved' = held /\ UNCHANGED held
    /\ own' = FALSE
    /\ operations' = operations + 1
    /\ xpc' = "execute"
    /\ UNCHANGED <<configured, broken, deaths>>

\* The agent moves the mission in the file.
MovePhase ==
    /\ xpc = "execute"
    /\ \E p \in {"experiment-design", "execution", "critique"} \ {saved.phase} :
         saved' = [saved EXCEPT !.phase = p]
    /\ UNCHANGED <<configured, held, xpc, own, broken, searchBounds>>

\* Mutant: the operation stays in the state.
ApplyAgain ==
    /\ xpc = "execute" /\ xpc' = "save"
    /\ \E x \in Experiments :
         held' = IF saved.pending # NoOperation /\ x.code
                   THEN [saved EXCEPT !.nodes = WithResult(saved.nodes, saved.pending, x)]
                   ELSE saved
    /\ UNCHANGED <<configured, saved, own, broken, searchBounds>>

\* The executor returns: the file is loaded, and an operation that waits there is
\* taken out and applied, if the payload holds an experiment's code.
ApplyResult ==
    /\ xpc = "execute" /\ xpc' = "save"
    /\ \E x \in Experiments :
         held' = [saved EXCEPT
                    !.pending = NoOperation,
                    !.nodes = IF saved.pending # NoOperation /\ x.code
                                THEN WithResult(@, saved.pending, x) ELSE @]
    /\ UNCHANGED <<configured, saved, own, broken, searchBounds>>

SaveSearch ==
    /\ xpc = "save" /\ xpc' \in {"decide", "off"}
    /\ saved' = held /\ UNCHANGED held
    /\ own' = FALSE
    /\ UNCHANGED <<configured, broken, searchBounds>>

\* The executor raises: what the process held is written over the file, and the
\* mission fails.
SearchRaises ==
    /\ xpc = "execute" /\ deaths < MaxDeaths
    /\ deaths' = deaths + 1
    /\ saved' = held /\ UNCHANGED held
    /\ xpc' = "off" /\ own' = FALSE
    /\ broken' = (held.pending # NoOperation)
    /\ UNCHANGED <<configured, operations>>

SearchDies ==
    /\ xpc \in {"execute", "save"} /\ deaths < MaxDeaths
    /\ deaths' = deaths + 1
    /\ xpc' = "off" /\ own' = FALSE
    /\ broken' = (saved.pending # NoOperation)
    /\ UNCHANGED <<configured, held, saved, operations>>

SearchNext ==
    \/ SearchBegins \/ SelectOperation \/ OrdinaryDispatch \/ MovePhase
    \/ ApplyResult \/ SaveSearch \/ SearchRaises \/ SearchDies

SearchSpec == SearchInit /\ [][SearchNext]_searchVars
----------------------------------------------------------------------------
(* Properties.                                                             *)

IsSearchState(s) ==
    /\ s.phase \in TreePhase \cup {"critique"}
    /\ s.nodes \in Seq([parent : 0..MaxOperations, metric : Metrics \cup {NoMetric},
                        buggy : BOOLEAN])
    /\ s.pending \in [op : {"none", "draft", "improve", "debug"}, node : 0..(MaxOperations + 1)]

\* Every variable holds a value of its type.
SearchTypeOK ==
    /\ configured \in BOOLEAN
    /\ IsSearchState(held) /\ IsSearchState(saved)
    /\ xpc \in {"off", "decide", "execute", "save"}
    /\ own \in BOOLEAN /\ broken \in BOOLEAN
    /\ operations \in 0..MaxOperations /\ deaths \in 0..MaxDeaths

\* An operation receives the result of the executor dispatched for it, unless the
\* process of that one died or its executor raised.
ResultsAreOwn ==
    [][xpc = "execute" /\ xpc' = "save" /\ held'.nodes # saved.nodes
         => own \/ broken]_searchVars
=============================================================================
