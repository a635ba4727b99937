------------------------------ MODULE NodeStatus ------------------------------
(***************************************************************************)
(* The node status panel (NodeStatus, src/unnamed/part_002) with the node  *)
(* store of useOrchestrator that feeds it (state.nodes, a Map keyed by     *)
(* nodeId).  The store changes by push frames (node_status, node_joined,   *)
(* node_left, node_list) and by the answer of fetchNodes; the panel keeps  *)
(* selectedNodeId and filterStatus, and derives its list, its stats        *)
(* buttons and its details pane from the store on every render.            *)
(*                                                                         *)
(* A node is its key and its status; resources, addresses and times are   *)
(* display only.  A node whose frame carries no nodeId is stored under the *)
(* key undefined, NoNodeId here.  The list's sort orders rows only and is  *)
(* left out: no property here depends on the order of rows.                *)
(***************************************************************************)
EXTENDS Naturals, FiniteSets, TLC
LOCAL INSTANCE Functions

CONSTANTS
    NodeIds,        \* nodeId values the orchestrator reports
    NoNodeId,       \* the key of a node without nodeId (undefined)
    NoSelection,    \* selectedNodeId === null
    NodeStatuses,   \* statuses the orchestrator reports
    MaxNodeFrames   \* bound on store changes

ASSUME NoNodeId \notin NodeIds /\ NoSelection \notin NodeIds \cup {NoNodeId}

NodeKeys == NodeIds \cup {NoNodeId}

\* The stats buttons and the filter they set.
Filters == {"all", "healthy", "degraded", "unhealthy", "offline"}

VARIABLES
    nodes,           \* state.nodes: key -> status
    selectedNodeId,  \* selectedNodeId state
    filterStatus,    \* filterStatus state
    nodeFrames       \* store changes so far (bounded)

nodeVars == <<nodes, selectedNodeId, filterStatus, nodeFrames>>

NodeStatusInit ==
    /\ nodes = <<>>
    /\ selectedNodeId = NoSelection
    /\ filterStatus = "all"
    /\ nodeFrames = 0

\* A store change: one of the bounded frames or fetches.
StoreChange(newNodes) ==
    /\ nodeFrames < MaxNodeFrames
    /\ nodeFrames' = nodeFrames + 1
    /\ nodes' = newNodes
    /\ UNCHANGED <<selectedNodeId, filterStatus>>

\* node_status / node_joined: newNodes.set(node.nodeId, node).
NodeUpsert(k, s) == StoreChange((k :> s) @@ nodes)

\* node_left: newNodes.delete(nodeId).
NodeLeft(k) == StoreChange(Restrict(nodes, DOMAIN nodes \ {k}))

\* node_list: every node of the frame is set into a copy of the store;
\* nodes the frame does not list stay.
NodeListFrame(batch) == StoreChange(batch @@ nodes)

\* fetchNodes: a new Map built from the response alone.
NodesFetched(batch) == StoreChange(batch)

\* A stats button: setFilterStatus(stat.status).
SetFilter(f) ==
    /\ filterStatus' = f
    /\ UNCHANGED <<nodes, selectedNodeId, nodeFrames>>

\* Mutant: every button but "all" compares the raw status.
MatchesUngrouped(f, s) == f = "all" \/ s = f

\* filteredNodes: the grouping of the filter (Ready counts as healthy,
\* NotReady as unhealthy).
Matches(f, s) ==
    CASE f = "all"       -> TRUE
      [] f = "healthy"   -> s \in {"healthy", "Ready"}
      [] f = "unhealthy" -> s \in {"unhealthy", "NotReady"}
      [] OTHER           -> s = f

FilteredNodes == {k \in DOMAIN nodes : Matches(filterStatus, nodes[k])}

\* A click on a row of the list: setSelectedNodeId(node.nodeId).
SelectNode(k) ==
    /\ k \in FilteredNodes
    /\ selectedNodeId' = k
    /\ UNCHANGED <<nodes, filterStatus, nodeFrames>>

\* stats: counted from the whole store with groupings of their own.
CountIn(S) == Cardinality({k \in DOMAIN nodes : nodes[k] \in S})

Stats ==
    [all       |-> Cardinality(DOMAIN nodes),
     healthy   |-> CountIn({"healthy", "Ready"}),
     degraded  |-> CountIn({"degraded"}),
     unhealthy |-> CountIn({"unhealthy", "NotReady"}),
     offline   |-> CountIn({"offline"})]

\* selectedNode: nodes.get(selectedNodeId) when the id is truthy; null and
\* undefined select nothing, and a key no longer in the store gives
\* undefined.
SelectedNode ==
    IF selectedNodeId \in NodeIds /\ selectedNodeId \in DOMAIN nodes
    THEN selectedNodeId ELSE NoSelection

Batches == UNION {[D -> NodeStatuses] : D \in SUBSET NodeKeys}

NodeStatusNext ==
    \/ \E k \in NodeKeys, s \in NodeStatuses : NodeUpsert(k, s)
    \/ \E k \in NodeKeys : NodeLeft(k)
    \/ \E b \in Batches : NodeListFrame(b)
    \/ \E b \in Batches : NodesFetched(b)
    \/ \E f \in Filters : SetFilter(f)
    \/ \E k \in NodeKeys : SelectNode(k)

NodeStatusTypeOK ==
    /\ nodes \in Batches
    /\ selectedNodeId \in NodeKeys \cup {NoSelection}
    /\ filterStatus \in Filters
    /\ nodeFrames \in 0..MaxNodeFrames

\* The number on the stats button that is pressed is the number of rows
\* the list shows, whatever frames and fetches have put in the store:
\* filteredNodes and stats group Ready with healthy and NotReady with
\* unhealthy in two separate places, and nodes of an unknown status are
\* counted by Total alone.
FilterShowsStatCount == Cardinality(FilteredNodes) = Stats[filterStatus]

\* The highlighted row (selectedNodeId === node.nodeId) is the node whose
\* details the right-hand pane shows.
HighlightedRowIsDetailed ==
    \A k \in FilteredNodes : selectedNodeId = k => SelectedNode = k
==============================================================================
