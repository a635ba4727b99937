---------------------------- MODULE Orchestrator ----------------------------
(***************************************************************************)
(* The useOrchestrator hook (src/dashboard/src/hooks/useOrchestrator.ts):  *)
(* the workload, node and cluster-metrics stores of the orchestrator,      *)
(* hydrated over REST by fetchOrchestratorData (a Promise.all of three     *)
(* fetches), kept current by the push channel, and changed by the          *)
(* create/cancel/retry commands; with the connected, loading and error     *)
(* flags the dashboard shows.  The connection code is the one of useP2P    *)
(* and is the WsConnection module; its `connected` is the channel's own    *)
(* view, the hook's state.connected is a variable of this module.          *)
(*                                                                         *)
(* A workload is abstracted to the version of its server-side state (its  *)
(* status and progress): 0 is "not in the store" / "not created", and a    *)
(* larger version is a newer state.  A node is its identifier, metrics are *)
(* a version.  Error messages are abstracted to where they come from.      *)
(***************************************************************************)
EXTENDS Naturals, Sequences, FiniteSets

CONSTANTS
    MaxReconnectAttempts, MountModes, UserOps, MaxUserCalls, MaxServerCloses,
    Workloads,        \* workload ids the server may create
    Nodes,            \* node ids the server may report
    NoId,             \* a node whose frame carries no nodeId
    MaxVersion,       \* bound on the versions of a workload and of metrics
    MaxServerEvents,  \* bound on server-side changes and pushes
    MaxRefreshes,     \* bound on refreshData() calls
    CommandKinds,     \* subset of {"create", "cancel", "retry"}
    MaxCommands       \* bound on workload commands

ASSUME MaxVersion \in Nat \ {0}
ASSUME CommandKinds \subseteq {"create", "cancel", "retry"}
ASSUME NoId \notin Nodes

VARIABLES
    sock, wsRef, isConnecting, attempts, timers, timerRef, resetTimers,
    phase, calls, drops, chanUp, epoch, stopped, created, lost,
    connected,    \* state.connected
    loading,      \* state.loading
    error,        \* state.error: "none" (null) or where it was set
    inbox,        \* inbox[s]: frames pushed to socket s, not yet handled
    events,       \* server changes and pushes so far (bounded)
    srvWl,        \* the server's workloads: id -> version (0: not created)
    srvNodes,     \* the server's nodes
    srvMetrics,   \* the server's cluster metrics (version)
    workloads,    \* state.workloads: id -> version (0: absent)
    nodes,        \* state.nodes, by key
    metrics,      \* state.clusterMetrics (0: null)
    hydr,         \* fetchOrchestratorData() calls, in the order made
    refreshes,    \* refreshData() calls so far (bounded)
    cmds,         \* workload commands, in the order made
    reported      \* history: an error was reported and nothing that
                  \* starts over (connect, onopen, refreshData,
                  \* clearError) has happened since

Conn == INSTANCE WsConnection WITH connected <- chanUp

connVars == <<sock, wsRef, isConnecting, attempts, timers, timerRef,
              resetTimers, phase, calls, drops, chanUp,
              epoch, stopped, created, lost>>
flagVars == <<connected, loading, error, reported>>
srvVars  == <<inbox, events, srvWl, srvNodes, srvMetrics>>
storeVars == <<workloads, nodes, metrics>>
vars == <<connVars, flagVars, srvVars, storeVars, hydr, refreshes, cmds>>

Kinds == {"workloads", "nodes", "metrics"}
Versions == 0..MaxVersion
Errors == {"none", "ws", "exhausted", "fetch", "command"}

Frames ==
    [type : {"workload_list"}, wl : [Workloads -> Versions]]
    \cup [type : {"workload_updated"}, id : Workloads, ver : Versions]
    \cup [type : {"node_list"}, nodes : SUBSET (Nodes \cup {NoId})]
    \cup [type : {"node_joined", "node_left"}, id : Nodes \cup {NoId}]
    \cup [type : {"cluster_metrics"}, ver : Versions]
    \cup [type : {"other"}]  \* filtered out, unhandled or unparsable

FetchStates == {"sent", "answered", "ok", "failed"}

Hydration ==
    [st : [Kinds -> FetchStates], wl : [Workloads -> Versions],
     nd : SUBSET (Nodes \cup {NoId}), mt : Versions, settled : BOOLEAN]

Command ==
    [kind : CommandKinds, w : Workloads \cup {NoId},
     st : {"sent", "answered", "done", "failed"}, ver : Versions]

-----------------------------------------------------------------------------
(* handleMessage(event), after onmessage's filter on the type.  The       *)
(* list frames merge into the store, the others upsert or delete.  The     *)
(* Map is keyed by workload.id / node.nodeId, whatever their value.       *)
HandleMessage(m) ==
    CASE m.type = "workload_list" ->
            /\ workloads' = [w \in Workloads |->
                                IF m.wl[w] # 0 THEN m.wl[w] ELSE workloads[w]]
            /\ UNCHANGED <<nodes, metrics>>
      [] m.type = "workload_updated" ->
            /\ workloads' = [workloads EXCEPT ![m.id] = m.ver]
            /\ UNCHANGED <<nodes, metrics>>
      [] m.type = "node_list" ->
            /\ nodes' = nodes \cup m.nodes
            /\ UNCHANGED <<workloads, metrics>>
      [] m.type = "node_joined" ->
            /\ nodes' = nodes \cup {m.id}
            /\ UNCHANGED <<workloads, metrics>>
      [] m.type = "node_left" ->
            /\ nodes' = nodes \ {m.id}
            /\ UNCHANGED <<workloads, metrics>>
      [] m.type = "cluster_metrics" ->
            /\ metrics' = m.ver
            /\ UNCHANGED <<workloads, nodes>>
      [] OTHER -> UNCHANGED storeVars

\* Mutation: Promise.all written without fetchClusterMetrics().
StartHydrationPartial ==
    hydr' = Append(hydr, [st |-> [k \in {"workloads", "nodes"} |-> "sent"],
                          wl |-> [w \in Workloads |-> 0], nd |-> {},
                          mt |-> 0, settled |-> FALSE])

(* fetchOrchestratorData(): setState loading, error null (in the caller's *)
(* step), then the three requests of Promise.all go out.                  *)
StartHydration ==
    hydr' = Append(hydr, [st |-> [k \in Kinds |-> "sent"],
                          wl |-> [w \in Workloads |-> 0], nd |-> {},
                          mt |-> 0, settled |-> FALSE])

(* The state changes of connect() besides the refs: nothing when a guard  *)
(* returns early; the "Connection failed after N attempts" error when the *)
(* budget is exhausted; loading and error cleared when a socket is made.  *)
ConnectEffect ==
    CASE Conn!ConnectBusy ->
            UNCHANGED flagVars
      [] Conn!Exhausted ->
            /\ connected' = FALSE
            /\ loading' = FALSE
            /\ error' = "exhausted"
            /\ reported' = TRUE
      [] OTHER ->
            /\ loading' = TRUE
            /\ error' = "none"
            /\ reported' = FALSE
            /\ UNCHANGED connected
-----------------------------------------------------------------------------
(* The connection manager's steps, with their effect on the hook state.    *)

\* The inboxes follow the sockets: a new socket starts with an empty one.
InboxFollowsSockets ==
    inbox' = [i \in DOMAIN sock' |-> IF i \in DOMAIN inbox THEN inbox[i]
                                                        ELSE <<>>]

\* The mount effect (autoConnect): every mount mode ends in a connect()
\* that creates a socket, so loading is set and error cleared.
Mount(m) ==
    /\ Conn!Mount(m)
    /\ InboxFollowsSockets
    /\ loading' = TRUE
    /\ error' = "none"
    /\ reported' = FALSE
    /\ UNCHANGED <<connected, events, srvWl, srvNodes, srvMetrics, storeVars,
                   hydr, refreshes, cmds>>

\* Unmount, disconnect() and resetConnection() touch only the refs.
CloseOnly(A) ==
    /\ A
    /\ UNCHANGED <<flagVars, srvVars, storeVars, hydr, refreshes, cmds>>

\* A timer calls connect().
ConnectWith(A) ==
    /\ A
    /\ InboxFollowsSockets
    /\ ConnectEffect
    /\ UNCHANGED <<events, srvWl, srvNodes, srvMetrics, storeVars, hydr,
                   refreshes, cmds>>

(* onopen: connected, loading false and error null, then                  *)
(* fetchOrchestratorData() sets loading again before its first await, and *)
(* the four subscribe frames are sent (no local state).                   *)
SocketOpen(s) ==
    /\ Conn!SocketOpen(s)
    /\ connected' = TRUE
    /\ loading' = TRUE
    /\ error' = "none"
    /\ reported' = FALSE
    /\ StartHydration
    /\ UNCHANGED <<srvVars, storeVars, refreshes, cmds>>

(* onerror, when the connection fails (close code 1006): guard cleared,   *)
(* connected and loading false, "WebSocket connection failed"; then       *)
(* onclose.  Frames not handled yet are never delivered.                  *)
SocketClose(s, c) ==
    /\ Conn!SocketClose(s, c)
    /\ inbox' = [inbox EXCEPT ![s] = <<>>]
    /\ connected' = FALSE
    /\ IF c = Conn!Abnormal
          THEN /\ loading' = FALSE
               /\ error' = "ws"
               /\ reported' = TRUE
          ELSE UNCHANGED <<loading, error, reported>>
    /\ UNCHANGED <<events, srvWl, srvNodes, srvMetrics, storeVars, hydr,
                   refreshes, cmds>>

\* onmessage: parse the next frame, filter on its type, handle it.
Deliver(s) ==
    /\ sock[s] \in {"open", "closing"}
    /\ inbox[s] # <<>>
    /\ HandleMessage(Head(inbox[s]))
    /\ inbox' = [inbox EXCEPT ![s] = Tail(@)]
    /\ UNCHANGED <<connVars, flagVars, events, srvWl, srvNodes, srvMetrics,
                   hydr, refreshes, cmds>>

-----------------------------------------------------------------------------
(* The orchestrator: its state changes and it pushes frames to every open *)
(* socket (the hook subscribed in onopen).                                *)

OpenSockets == {s \in DOMAIN sock : sock[s] = "open"}

PushAll(f) ==
    inbox' = [i \in DOMAIN inbox |->
                IF i \in OpenSockets THEN Append(inbox[i], f) ELSE inbox[i]]

ServerEnv(change) ==
    /\ events < MaxServerEvents
    /\ events' = events + 1
    /\ change
    /\ UNCHANGED <<connVars, flagVars, storeVars, hydr, refreshes, cmds>>

\* A workload is created, progresses, completes or fails.
ServerWorkloadChange(w) ==
    ServerEnv(/\ srvWl[w] < MaxVersion
              /\ srvWl' = [srvWl EXCEPT ![w] = @ + 1]
              /\ PushAll([type |-> "workload_updated", id |-> w,
                          ver |-> srvWl[w] + 1])
              /\ UNCHANGED <<srvNodes, srvMetrics>>)

ServerNodeJoin(n) ==
    ServerEnv(/\ n \notin srvNodes
              /\ srvNodes' = srvNodes \cup {n}
              /\ PushAll([type |-> "node_joined", id |-> n])
              /\ UNCHANGED <<srvWl, srvMetrics>>)

ServerNodeLeave(n) ==
    ServerEnv(/\ n \in srvNodes
              /\ srvNodes' = srvNodes \ {n}
              /\ PushAll([type |-> "node_left", id |-> n])
              /\ UNCHANGED <<srvWl, srvMetrics>>)

ServerMetricsChange ==
    ServerEnv(/\ srvMetrics < MaxVersion
              /\ srvMetrics' = srvMetrics + 1
              /\ PushAll([type |-> "cluster_metrics", ver |-> srvMetrics + 1])
              /\ UNCHANGED <<srvWl, srvNodes>>)

\* A frame to one open socket: a list, a node frame without nodeId, or a
\* frame the hook filters out or does not handle.
PushedFrames ==
    {[type |-> "workload_list", wl |-> srvWl],
     [type |-> "node_list", nodes |-> srvNodes],
     [type |-> "node_joined", id |-> NoId],
     [type |-> "other"]}

ServerPush(s, f) ==
    ServerEnv(/\ s \in OpenSockets
              /\ inbox' = [inbox EXCEPT ![s] = Append(@, f)]
              /\ UNCHANGED <<srvWl, srvNodes, srvMetrics>>)
-----------------------------------------------------------------------------
(* REST: the three fetches of fetchOrchestratorData and Promise.all.       *)

\* refreshData() (fetchOrchestratorData) called by the application.
RefreshData ==
    /\ phase = "mounted"
    /\ refreshes < MaxRefreshes
    /\ refreshes' = refreshes + 1
    /\ loading' = TRUE
    /\ error' = "none"
    /\ reported' = FALSE
    /\ StartHydration
    /\ UNCHANGED <<connVars, connected, srvVars, storeVars, cmds>>

\* The server reads the collection for the response of fetch k of call h.
FetchAnswered(h, k) ==
    /\ hydr[h].st[k] = "sent"
    /\ hydr' = [hydr EXCEPT ![h].st[k] = "answered",
                            ![h].wl = IF k = "workloads" THEN srvWl ELSE @,
                            ![h].nd = IF k = "nodes" THEN srvNodes ELSE @,
                            ![h].mt = IF k = "metrics" THEN srvMetrics ELSE @]
    /\ UNCHANGED <<connVars, flagVars, srvVars, storeVars, refreshes, cmds>>

(* The response of fetch k reaches the hook: setState with a new Map      *)
(* built from the response alone (or the metrics object) and error null.  *)
(* When it is the last of the three to succeed, Promise.all resolves and  *)
(* fetchOrchestratorData sets loading false.                              *)
AllOthersOk(h, k) == \A j \in Kinds \ {k} : hydr[h].st[j] = "ok"

\* A call whose three fetches have all completed has nothing left to do:
\* its record is replaced by a canonical one.
Finished ==
    [st |-> [k \in Kinds |-> "ok"], wl |-> [w \in Workloads |-> 0],
     nd |-> {}, mt |-> 0, settled |-> TRUE]

Tidy(r) == IF \A k \in Kinds : r.st[k] \in {"ok", "failed"} THEN Finished
                                                              ELSE r

Applied(h, k) ==
    /\ hydr[h].st[k] = "answered"
    /\ workloads' = IF k = "workloads" THEN hydr[h].wl ELSE workloads
    /\ nodes' = IF k = "nodes" THEN hydr[h].nd ELSE nodes
    /\ metrics' = IF k = "metrics" THEN hydr[h].mt ELSE metrics
    /\ error' = "none"
    /\ hydr' = [hydr EXCEPT ![h] =
                  Tidy([@ EXCEPT !.st[k] = "ok",
                                 !.settled = @ \/ AllOthersOk(h, k)])]

\* Mutation: fetchOrchestratorData never sets loading false on success.
FetchAppliedNoSettle(h, k) ==
    /\ Applied(h, k)
    /\ UNCHANGED <<connVars, connected, loading, reported, srvVars,
                   refreshes, cmds>>

FetchApplied(h, k) ==
    /\ Applied(h, k)
    /\ loading' = IF ~hydr[h].settled /\ AllOthersOk(h, k) THEN FALSE
                                                         ELSE loading
    /\ UNCHANGED <<connVars, connected, reported, srvVars, refreshes, cmds>>

(* Fetch k fails (network error or non-2xx status): its catch sets the    *)
(* error and rethrows; if Promise.all has not settled yet it rejects and  *)
(* fetchOrchestratorData sets loading false and the same error.           *)
FetchFailed(h, k) ==
    /\ hydr[h].st[k] = "sent"
    /\ hydr' = [hydr EXCEPT ![h] = Tidy([@ EXCEPT !.st[k] = "failed",
                                                   !.settled = TRUE])]
    /\ error' = "fetch"
    /\ reported' = TRUE
    /\ loading' = IF hydr[h].settled THEN loading ELSE FALSE
    /\ UNCHANGED <<connVars, connected, srvVars, storeVars, refreshes, cmds>>

-----------------------------------------------------------------------------
(* createWorkload, cancelWorkload, retryWorkload: the POST goes out; the  *)
(* local store is changed only once the response is back.                  *)

\* The application offers cancel and retry for workloads it shows.
IssueCommand(kind, w) ==
    /\ phase = "mounted"
    /\ Len(cmds) < MaxCommands
    /\ IF kind = "create" THEN w = NoId ELSE w \in Workloads /\ workloads[w] # 0
    /\ cmds' = Append(cmds, [kind |-> kind, w |-> w, st |-> "sent", ver |-> 0])
    /\ UNCHANGED <<connVars, flagVars, srvVars, storeVars, hydr, refreshes>>

(* The orchestrator performs command i, answers with the workload's new   *)
(* state and broadcasts it to the subscribers.                            *)
CommandAccepted(i) ==
    /\ cmds[i].st = "sent"
    /\ \E w \in Workloads :
          /\ IF cmds[i].kind = "create" THEN srvWl[w] = 0
                                        ELSE w = cmds[i].w /\ srvWl[w] # 0
          /\ srvWl[w] < MaxVersion
          /\ srvWl' = [srvWl EXCEPT ![w] = @ + 1]
          /\ cmds' = [cmds EXCEPT ![i].st = "answered", ![i].w = w,
                                  ![i].ver = srvWl[w] + 1]
          /\ PushAll([type |-> "workload_updated", id |-> w,
                      ver |-> srvWl[w] + 1])
    /\ UNCHANGED <<connVars, flagVars, events, srvNodes, srvMetrics,
                   storeVars, hydr, refreshes>>

\* The POST fails: the catch sets the error (nothing to roll back).
CommandFailed(i) ==
    /\ cmds[i].st = "sent"
    /\ cmds' = [cmds EXCEPT ![i].st = "failed"]
    /\ error' = "command"
    /\ reported' = TRUE
    /\ UNCHANGED <<connVars, connected, loading, srvVars, storeVars, hydr,
                   refreshes>>

(* The response reaches the hook: create sets the returned workload;      *)
(* cancel and retry overwrite the status of the entry if there is one     *)
(* ('cancelled', or 'pending' with progress 0), then sendWorkloadCommand  *)
(* writes to the socket if it is open (no local state).                   *)
CommandApplied(i) ==
    /\ cmds[i].st = "answered"
    /\ cmds' = [cmds EXCEPT ![i].st = "done"]
    /\ LET w == cmds[i].w
       IN  workloads' = IF cmds[i].kind = "create" \/ workloads[w] # 0
                           THEN [workloads EXCEPT ![w] = cmds[i].ver]
                           ELSE workloads
    /\ UNCHANGED <<connVars, flagVars, srvVars, nodes, metrics, hydr,
                   refreshes>>

\* clearError().
ClearError ==
    /\ error' = "none"
    /\ reported' = FALSE
    /\ UNCHANGED <<connVars, connected, loading, srvVars, storeVars, hydr,
                   refreshes, cmds>>
-----------------------------------------------------------------------------
Init ==
    /\ Conn!Init
    /\ connected = FALSE
    /\ loading = FALSE
    /\ error = "none"
    /\ reported = FALSE
    /\ inbox = <<>>
    /\ events = 0
    /\ srvWl \in [Workloads -> {0, 1}]
    /\ srvNodes \in SUBSET Nodes
    /\ srvMetrics \in {0, 1}
    /\ workloads = [w \in Workloads |-> 0]
    /\ nodes = {}
    /\ metrics = 0
    /\ hydr = <<>>
    /\ refreshes = 0
    /\ cmds = <<>>

Next ==
    \/ \E m \in MountModes : Mount(m)
    \/ CloseOnly(Conn!Unmount)
    \/ CloseOnly(Conn!Disconnect)
    \/ CloseOnly(Conn!ResetConnection)
    \/ \E e \in resetTimers : ConnectWith(Conn!ResetTimerFire(e))
    \/ \E t \in timers : ConnectWith(Conn!ReconnectTimerFire(t))
    \/ \E s \in DOMAIN sock : SocketOpen(s)
    \/ \E s \in DOMAIN sock, c \in Conn!Codes : SocketClose(s, c)
    \/ \E s \in DOMAIN sock : Deliver(s)
    \/ \E w \in Workloads : ServerWorkloadChange(w)
    \/ \E n \in Nodes : ServerNodeJoin(n) \/ ServerNodeLeave(n)
    \/ ServerMetricsChange
    \/ \E s \in DOMAIN sock, f \in PushedFrames : ServerPush(s, f)
    \/ RefreshData
    \/ \E h \in DOMAIN hydr, k \in Kinds : FetchAnswered(h, k)
    \/ \E h \in DOMAIN hydr, k \in Kinds : FetchApplied(h, k)
    \/ \E h \in DOMAIN hydr, k \in Kinds : FetchFailed(h, k)
    \/ \E k \in CommandKinds, w \in Workloads \cup {NoId} : IssueCommand(k, w)
    \/ \E i \in DOMAIN cmds : CommandAccepted(i)
    \/ \E i \in DOMAIN cmds : CommandFailed(i)
    \/ \E i \in DOMAIN cmds : CommandApplied(i)
    \/ ClearError

(* The browser settles every handshake and fires every timer not cleared  *)
(* (as in WsConnection); every fetch eventually resolves or rejects and   *)
(* its continuation runs.  Users and the orchestrator owe nothing.        *)
Settle(s) ==
    \/ SocketOpen(s)
    \/ /\ sock[s] \in {"connecting", "aborting", "closing"}
       /\ \E c \in Conn!Codes : SocketClose(s, c)

Fairness ==
    /\ WF_vars(\E s \in DOMAIN sock : Settle(s))
    /\ WF_vars(\E t \in timers : ConnectWith(Conn!ReconnectTimerFire(t)))
    /\ WF_vars(\E e \in resetTimers : ConnectWith(Conn!ResetTimerFire(e)))
    /\ WF_vars(\E h \in DOMAIN hydr, k \in Kinds :
                  FetchAnswered(h, k) \/ FetchFailed(h, k))
    /\ WF_vars(\E h \in DOMAIN hydr, k \in Kinds : FetchApplied(h, k))

Spec == Init /\ [][Next]_vars /\ Fairness

-----------------------------------------------------------------------------
TypeOK ==
    /\ Conn!TypeOK
    /\ connected \in BOOLEAN /\ loading \in BOOLEAN
    /\ error \in Errors /\ reported \in BOOLEAN
    /\ inbox \in [DOMAIN sock -> Seq(Frames)]
    /\ events \in 0..MaxServerEvents
    /\ srvWl \in [Workloads -> Versions]
    /\ srvNodes \subseteq Nodes /\ srvMetrics \in Versions
    /\ workloads \in [Workloads -> Versions]
    /\ nodes \subseteq Nodes \cup {NoId}
    /\ metrics \in Versions
    /\ hydr \in Seq(Hydration)
    /\ refreshes \in 0..MaxRefreshes
    /\ cmds \in Seq(Command)

-----------------------------------------------------------------------------
(* Properties.                                                             *)

(* The loading indicator never stays on: whenever loading is set (by      *)
(* connect(), onopen or refreshData), it is cleared again, by onopen,     *)
(* onerror, the exhausted branch of connect() or the settling of the      *)
(* Promise.all of fetchOrchestratorData, however these interleave.        *)
LoadingSettles == loading ~> ~loading

(* An error the hook reported (connection failed, budget exhausted, a     *)
(* fetch or a command failed) stays visible until something starts over: *)
(* a new connection attempt, onopen, refreshData() or clearError().  The  *)
(* success of another fetch does not hide it (spec 7: errors are          *)
(* surfaced to the caller).                                               *)
ErrorNotMasked == reported => error # "none"

(* The response of a cancel or retry never puts a workload back to an    *)
(* older state than the one the store already shows (spec 4.5: commands  *)
(* update the store before the call resolves, and authoritative events   *)
(* that follow win).                                                      *)
CommandKeepsNewerState ==
    [][\A i \in DOMAIN cmds :
          (cmds[i].st = "answered" /\ cmds'[i].st = "done")
             => workloads'[cmds[i].w] >= workloads[cmds[i].w]]_vars

====
