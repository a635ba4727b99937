# TLA+ models of the mycelial dashboard

This directory holds TLA+ models of the dashboard in `src/dashboard`, together
with the TLC configurations that check them. The dashboard is a React front end
for a P2P node and its orchestrator. Its state lives in two hooks:

* `useP2P` (`src/dashboard/src/hooks/useP2P.ts`) holds the push channel (a
  WebSocket to the node), the peer store, the chat log and the local identity.
  The store is hydrated over REST (`/api/peers`, `/api/info`) and kept current
  by push frames.
* `useOrchestrator` (`src/dashboard/src/hooks/useOrchestrator.ts`) holds the
  same connection code against the orchestrator. It adds workloads, nodes,
  cluster metrics, error and loading flags, and workload commands sent over
  REST.

The components (`ChatPanel`, `PeerGraph`, `ConversationSidebar`,
`OnboardingPanel`, `ReputationCard`, `QRCode`, `NodeStatus`) read these hooks.
They keep only local UI state. Two of them interact through the DOM rather
than through props: `useTheme` (`src/dashboard/src/hooks/useTheme.ts`) writes
the `data-theme` attribute of `<html>`, and `PeerGraph` reads its palette from
the CSS variables that attribute selects, watching it with a
`MutationObserver`.

## Inventory

| Part | Source | State | Operations | Hard behaviour |
|---|---|---|---|---|
| Connection manager | useP2P.ts 43-53, 148-268 | `wsRef`, `isConnectingRef`, `reconnectAttemptsRef`, `reconnectTimerRef`, `isConnected` | connect, onopen, onclose/onerror, reconnect timer, disconnect, resetConnection, mount/unmount effect | handlers of old sockets run against the shared refs; close() on a connecting socket reports 1006; StrictMode double mount; backoff budget |
| Peer store and chat | useP2P.ts 19-146, 214-244 | `peers` map, `messages`, `localPeerId` | handleMessage (peers_list, peer_joined, peer_left, chat_message), fetchPeers, fetchInfo, refreshPeers, sendChat | REST answers race push frames; log cap; echo identity |
| Orchestrator | useOrchestrator.ts | workloads, nodes, metrics, error, loading | the same connection code plus Promise.all hydration and create/cancel/retry | a sibling fetch clears an error; command results applied after newer events |
| Theme | useTheme.ts | theme, localStorage | toggle, system-preference listener | the effect always persists, so the listener never switches |
| QR pattern | QRCode.tsx | none (pure) | 32-bit hash, matrix fill | none: a pure demo pattern |
| Peer graph | PeerGraph.tsx | `colors`, the observer | useState initialiser, mount effect, observer callback, cleanup | effect order against the theme effect; records dropped or never queued |
| Sidebar | ConversationSidebar.tsx | create-room form state | sort comparator, create, cancel, select, leave | comparator of two groups and a time difference; a second community conversation makes it inconsistent |
| Vouch modal | ReputationCard.tsx | showVouchModal, message, stake | open, stake, message, cancel, confirm | `isLocalPeer` decided before `localPeerId` arrives |
| Onboarding, reputation | OnboardingPanel.tsx, ReputationCard.tsx | step, forms | step machine | async keypair step |
| Node status panel | `src/unnamed/part_002`, useOrchestrator.ts 83-118 | node store, filter, selection | frames, fetch, filter buttons, row click | two groupings of statuses; the `undefined` key |
| Chat panel | `src/unnamed/part_003`, useP2P.ts 214-244 | input, props | submit, type, props change | header and recipient chosen apart; room id dropped |
| Scripts, styling, notes | `src/scripts`, `tailwind.config.js`, `src/unnamed/part_000/001` | none | process I/O | none that TLC can reach |

## Modules

### `WsConnection`: the connection manager of `useP2P`

State:

* `sock`: the sequence of every socket the hook has created, each in state
  connecting, open, aborting (closed by the hook while still connecting),
  closing, or closed.
* `wsRef`: the index of the socket the ref holds (0 is `null`).
* `isConnecting`, `attempts`: the two refs.
* `timers`, `timerRef`: the backoff timers that are pending, and the handle
  held by `reconnectTimerRef`.
* `resetTimers`: the uncancellable timers of `resetConnection`.
* `phase`: mount phase.
* `connected`: `isConnected`.

Ghost variables record what the properties talk about:

* `epoch` and `stopped`: a disconnect has happened, and no reset came after it.
* `created`: sockets created since the last open or disconnect.
* `lost`: the connection was lost while the hook wanted it.

Actions map one to one onto the code:

* `Connect` (`connect`, with its guards and its budget check).
* `SocketOpen` (`onopen`).
* `SocketClose` (`onerror` and `onclose`, which the browser runs in one task).
  The close code is 1006 for a socket that never opened, and 1000 or 1006
  otherwise.
* `ReconnectTimerFire`.
* `Disconnect`, `ResetConnection`, `ResetTimerFire`.
* `Mount` (production, or StrictMode's connect/disconnect/connect) and
  `Unmount`.

Timer delays are abstracted: a pending timer may fire at any later point, so
every ordering of the 100 ms reset timer and the backoff delays against socket
events is explored.

### `P2PSync`: the peer store and chat of `useP2P`, composed with the connection

`P2PSync` instantiates `WsConnection` (`Conn == INSTANCE WsConnection`) and
uses its actions as conjuncts, so a socket's onopen also issues the two
fetches. It adds the following state:

* `serverPeers`: the node's real peer set, changed by the environment.
* `inbox[s]`: frames in flight on socket `s`.
* `fetches`: `/api/peers` requests, each issued, answered with a snapshot, or
  done.
* `infoPending`, `localPeerId`.
* `peers`, `messages`.
* `chatHist`: a ghost record of every entry ever appended.

Abstractions:

* Peer values are their identifiers.
* A frame is a record of type and identifier.
* Chat content is a serial number.

`HandleMessage` translates the `switch` of `handleMessage` case by case.
`FetchPeersDone` replaces the store with the snapshot, as `new Map(...)` does.
`SendChat` models the early return when the socket is not open and the echo
tagged `localPeerId || 'unknown'`.

`MCP2PSync` instantiates it with model values for the peers and the markers
`Self`, `NoId`, `Unknown` and `Remote`.

### `Orchestrator` and `MCOrchestrator`: the `useOrchestrator` hook

`Orchestrator` instantiates `WsConnection` for the refs, which repeat those of
`useP2P`. It uses `WITH connected <- chanUp`, because the hook's own
`state.connected` is also written by onerror and by connect()'s exhausted
branch.

The hook state adds:

* `connected`, `loading` and `error`. Error messages are abstracted to their
  origin.
* the stores: `workloads` (id -> version of the server-side state, 0 for
  absent), `nodes` (identifiers) and `metrics` (a version);
* `hydr`, the calls of `fetchOrchestratorData`, each with the state of its
  three fetches (sent, answered with a snapshot, ok, failed) and whether
  `Promise.all` has settled. A call whose three fetches are all done is
  replaced by one canonical record, because nothing reads it any more.
* `cmds`, the create/cancel/retry commands (sent, answered with the new
  version, done, failed);
* `reported`, a ghost: an error was reported, and nothing that starts over
  (connect, onopen, refreshData, clearError) has happened since.

The orchestrator itself changes workloads, nodes and metrics, and pushes
frames to open sockets. It also pushes the malformed and filtered frames that
the hook has to cope with.

Each handler is one action:

* `ConnectEffect` adds the flags of `connect()`.
* `SocketOpen` is onopen plus the start of a hydration.
* `SocketClose` is onerror (on 1006) plus onclose.
* `FetchApplied` and `FetchFailed` are the continuations of the fetches,
  including the `Promise.all` resolution or rejection they trigger.
* `CommandApplied` writes the result after the `await`, as the code does.

`MCOrchestrator` bounds the number of `fetchOrchestratorData` calls with
`MaxHydrations`.

### `Theme`, `PeerGraph`, `Onboarding`, `OnboardingSteps`, `ConversationSidebar`, `VouchModal`, `NodeStatus`, `ChatPanel` and `MCDashboardUI`: the UI state

* `Theme` models `useTheme`. Its variables are the React state `theme`, the
  `localStorage` key (`stored`, with "none" for a missing key and "other"
  for an unreadable value), the system scheme, the `data-theme` attribute,
  whether the `[theme]` effect is pending, and whether the media-query
  listener is registered. `SetThemeState` is React's setter: an equal value
  skips the render and so the effect. `ApplyTheme` is the `[theme]` effect.
  At the first commit it also stands for the mount-only listener effect,
  which runs in the same commit. `SetTheme`, `ToggleTheme` and
  `SystemChange` (`handleChange`) are the other operations.
* `PeerGraph` extends `Theme`. Its variables are the graph's `colors`
  state (a palette, "light" or "dark"), its pending mount effect, the
  observer's connection, and a queued mutation record. `ThemeEffect` is
  `ApplyTheme` plus the record it queues: `setAttribute` always queues one,
  while `removeAttribute` queues one only if the attribute was there.
  `MountGraph` is the first render with `useState(getThemeColors)`.
  `GraphEffect` connects the observer and re-reads the palette.
  `ObserverCallback` is the callback. `UnmountGraph` is the cleanup, whose
  `disconnect()` drops pending records. React runs passive effects child
  first, and where the theme hook sits is up to the app, so the two effects
  of a commit may run in either order; the model lets them.
* `Onboarding` models `OnboardingPanel`. An identity is a model value; the peer
  id, the invite link and its QR code are functions of it. Each
  button is an action. The awaited promises settle in actions of their own
  (`KeygenSucceeds` or `KeygenFails`, `ClipboardWritten` or
  `ClipboardRefused`, `CopyTimerFires`), in any order. The pending clipboard
  writes and copy timers are bags. `TypePeerName` is the step-1 name field,
  which nothing reads.
* `OnboardingSteps` is what the wizard promises through its progress bar
  (`ONBOARDING_STEPS`): the four steps in order, one at a time; the identity
  step is left only with an identity, which entering the network hands over;
  the panel may be closed at any step. `Onboarding` ends with
  `Steps == INSTANCE OnboardingSteps WITH step <- currentStep, id <- identity,
  done <- ~open, handed <- completedWith, ...`, and `WizardFollowsSteps` is
  `Steps!StepsSpec`: every step of the panel is a step of the promise or
  leaves its four variables alone (copies, timers, a keypair still pending).
* `NodeStatus` models the node panel (`src/unnamed/part_002`) with the node
  store of `useOrchestrator` that feeds it. `nodes` is a function from key
  to status; the key of a frame without `nodeId` is `NoNodeId`. The store
  actions are the four code paths: `NodeUpsert` (node_status/node_joined),
  `NodeLeft`, `NodeListFrame` (merges) and `NodesFetched` (replaces).
  `filteredNodes`, `stats` and `selectedNode` are operators; the stats
  buttons (`SetFilter`) and the row clicks (`SelectNode`) are actions.
* `ChatPanel` models `ChatPanel` (`src/unnamed/part_003`) and the
  `sendChat` it reaches. The input is "empty", "blank" or "text" (what
  `trim()` tells apart); the props `activeConversation` and `selectedPeer`
  change by actions of the parent; whether the socket is OPEN is an input.
  `Submit` is the whole of `handleSubmit`: the blank guard, `Target` and
  `RoomId`, the frame `sendChat` puts on the wire when the socket is open
  (its `to`, and no room, since `sendChat` takes none), and `setInput('')`.
  Each frame is recorded with the header's subtitle at the time.
* `ConversationSidebar` models the sidebar. `Compare` is the comparator
  and `SortFrom` a stable insertion sort. With a consistent comparator,
  every stable sort gives the same order as the engine's. `lastMessageAt`
  is the prop the parent changes when a message arrives (`ParentMessage`).
  The create-room form's text is abstracted to what `trim()` tells apart.
  The callbacks the sidebar calls are recorded in `calls`. Beside the sort
  stands a reference, `IsDisplayOrder`: the order the code's comment
  promises.
* `VouchModal` models the card's vouch modal (`showVouchModal`,
  `vouchMessage`, `vouchStake`). It also holds the two props the modal
  depends on:
  * `peer`, which a click on the graph selects; the overlay blocks such
    clicks while the modal is shown;
  * `localPeerId`, which arrives when `/api/info` answers.
* `MCDashboardUI` composes six parts: the graph with its theme, the
  wizard, the sidebar, the vouch modal, the node panel and the chat panel. They share no state, so
  interleaving their steps would only multiply the states. The variable
  `part`, chosen in the initial state, selects the part a behaviour
  exercises. Each action is a disjunct of `UINext` on its own.

## Runs

| Run | Config | Expect | What it shows |
|---|---|---|---|
| conn_core | WsConnection.cfg | pass | On one lineage of sockets (production mount, two `disconnect()` calls, one server close), the following hold: no more than `maxReconnectAttempts` sockets are created between successes (`RetryBudget`); every live socket is the one `wsRef` holds (`NoOrphanSocket`); `isConnectingRef` is set only while that socket is connecting, so connect() is never locked out (`ConnectGuardSound`); a lost connection is re-established or the budget is exhausted (`LostConnectionRecovers`). |
| conn_lifecycle | WsConnectionLifecycle.cfg | pass | With StrictMode mounts and `resetConnection()` as well (2,008,266 states), the guard stays sound and the liveness property still holds. |
| conn_orphan_reset | WsConnectionOrphan.cfg | violation | `NoOrphanSocket` fails: reset while connecting, the reset timer opens socket 2, then socket 1's late close nulls `wsRef`. |
| conn_disconnect | WsConnectionDisconnect.cfg | violation | `DisconnectIsTerminal` fails: unmount while connecting, close code 1006, the backoff timer opens a socket after the unmount. |
| p2p_chat | MCP2PSync.cfg | pass | Across resets, broadcasts and sends, the log is exactly the newest `MaxMessages` entries ever appended (`ChatLogIsRecentSuffix`), and no peer is stored under a missing id (`TypeOK`). |
| p2p_snapshot | MCP2PSyncSnapshot.cfg | violation | `SnapshotKeepsKnownPeers` fails: an older `/api/peers` answer drops a peer that a `peer_joined` frame had added. |
| p2p_echo_identity | MCP2PSyncIdentity.cfg | violation | `EchoCarriesOwnIdentity` fails: a message sent before `/api/info` answers is echoed from `unknown`. |
| orch_reset | MCOrchestratorReset.cfg | pass | The loading flag is always cleared again (`LoadingSettles`), even when resetConnection() leaves two socket lineages writing the flags and every open starts its own hydration (950K states). |
| orch_data | MCOrchestrator.cfg | pass | With a disconnect(), a server close, a refreshData(), a server push and a command of any kind against a changing orchestrator, every frame, snapshot and command response leaves the stores well formed (`TypeOK`, 2.8M states). |
| orch_error_masked | MCOrchestratorError.cfg | violation | `ErrorNotMasked` fails: one fetch fails and reports its error, then a sibling's success sets `error: null`. |
| orch_command_stale | MCOrchestratorCommand.cfg | violation | `CommandKeepsNewerState` fails. retry is accepted (v2), then the events v2 and v3 are applied. The late response then writes pending (v2) again. |
| ui_dashboard | MCDashboardUI.cfg | pass | 237K states, about 20 s. The pressed stats button of the node panel shows the number of rows the list shows, whatever frames and fetches have put in the store (`FilterShowsStatCount`); the two places that group Ready with healthy and NotReady with unhealthy must agree. A chat message sent while the header reads "Direct message" goes to one peer, and one sent under "Broadcasting to all peers" goes to all (`RecipientMatchesHeader`), with the active conversation and the legacy `selectedPeer` changed in any order. The wizard implements `OnboardingSteps` (`WizardFollowsSteps`). The sidebar lists the community, then rooms, then direct messages, each group newest first, however messages arrive (`SidebarInDisplayOrder`); with two rooms, the room-against-room case of the comparator is exercised. Its create-room form always reopens empty (`CreateFormOpensEmpty`). The wizard's "Copied!" label always clears while the panel is open (`CopiedLabelClears`). Once the theme effect, the graph's mount effect and the observer callback have run, the graph shows the palette of the theme in effect (`GraphFollowsTheme`). This holds in either effect order and across remounts. The peer id on the clipboard is the identity passed to `onComplete` (`CopiedIdentityIsCompleted`); this relies on the generate button being disabled while a key is pending. |

Findings, all recorded in `PROJECT.json`:

* A stale `onclose` orphans live sockets (after a reset, and under the
  StrictMode double mount alone).
  This contradicts the spec's "exactly one instance, double-connect must never
  happen". Each orphan also owns its own retry lineage, so the retry budget
  breaks too. That is why `RetryBudget` is checked only where resets and
  StrictMode are off.
* `disconnect()` is not terminal during the handshake.
* `fetchPeers` replaces the store where the spec says merge.
* The echo identity is `unknown` before `/api/info` answers.
* `sendChat` drops the echo when the socket is not open. This is the
  property `EchoEvenWhenOffline` of `P2PSync`. Its configuration
  `MCP2PSyncOffline.cfg` finds the violation, but it is not among the
  registered runs, whose slots went to the UI run.
* In the orchestrator, a sibling fetch's success hides a reported error.
* Cancel and retry results overwrite newer events.

Five divergences in the UI code are recorded in the hazards with notes
rather than as runs:

* `useTheme`'s `[theme]` effect writes `localStorage` at the first commit,
  so `handleChange`'s `!stored` is never true. The comment "Only
  auto-switch if user hasn't set a preference" promises that the system
  scheme is followed until the user chooses, but it never is. In `Theme`,
  `SystemChange` never changes `theme`: the listener is registered by the
  same `ApplyTheme` step that fills `stored`.
* A vouch from the node to itself. `graphData` marks the local node
  `isLocal`, so `/api/peers` is expected to list it. Select the local node
  before `/api/info` has answered: the card does not know it is local and
  shows "Vouch". Open the modal; the id then arrives. "Confirm Vouch"
  sends `fromPeerId = toPeerId`, because the modal does not check
  `isLocalPeer` again. `NoSelfVouch` of `VouchModal` is found violated with
  `MCDashboardUISelfVouch.cfg`. It is not a registered run, because every
  run slot is taken.
* The vouch modal's Cancel only hides it. The message and stake typed for
  one peer are offered again when the modal is opened for the next peer.
  The sidebar's create-room form, by contrast, is cleared by its Cancel
  (`CreateFormOpensEmpty`).
* Each copy in the onboarding panel starts a 2 s timer that is never
  cancelled. The timer of an earlier copy therefore clears the "Copied!"
  label of a later copy early.
* `getNodeColor` of the graph repeats the thresholds of the card's
  `getTierFromScore`, but not its shades: the graph uses `#f59e0b` and
  `#ef4444`, the card `amber-400` and `red-400`. Both are pure display
  mappings and are not modelled.

Three more are found violated by configurations of `MCDashboardUI` that are
not registered runs (every slot is taken); each has the constants of
`MCDashboardUI.cfg` and one property:

* `MCDashboardUIRoom.cfg`, `RoomMessagesStayInRoom` of `ChatPanel`:
  `handleSubmit` computes the room's `roomId` and passes it on, but
  `sendChat(content, to)` has no room parameter, so a message written in a
  room leaves as a broadcast to every peer. The spec says `send_chat`
  carries room identifiers.
* `MCDashboardUINodeSelect.cfg`, `HighlightedRowIsDetailed` of `NodeStatus`:
  a `node_status` frame without `nodeId` is stored under `undefined`; its
  row can be clicked and is highlighted (`undefined === undefined`), but
  `selectedNode` is `null` for a falsy id, so the details pane never shows it.
* `MCDashboardUISelfVouch.cfg`, above.

Also recorded as hazards with notes: a chat sent while the socket is not
open is lost with its text, since `handleSubmit` clears the input whatever
`sendChat` did; `node_list` frames merge and never remove nodes the
orchestrator no longer lists, while `fetchNodes` replaces; workload and node
snapshots replace the store, so a snapshot taken before a `workload_updated`
frame puts the older state back; the reputation card shows
`Math.round(score*100)`, so a score in [0.895, 0.9) reads 90% beside the
tier "Good"; and the name typed in the wizard's step 1 is never used.

## Bounds

* `WsConnection`: three attempts in the core run, which is enough for the
  budget to run out after a mix of opens, drops and disconnects. Two in the
  lifecycle run, where the two lineages from a reset or StrictMode already
  double the state space. Two user calls and one server close: every
  violation above needs at most one of each.
* `P2PSync`:
  * One peer. A join, a leave and a stale snapshot need only one.
  * `MaxMessages = 2`: the cap is reached and then slides.
  * One server event, one refresh, two sends.
  * One reconnect attempt.
  * One reset or disconnect. A reset already gives two lineages of sockets
    with frames in flight on both.
  * The pass run has 4.8 M states and takes under two minutes.

* `Orchestrator`:
  * One reconnect attempt, one workload and one node.
  * Versions up to 2. The command run uses 3, because a command needs a
    newer state after its own to be overtaken.
  * Two server changes, one command.
  * The loading run (orch_reset) leaves the stores empty, because `loading`
    never reads them.
  * `MaxHydrations` (a state constraint in `MCOrchestrator`) bounds how many
    hydrations one behaviour starts: one in orch_data, two in orch_reset.
    Further hydrations add only more of the same fetch interleavings.

* `MCDashboardUI`:
  * Two theme calls and one system change: enough for a change while the
    graph's effect is pending, in both effect orders.
  * Two graph mounts, so a remount after a theme change is covered.
  * Two identities and two generations, so a second keypair could replace
    the first one.
  * Two copies, so two clipboard writes and two timers can overlap.
  * Four conversations in the Map order `dm1, room1, community, room2`,
    so the sort has to move every group. There are two rooms, so the
    room-against-room case and the time order inside a group (the same
    last branch of the comparator serves direct messages) matter, and
    timestamps go up to 3, so a message can reverse their order. A second
    direct message as well quadruples the run without reaching a new
    branch of the comparator. One callback call is enough for
    each form path.
  * Two peers, one of them local, and the stakes 10 and 100.
  * Nodes: one node id and the `undefined` key, six statuses (the four
    filters plus `Ready` and `NotReady`, which are grouped), two store
    changes. Two keys with grouped and ungrouped statuses already tell the
    filter and the stats apart, and let a fetch drop a node a frame added.
  * Chat: three conversations (the community, a room and a direct message),
    two peers and two sends, so a send under each header and a change of
    either prop between sends are reached.

## Fairness

Browsers settle every socket: a connecting socket eventually opens or fails,
and a closing one eventually closes. Timers that are set eventually fire.
`Spec` of `WsConnection` therefore has weak fairness on socket settlement, the
backoff timers and the reset timers. Users and servers owe nothing, so the
application calls and the server closes are not fair. `Orchestrator` adds weak fairness on
its fetches: every fetch eventually resolves or rejects, and its continuation
runs. A browser fetch has no timeout, so this assumes the server or the
network eventually answers or fails the request. `LoadingSettles` depends on
this assumption. `P2PSync` checks only safety, so it has no fairness. `MCDashboardUI` states
weak fairness on the theme effect, the graph's mount effect and the observer
callback, because React flushes pending effects and the browser delivers
mutation records, and on the copy timers, because a timer that is set
fires. `CopiedLabelClears` depends on the timer fairness.

## Not modelled yet

1. **Orchestrator, the rest.** The standalone `fetchWorkloads`,
   `fetchNodes` and `fetchClusterMetrics` exports called outside
   `fetchOrchestratorData`. The `sendWorkloadCommand` frames, whose effect is
   on the server.
2. **Peer convergence.** A liveness property that the store eventually equals
   the server's set once events stop. It fails through the snapshot race
   that `p2p_snapshot` already shows.
3. **Backoff delays.** Delays as a function of the attempt, with setTimeout's
   2^31-1 ms clamp: the model has no clock, and the clamp only matters for
   a `maxReconnectAttempts` above 20.
4. **Display values.** The node panel's CPU and memory percentages, its row
   sort, time and byte formatting, the reputation tier and colour tables,
   the graph's node colours, and the QR code (`QRCode.tsx`), a demo pattern
   drawn from a 32-bit string hash of the link. None of them holds state,
   and none runs concurrently with anything.

The following are out of scope:

* rendering, the force-graph library and styling;
* the shell scripts, which are process and port I/O;
* the markdown analysis document.
