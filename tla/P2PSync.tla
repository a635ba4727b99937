------------------------------ MODULE P2PSync -------------------------------
(***************************************************************************)
(* The useP2P hook (src/dashboard/src/hooks/useP2P.ts): the peer store     *)
(* and chat log kept in sync through the push channel of WsConnection and  *)
(* the REST endpoints /api/peers and /api/info, against a server whose     *)
(* peer set changes while the dashboard runs.                              *)
(*                                                                         *)
(* Peer values (names, reputation, addresses) are abstracted to presence   *)
(* of the identifier: the handlers decide only which identifiers are kept. *)
(* A frame or REST entry whose identifier is missing under every candidate *)
(* field is NoId.  Each socket has its own in-order inbox; the server      *)
(* pushes to a socket only while it is open.  REST requests run            *)
(* concurrently and their answers come back in any order.                 *)
(***************************************************************************)
EXTENDS Naturals, Sequences, FiniteSets

CONSTANTS
    MaxReconnectAttempts, MountModes, UserOps, MaxUserCalls, MaxServerCloses,
    Peers,            \* peer identifiers the server may report
    Self,             \* peer_id the /api/info endpoint returns
    NoId,             \* an identifier absent from every candidate field
    Unknown,          \* the 'unknown' sender sendChat falls back to
    Remote,           \* sender of chat messages from other peers
    MaxMessages,      \* capacity of the chat log (100 in the code)
    MaxServerEvents,  \* bound on server-side changes and pushes
    MaxRefreshes,     \* bound on refreshPeers() calls
    MaxSends          \* bound on sendChat() calls

ASSUME MaxMessages \in Nat /\ MaxMessages >= 2  \* slice(-(N-1)) with N = 1 is slice(-0)
ASSUME {Self, NoId, Unknown, Remote} \cap Peers = {}

VARIABLES
    sock, wsRef, isConnecting, attempts, timers, timerRef, resetTimers,
    phase, calls, drops, connected, epoch, stopped, created, lost,
    serverPeers,  \* the peers the server knows now
    inbox,        \* inbox[s]: frames pushed to socket s, not yet handled
    events,       \* server changes and pushes so far (bounded)
    peers,        \* state.peers, by identifier
    fetches,      \* /api/peers requests in flight
    fetchSerial,  \* requests issued so far
    refreshes,    \* refreshPeers() calls so far (bounded)
    infoPending,  \* /api/info requests in flight
    localPeerId,  \* state.localPeerId (NoId = null)
    messages,     \* state.messages
    chatHist,     \* history: every entry ever appended to the chat log
    sends         \* sendChat() calls so far (bounded)

Conn == INSTANCE WsConnection

RefState == Conn!RefState

connVars == <<sock, wsRef, isConnecting, attempts, timers, timerRef,
              resetTimers, phase, calls, drops, connected,
              epoch, stopped, created, lost>>
dataVars == <<serverPeers, inbox, events, peers, fetches, fetchSerial,
              refreshes, infoPending, localPeerId, messages, chatHist, sends>>
vars == <<connVars, dataVars>>

Frames ==
    [type : {"peers_list"}, peers : SUBSET (Peers \cup {NoId})]
    \cup [type : {"peer_joined", "peer_left"}, id : Peers \cup {NoId}]
    \cup [type : {"chat_message"}]
    \cup [type : {"other"}]  \* unparsable JSON or an unhandled type

ChatEntry == [n : Nat, local : BOOLEAN, from : {Self, Unknown, Remote}]

Fetch == [id : Nat, st : {"sent", "answered"}, snap : SUBSET Peers]

-----------------------------------------------------------------------------
(* Helpers of the handlers.                                                *)

\* The inboxes follow the sockets: a new socket starts with an empty one.
InboxFollowsSockets ==
    inbox' = [i \in DOMAIN sock' |-> IF i \in DOMAIN inbox THEN inbox[i]
                                                        ELSE <<>>]

\* Mutation: the `if (peerId)` / `if (normalized.id)` guards dropped.
WithIdUnguarded(ids) == ids

\* The ids a normalizePeer() result can be stored under: `if (normalized.id)`.
WithId(ids) == ids \ {NoId}

\* Mutation: slice(-MaxMessages) instead of slice(-(MaxMessages - 1)).
AppendCappedOffByOne(log, entry) ==
    LET keep == IF Len(log) > MaxMessages
                   THEN SubSeq(log, Len(log) - MaxMessages + 1, Len(log))
                   ELSE log
    IN  Append(keep, entry)

\* [...s.messages.slice(-(MaxMessages - 1)), entry]
AppendCapped(log, entry) ==
    LET keep == IF Len(log) >= MaxMessages
                   THEN SubSeq(log, Len(log) - MaxMessages + 2, Len(log))
                   ELSE log
    IN  Append(keep, entry)

AddChat(entry) ==
    /\ messages' = AppendCapped(messages, entry)
    /\ chatHist' = Append(chatHist, entry)

NewEntry(local, from) == [n |-> Len(chatHist) + 1, local |-> local, from |-> from]

(* handleMessage(message): one case per frame type.                        *)
HandleMessage(m) ==
    CASE m.type = "peers_list"   -> /\ peers' = peers \cup WithId(m.peers)
                                    /\ UNCHANGED <<messages, chatHist>>
      [] m.type = "peer_joined"  -> /\ peers' = peers \cup WithId({m.id})
                                    /\ UNCHANGED <<messages, chatHist>>
      [] m.type = "peer_left"    -> /\ peers' = peers \ {m.id}
                                    /\ UNCHANGED <<messages, chatHist>>
      [] m.type = "chat_message" -> /\ AddChat(NewEntry(FALSE, Remote))
                                    /\ UNCHANGED peers
      [] OTHER                   -> UNCHANGED <<peers, messages, chatHist>>

\* fetchInfo() and fetchPeers() as issued: the requests go out.
StartFetches ==
    /\ infoPending' = infoPending + 1
    /\ fetches' = fetches \cup
                  {[id |-> fetchSerial + 1, st |-> "sent", snap |-> {}]}
    /\ fetchSerial' = fetchSerial + 1

-----------------------------------------------------------------------------
(* The connection manager's steps, with their effect on the data.          *)

Mount(m) ==
    /\ Conn!Mount(m)
    /\ InboxFollowsSockets
    /\ UNCHANGED <<serverPeers, events, peers, fetches, fetchSerial, refreshes,
                   infoPending, localPeerId, messages, chatHist, sends>>

CloseOnly(A) ==
    /\ A
    /\ UNCHANGED dataVars

ConnectOnly(A) ==
    /\ A
    /\ InboxFollowsSockets
    /\ UNCHANGED <<serverPeers, events, peers, fetches, fetchSerial, refreshes,
                   infoPending, localPeerId, messages, chatHist, sends>>

\* onopen also calls fetchInfo() and fetchPeers().
SocketOpen(s) ==
    /\ Conn!SocketOpen(s)
    /\ StartFetches
    /\ UNCHANGED <<serverPeers, inbox, events, peers, refreshes, localPeerId,
                   messages, chatHist, sends>>

\* Frames not yet handled when the socket closes are never delivered.
SocketClose(s, c) ==
    /\ Conn!SocketClose(s, c)
    /\ inbox' = [inbox EXCEPT ![s] = <<>>]
    /\ UNCHANGED <<serverPeers, events, peers, fetches, fetchSerial, refreshes,
                   infoPending, localPeerId, messages, chatHist, sends>>

\* onmessage: JSON.parse the next frame and handle it (in arrival order).
Deliver(s) ==
    /\ sock[s] \in {"open", "closing"}
    /\ inbox[s] # <<>>
    /\ HandleMessage(Head(inbox[s]))
    /\ inbox' = [inbox EXCEPT ![s] = Tail(@)]
    /\ UNCHANGED <<connVars, serverPeers, events, fetches, fetchSerial,
                   refreshes, infoPending, localPeerId, sends>>

-----------------------------------------------------------------------------
(* The server: its peer set changes and it pushes frames to open sockets.  *)

OpenSockets == {s \in DOMAIN sock : sock[s] = "open"}

PushAll(f) ==
    inbox' = [i \in DOMAIN inbox |->
                IF i \in OpenSockets THEN Append(inbox[i], f) ELSE inbox[i]]

ServerPeerJoin(p) ==
    /\ events < MaxServerEvents
    /\ p \notin serverPeers
    /\ serverPeers' = serverPeers \cup {p}
    /\ PushAll([type |-> "peer_joined", id |-> p])
    /\ events' = events + 1
    /\ UNCHANGED <<connVars, peers, fetches, fetchSerial, refreshes,
                   infoPending, localPeerId, messages, chatHist, sends>>

ServerPeerLeave(p) ==
    /\ events < MaxServerEvents
    /\ p \in serverPeers
    /\ serverPeers' = serverPeers \ {p}
    /\ PushAll([type |-> "peer_left", id |-> p])
    /\ events' = events + 1
    /\ UNCHANGED <<connVars, peers, fetches, fetchSerial, refreshes,
                   infoPending, localPeerId, messages, chatHist, sends>>

\* A frame to one open socket: the peer list, a chat message, a frame in a
\* shape whose identifier cannot be found, or one the hook does not handle.
ServerPush(s, f) ==
    /\ events < MaxServerEvents
    /\ s \in OpenSockets
    /\ inbox' = [inbox EXCEPT ![s] = Append(@, f)]
    /\ events' = events + 1
    /\ UNCHANGED <<connVars, serverPeers, peers, fetches, fetchSerial,
                   refreshes, infoPending, localPeerId, messages, chatHist,
                   sends>>

PushedFrames ==
    {[type |-> "peers_list", peers |-> serverPeers \cup {NoId}],
     [type |-> "peer_joined", id |-> NoId],
     [type |-> "other"]}

\* A chat message from another peer, broadcast to every open socket.
ServerChat ==
    /\ events < MaxServerEvents
    /\ PushAll([type |-> "chat_message"])
    /\ events' = events + 1
    /\ UNCHANGED <<connVars, serverPeers, peers, fetches, fetchSerial,
                   refreshes, infoPending, localPeerId, messages, chatHist,
                   sends>>

-----------------------------------------------------------------------------
(* REST: /api/peers and /api/info.                                         *)

\* refreshPeers(): fetchPeers() called by the application.
RefreshPeers ==
    /\ phase = "mounted"
    /\ refreshes < MaxRefreshes
    /\ refreshes' = refreshes + 1
    /\ fetches' = fetches \cup
                  {[id |-> fetchSerial + 1, st |-> "sent", snap |-> {}]}
    /\ fetchSerial' = fetchSerial + 1
    /\ UNCHANGED <<connVars, serverPeers, inbox, events, peers, infoPending,
                   localPeerId, messages, chatHist, sends>>

\* The server reads its peer set for the response.
FetchAnswered(f) ==
    /\ f \in fetches
    /\ f.st = "sent"
    /\ fetches' = (fetches \ {f}) \cup {[f EXCEPT !.st = "answered",
                                                  !.snap = serverPeers]}
    /\ UNCHANGED <<connVars, serverPeers, inbox, events, peers, fetchSerial,
                   refreshes, infoPending, localPeerId, messages, chatHist,
                   sends>>

\* The response reaches the hook: setState builds a new Map from it alone.
FetchPeersDone(f) ==
    /\ f \in fetches
    /\ f.st = "answered"
    /\ fetches' = fetches \ {f}
    /\ peers' = WithId(f.snap)
    /\ UNCHANGED <<connVars, serverPeers, inbox, events, fetchSerial,
                   refreshes, infoPending, localPeerId, messages, chatHist,
                   sends>>

\* fetch() or response.json() rejects: the catch only logs.
FetchPeersFailed(f) ==
    /\ f \in fetches
    /\ fetches' = fetches \ {f}
    /\ UNCHANGED <<connVars, serverPeers, inbox, events, peers, fetchSerial,
                   refreshes, infoPending, localPeerId, messages, chatHist,
                   sends>>

\* fetchInfo() resolves: localPeerId = info.peer_id, or rejects and logs.
FetchInfoDone(ok) ==
    /\ infoPending > 0
    /\ infoPending' = infoPending - 1
    /\ localPeerId' = IF ok THEN Self ELSE localPeerId
    /\ UNCHANGED <<connVars, serverPeers, inbox, events, peers, fetches,
                   fetchSerial, refreshes, messages, chatHist, sends>>

-----------------------------------------------------------------------------
(* sendChat(content): refused unless wsRef is OPEN; otherwise send, then   *)
(* append a local echo from localPeerId || 'unknown'.                      *)
SendChat ==
    /\ phase = "mounted"
    /\ sends < MaxSends
    /\ sends' = sends + 1
    /\ IF RefState = "open"
          THEN AddChat(NewEntry(TRUE, IF localPeerId = NoId THEN Unknown
                                                           ELSE localPeerId))
          ELSE UNCHANGED <<messages, chatHist>>
    /\ UNCHANGED <<connVars, serverPeers, inbox, events, peers, fetches,
                   fetchSerial, refreshes, infoPending, localPeerId>>

-----------------------------------------------------------------------------
Init ==
    /\ Conn!Init
    /\ serverPeers \in SUBSET Peers
    /\ inbox = <<>>
    /\ events = 0
    /\ peers = {}
    /\ fetches = {}
    /\ fetchSerial = 0
    /\ refreshes = 0
    /\ infoPending = 0
    /\ localPeerId = NoId
    /\ messages = <<>>
    /\ chatHist = <<>>
    /\ sends = 0

Next ==
    \/ \E m \in MountModes : Mount(m)
    \/ CloseOnly(Conn!Unmount)
    \/ CloseOnly(Conn!Disconnect)
    \/ CloseOnly(Conn!ResetConnection)
    \/ \E e \in resetTimers : ConnectOnly(Conn!ResetTimerFire(e))
    \/ \E t \in timers : ConnectOnly(Conn!ReconnectTimerFire(t))
    \/ \E s \in DOMAIN sock : SocketOpen(s)
    \/ \E s \in DOMAIN sock, c \in Conn!Codes : SocketClose(s, c)
    \/ \E s \in DOMAIN sock : Deliver(s)
    \/ \E p \in Peers : ServerPeerJoin(p)
    \/ \E p \in Peers : ServerPeerLeave(p)
    \/ \E s \in DOMAIN sock, f \in PushedFrames : ServerPush(s, f)
    \/ ServerChat
    \/ RefreshPeers
    \/ \E f \in fetches : FetchAnswered(f)
    \/ \E f \in fetches : FetchPeersDone(f)
    \/ \E f \in fetches : FetchPeersFailed(f)
    \/ \E ok \in BOOLEAN : FetchInfoDone(ok)
    \/ SendChat

Spec == Init /\ [][Next]_vars

-----------------------------------------------------------------------------
TypeOK ==
    /\ Conn!TypeOK
    /\ serverPeers \subseteq Peers
    /\ inbox \in [DOMAIN sock -> Seq(Frames)]
    /\ events \in 0..MaxServerEvents
    /\ peers \subseteq Peers      \* no entry under a missing identifier
    /\ fetches \subseteq Fetch
    /\ refreshes \in 0..MaxRefreshes
    /\ infoPending \in Nat
    /\ localPeerId \in {NoId, Self}
    /\ messages \in Seq(ChatEntry) /\ chatHist \in Seq(ChatEntry)
    /\ sends \in 0..MaxSends

-----------------------------------------------------------------------------
(* Properties.                                                             *)

(* The chat log keeps exactly the most recent MaxMessages entries, in the *)
(* order handleMessage and sendChat appended them: the slice(-99) of both *)
(* append sites drops only the oldest entries, and never more than needed.*)
ChatLogIsRecentSuffix ==
    LET k == IF Len(chatHist) < MaxMessages THEN Len(chatHist)
                                            ELSE MaxMessages
    IN  /\ Len(messages) = k
        /\ messages = SubSeq(chatHist, Len(chatHist) - k + 1, Len(chatHist))

(* A snapshot merges into the store: applying a /api/peers response never *)
(* removes a peer the store held before (spec 4.1 and 8: replaceAll       *)
(* does not remove entities absent from the snapshot, so that a peer an   *)
(* event added after the snapshot was taken survives a stale snapshot).   *)
SnapshotKeepsKnownPeers ==
    [][\A f \in fetches : (f.st = "answered" /\ f \notin fetches')
                           => peers \subseteq peers']_vars

(* Every local echo sendChat appends carries the hook's own identity      *)
(* (spec 4.5: tagged with its own identity), even when the message is    *)
(* sent before /api/info has answered.                                    *)
EchoCarriesOwnIdentity ==
    \A i \in DOMAIN messages : messages[i].local => messages[i].from = Self

(* Every sendChat() call appends its local echo, also when the socket is  *)
(* not open (spec 8: sending while disconnected does not send over the    *)
(* channel but still appends the optimistic echo).                        *)
EchoEvenWhenOffline ==
    [][sends' = sends + 1 => Len(chatHist') = Len(chatHist) + 1]_vars

=============================================================================
