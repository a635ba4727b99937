---------------------------- MODULE WsConnection ----------------------------
(***************************************************************************)
(* The push-channel connection manager of the dashboard hooks: the refs    *)
(* wsRef, reconnectTimerRef, reconnectAttemptsRef and isConnectingRef of   *)
(* useP2P (src/dashboard/src/hooks/useP2P.ts), driven by the React effect  *)
(* that calls connect() on mount and disconnect() on unmount, by the       *)
(* browser's WebSocket events and by window timers.  useOrchestrator       *)
(* repeats the same code and instantiates this module.                     *)
(*                                                                         *)
(* Every handler of every socket ever created stays attached: a late       *)
(* onclose of an old socket runs against the refs a newer socket uses.     *)
(* A socket is a position in the sequence sock; wsRef = 0 stands for null. *)
(* Timer delays are not modelled: the network may answer at any moment,    *)
(* so any pending timer may fire before or after any socket event.         *)
(***************************************************************************)
EXTENDS Naturals, Sequences, FiniteSets

CONSTANTS
    MaxReconnectAttempts, \* maxReconnectAttempts option (code default 5)
    MountModes,           \* subset of {"normal", "strict"}: how React mounts
    UserOps,              \* subset of {"disconnect", "reset"}: what the
                          \* application calls
    MaxUserCalls,         \* bound on disconnect()/resetConnection() calls
    MaxServerCloses       \* bound on closes of an open socket by the server

ASSUME MaxReconnectAttempts \in Nat \ {0}
ASSUME MountModes \subseteq {"normal", "strict"} /\ MountModes # {}
ASSUME UserOps \subseteq {"disconnect", "reset"}
ASSUME MaxUserCalls \in Nat /\ MaxServerCloses \in Nat

\* Close codes: 1000 is the clean code, every other code is abnormal.
Clean    == 1000
Abnormal == 1006
Codes    == {Clean, Abnormal}

\* readyState of a socket; "aborting" is close() called while CONNECTING
\* (the browser then fails the connection: error, then close with 1006),
\* "closing" is close() called while OPEN.
SocketStates == {"connecting", "open", "aborting", "closing", "closed"}

VARIABLES
    sock,          \* sock[i]: readyState of the i-th WebSocket created
    wsRef,         \* wsRef.current (0 = null)
    isConnecting,  \* isConnectingRef.current
    attempts,      \* reconnectAttemptsRef.current
    timers,        \* pending reconnect timers, named by the socket whose
                   \* onclose scheduled them
    timerRef,      \* reconnectTimerRef.current (0 = undefined)
    resetTimers,   \* pending setTimeout(connect, 100) of resetConnection,
                   \* named by the disconnect epoch they were scheduled in
    phase,         \* component lifecycle: "before", "mounted", "unmounted"
    calls,         \* user calls made so far (bounded)
    drops,         \* server-side closes so far (bounded)
    connected,     \* state.connected
    \* history variables, read only by the properties
    epoch,         \* number of disconnect() calls so far
    stopped,       \* disconnect() was the last request of the user/effect
    created,       \* sockets created since the last open or disconnect()
    lost           \* an abnormal close happened since the last open or
                   \* disconnect(), while the hook was meant to be connected

connVars == <<sock, wsRef, isConnecting, attempts, timers, timerRef,
              resetTimers, phase, calls, drops, connected,
              epoch, stopped, created, lost>>

RefState == IF wsRef = 0 THEN "none" ELSE sock[wsRef]

-----------------------------------------------------------------------------
(* connect(): the guards at its top, then new WebSocket(url).              *)

ConnectBusy ==
    \/ isConnecting
    \/ RefState \in {"open", "connecting"}

\* Mutation: the budget check of connect() written with > instead of >=.
ExhaustedOffByOne == attempts > MaxReconnectAttempts

Exhausted == attempts >= MaxReconnectAttempts

StartSocket ==
    /\ sock' = Append(sock, "connecting")
    /\ wsRef' = Len(sock) + 1
    /\ isConnecting' = TRUE
    /\ created' = created + 1

Connect ==
    \/ /\ ConnectBusy \/ Exhausted
       /\ UNCHANGED <<sock, wsRef, isConnecting, created>>
    \/ /\ ~ConnectBusy
       /\ ~Exhausted
       /\ StartSocket

(* WebSocket.close(1000): a CONNECTING socket is failed, an OPEN one      *)
(* starts the closing handshake, any other is left alone.                 *)
CloseRequested(st) ==
    CASE st = "connecting" -> "aborting"
      [] st = "open"       -> "closing"
      [] OTHER             -> st

\* Mutation: disconnect() forgets the socket without calling close() on it.
DoDisconnectNoClose ==
    /\ timers' = IF timerRef # 0 THEN timers \ {timerRef} ELSE timers
    /\ timerRef' = 0
    /\ attempts' = 0
    /\ isConnecting' = FALSE
    /\ wsRef' = 0
    /\ UNCHANGED sock
    /\ epoch' = epoch + 1
    /\ stopped' = TRUE
    /\ created' = 0
    /\ lost' = FALSE

(* disconnect(): clear the reconnect timer, reset the budget and the      *)
(* guard, close and forget the socket wsRef points to.                    *)
DoDisconnect ==
    /\ timers' = IF timerRef # 0 THEN timers \ {timerRef} ELSE timers
    /\ timerRef' = 0
    /\ attempts' = 0
    /\ isConnecting' = FALSE
    /\ IF wsRef # 0
          THEN /\ sock' = [sock EXCEPT ![wsRef] = CloseRequested(@)]
               /\ wsRef' = 0
          ELSE UNCHANGED <<sock, wsRef>>
    /\ epoch' = epoch + 1
    /\ stopped' = TRUE
    /\ created' = 0
    /\ lost' = FALSE

-----------------------------------------------------------------------------
(* The mount effect: connect() once, or under React StrictMode the effect *)
(* runs connect(), its cleanup disconnect(), and connect() again, all in  *)
(* the same commit and on the same refs.  From the initial refs this      *)
(* leaves the first socket aborting and the second one connecting.        *)
Mount(mode) ==
    /\ phase = "before"
    /\ phase' = "mounted"
    /\ stopped' = FALSE
    /\ \/ /\ mode = "normal"
          /\ Connect
          /\ UNCHANGED <<attempts, timers, timerRef, epoch>>
       \/ /\ mode = "strict"
          /\ sock' = <<"aborting", "connecting">>
          /\ wsRef' = 2
          /\ isConnecting' = TRUE
          /\ created' = 1
          /\ epoch' = epoch + 1
          /\ UNCHANGED <<attempts, timers, timerRef>>
    /\ UNCHANGED <<resetTimers, calls, drops, connected, lost>>

\* The effect's cleanup on unmount.
Unmount ==
    /\ phase = "mounted"
    /\ phase' = "unmounted"
    /\ DoDisconnect
    /\ UNCHANGED <<resetTimers, calls, drops, connected>>

\* disconnect() called by the application.
Disconnect ==
    /\ "disconnect" \in UserOps
    /\ phase = "mounted"
    /\ calls < MaxUserCalls
    /\ calls' = calls + 1
    /\ DoDisconnect
    /\ UNCHANGED <<resetTimers, phase, drops, connected>>

\* resetConnection(): disconnect(), then setTimeout(() => connect(), 100);
\* the handle of that timer is not kept anywhere.
ResetConnection ==
    /\ "reset" \in UserOps
    /\ phase = "mounted"
    /\ calls < MaxUserCalls
    /\ calls' = calls + 1
    /\ DoDisconnect
    /\ resetTimers' = resetTimers \cup {epoch + 1}
    /\ UNCHANGED <<phase, drops, connected>>

\* The 100 ms timer of resetConnection fires: connect().  It asks for a
\* connection only if no disconnect() came after the one of its reset.
ResetTimerFire(e) ==
    /\ e \in resetTimers
    /\ resetTimers' = resetTimers \ {e}
    /\ Connect
    /\ stopped' = IF e = epoch THEN FALSE ELSE stopped
    /\ UNCHANGED <<attempts, timers, timerRef, phase, calls, drops,
                   connected, epoch, lost>>

\* A backoff timer set by onclose fires: connect().  reconnectTimerRef
\* keeps the id of the fired timer.
ReconnectTimerFire(t) ==
    /\ t \in timers
    /\ timers' = timers \ {t}
    /\ Connect
    /\ UNCHANGED <<attempts, timerRef, resetTimers, phase, calls, drops,
                   connected, epoch, stopped, lost>>

-----------------------------------------------------------------------------
(* Socket events.                                                          *)

\* Mutation: onopen does not clear isConnectingRef.
SocketOpenKeepsGuard(s) ==
    /\ sock[s] = "connecting"
    /\ sock' = [sock EXCEPT ![s] = "open"]
    /\ attempts' = 0
    /\ connected' = TRUE
    /\ created' = 0
    /\ lost' = FALSE
    /\ UNCHANGED <<isConnecting, wsRef, timers, timerRef, resetTimers, phase,
                   calls, drops, epoch, stopped>>

\* onopen: clear the guard, reset the budget, report connected.
SocketOpen(s) ==
    /\ sock[s] = "connecting"
    /\ sock' = [sock EXCEPT ![s] = "open"]
    /\ isConnecting' = FALSE
    /\ attempts' = 0
    /\ connected' = TRUE
    /\ created' = 0
    /\ lost' = FALSE
    /\ UNCHANGED <<wsRef, timers, timerRef, resetTimers, phase, calls,
                   drops, epoch, stopped>>

\* The close events a socket in state st can deliver.  A connection that
\* is still being set up can only fail (error, then close 1006); an open
\* socket is closed by the server with any code (bounded); a closing
\* handshake ends cleanly or breaks.
CloseCodes(st) ==
    CASE st \in {"connecting", "aborting"} -> {Abnormal}
      [] st \in {"open", "closing"}        -> Codes
      [] OTHER                             -> {}

\* Mutation: onclose counts the attempt but never calls setTimeout.
OnCloseNoRetry(s, code) ==
    /\ isConnecting' = FALSE
    /\ wsRef' = 0
    /\ connected' = FALSE
    /\ IF code # Clean /\ attempts < MaxReconnectAttempts
          THEN /\ attempts' = attempts + 1
               /\ UNCHANGED <<timers, timerRef>>
          ELSE UNCHANGED <<attempts, timers, timerRef>>
    /\ lost' = (lost \/ (code # Clean /\ ~stopped))

\* Mutation: onclose reconnects on every abnormal code, budget or not.
OnCloseUnbounded(s, code) ==
    /\ isConnecting' = FALSE
    /\ wsRef' = 0
    /\ connected' = FALSE
    /\ IF code # Clean
          THEN /\ attempts' = attempts + 1
               /\ timers' = timers \cup {s}
               /\ timerRef' = s
          ELSE UNCHANGED <<attempts, timers, timerRef>>
    /\ lost' = (lost \/ (code # Clean /\ ~stopped))

(* onerror (when the connection failed) and onclose of socket s, which the *)
(* browser runs in one task: clear the guard, null wsRef whatever socket  *)
(* it points to, report disconnected, and on an abnormal code with budget *)
(* left count the attempt and schedule connect().                         *)
OnClose(s, code) ==
    /\ isConnecting' = FALSE
    /\ wsRef' = 0
    /\ connected' = FALSE
    /\ IF code # Clean /\ attempts < MaxReconnectAttempts
          THEN /\ attempts' = attempts + 1
               /\ timers' = timers \cup {s}
               /\ timerRef' = s
          ELSE UNCHANGED <<attempts, timers, timerRef>>
    /\ lost' = (lost \/ (code # Clean /\ ~stopped))

SocketClose(s, code) ==
    /\ code \in CloseCodes(sock[s])
    /\ sock[s] = "open" => drops < MaxServerCloses
    /\ drops' = IF sock[s] = "open" THEN drops + 1 ELSE drops
    /\ sock' = [sock EXCEPT ![s] = "closed"]
    /\ OnClose(s, code)
    /\ UNCHANGED <<resetTimers, phase, calls, epoch, stopped, created>>

-----------------------------------------------------------------------------
Init ==
    /\ sock = <<>>
    /\ wsRef = 0
    /\ isConnecting = FALSE
    /\ attempts = 0
    /\ timers = {}
    /\ timerRef = 0
    /\ resetTimers = {}
    /\ phase = "before"
    /\ calls = 0
    /\ drops = 0
    /\ connected = FALSE
    /\ epoch = 0
    /\ stopped = TRUE
    /\ created = 0
    /\ lost = FALSE

Next ==
    \/ \E m \in MountModes : Mount(m)
    \/ Unmount
    \/ Disconnect
    \/ ResetConnection
    \/ \E e \in resetTimers : ResetTimerFire(e)
    \/ \E t \in timers : ReconnectTimerFire(t)
    \/ \E s \in DOMAIN sock : SocketOpen(s)
    \/ \E s \in DOMAIN sock, c \in Codes : SocketClose(s, c)

(* The browser settles every handshake it started (open or fail, and the  *)
(* closing handshake has a timeout) and fires every timer not cleared.    *)
(* Users and the server owe nothing.                                      *)
Settle(s) ==
    \/ SocketOpen(s)
    \/ /\ sock[s] \in {"connecting", "aborting", "closing"}
       /\ \E c \in Codes : SocketClose(s, c)

Fairness ==
    /\ WF_connVars(\E s \in DOMAIN sock : Settle(s))
    /\ WF_connVars(\E t \in timers : ReconnectTimerFire(t))
    /\ WF_connVars(\E e \in resetTimers : ResetTimerFire(e))

Spec == Init /\ [][Next]_connVars /\ Fairness

-----------------------------------------------------------------------------
TypeOK ==
    /\ sock \in Seq(SocketStates)
    /\ wsRef \in 0..Len(sock)
    /\ isConnecting \in BOOLEAN
    /\ attempts \in 0..MaxReconnectAttempts
    /\ timers \subseteq DOMAIN sock
    /\ timerRef \in 0..Len(sock)
    /\ resetTimers \subseteq 1..epoch
    /\ phase \in {"before", "mounted", "unmounted"}
    /\ calls \in 0..MaxUserCalls
    /\ drops \in 0..MaxServerCloses
    /\ connected \in BOOLEAN
    /\ stopped \in BOOLEAN /\ lost \in BOOLEAN
    /\ created \in Nat

-----------------------------------------------------------------------------
(* Properties.                                                             *)

(* The reconnect budget of connect()/onclose: since the last successful   *)
(* open (or disconnect(), which resets the budget) the hook creates at    *)
(* most maxReconnectAttempts WebSockets, however the closes, the timers   *)
(* and stale handlers of earlier sockets interleave.                      *)
RetryBudget == created <= MaxReconnectAttempts

(* isConnectingRef is set only while the socket wsRef points to is still  *)
(* CONNECTING.  A guard left set with no handshake pending would make     *)
(* every later connect() return early, and the hook would never reconnect.*)
ConnectGuardSound == isConnecting => RefState = "connecting"

(* Every socket the hook has not asked to close is the one wsRef holds:   *)
(* there is never a second live connection, and no live connection the    *)
(* hook can no longer send on or close (spec: double-connect must never   *)
(* happen).  onclose of an old socket nulls wsRef unconditionally.        *)
NoOrphanSocket ==
    \A s \in DOMAIN sock : sock[s] \in {"connecting", "open"} => wsRef = s

(* After disconnect() (or the unmount cleanup) no WebSocket is created    *)
(* until connect is asked for again (a mount, or the timer of a           *)
(* resetConnection() made after that disconnect()): disconnect() is       *)
(* terminal and cancels every scheduled reconnect.                        *)
DisconnectIsTerminal ==
    [][stopped /\ stopped' => Len(sock') = Len(sock)]_connVars

(* A connection lost abnormally while the hook is meant to be connected   *)
(* is eventually re-established (or given up by disconnect()), or the     *)
(* reconnect budget runs out: onclose's backoff timer and connect() keep  *)
(* trying until one of these happens.                                     *)
LostConnectionRecovers == lost ~> (~lost \/ Exhausted)

=============================================================================
