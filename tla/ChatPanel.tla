------------------------------- MODULE ChatPanel -------------------------------
(***************************************************************************)
(* The chat panel (ChatPanel, src/unnamed/part_003) and the sendChat of    *)
(* useP2P (src/dashboard/src/hooks/useP2P.ts) its onSendMessage reaches:   *)
(* the input state, the props activeConversation and selectedPeer that the *)
(* parent changes, and the send_chat frames that leave on the socket.      *)
(* Whether the socket is OPEN is an input here; WsConnection models how it *)
(* opens and closes.                                                       *)
(*                                                                         *)
(* The input is abstracted to what trim() tells apart: "empty", "blank"    *)
(* and "text".  A room's roomId is the room itself.  A frame is its       *)
(* recipient and room; the header's subtitle and the conversation at the  *)
(* time of the send are recorded beside it.                                *)
(***************************************************************************)
EXTENDS Naturals, Sequences

CONSTANTS
    ChatConversations,  \* conversations the parent may make active
    ChatConvType,       \* ChatConvType[c]: "community", "room" or "dm"
    ChatConvPeer,       \* ChatConvPeer[c]: the peerId of a dm
    ChatPeers,          \* peer ids
    NoConversation,     \* activeConversation undefined
    Nobody,             \* to undefined; selectedPeer null
    MaxSends            \* bound on submits

ASSUME NoConversation \notin ChatConversations /\ Nobody \notin ChatPeers
ASSUME \A c \in ChatConversations :
          ChatConvType[c] = "dm" => ChatConvPeer[c] \in ChatPeers

VARIABLES
    input,          \* input state
    active,         \* the activeConversation prop
    selectedPeer,   \* the selectedPeer prop
    socketOpen,     \* wsRef.current?.readyState === WebSocket.OPEN
    wire,           \* send_chat frames sent, with what was shown at the send
    submits         \* submits so far (bounded)

chatVars == <<input, active, selectedPeer, socketOpen, wire, submits>>

ChatInit ==
    /\ input = "empty"
    /\ active = NoConversation
    /\ selectedPeer = Nobody
    /\ socketOpen = FALSE
    /\ wire = <<>>
    /\ submits = 0

\* getHeaderText().subtitle
Subtitle ==
    CASE active # NoConversation /\ ChatConvType[active] = "dm"   -> "direct"
      [] active # NoConversation /\ ChatConvType[active] = "room" -> "room"
      [] active # NoConversation                                  -> "broadcast"
      [] selectedPeer # Nobody                                    -> "direct"
      [] OTHER                                                    -> "broadcast"

\* Mutant: the legacy selectedPeer branch of handleSubmit left out.
TargetNoLegacy ==
    IF active # NoConversation /\ ChatConvType[active] = "dm"
    THEN ChatConvPeer[active] ELSE Nobody

\* handleSubmit's `to`: the dm's peerId, nothing for a room or the
\* community, and selectedPeer when no conversation is active.
Target ==
    CASE active = NoConversation        -> selectedPeer
      [] ChatConvType[active] = "dm"    -> ChatConvPeer[active]
      [] OTHER                          -> Nobody

\* handleSubmit's `roomId`: the active room.
RoomId ==
    IF active # NoConversation /\ ChatConvType[active] = "room"
    THEN active ELSE Nobody

\* sendChat(content, to): JSON.stringify({type: 'send_chat', content, to});
\* a third argument, the room id, is not a parameter of it.
SendChatFrame(to, roomId) == [to |-> to, room |-> Nobody]

TypeInput(t) ==
    /\ input' = t
    /\ UNCHANGED <<active, selectedPeer, socketOpen, wire, submits>>

\* The parent changes the props: a conversation chosen in the sidebar, or
\* a peer chosen in the graph.
SetActive(c) ==
    /\ active' = c
    /\ UNCHANGED <<input, selectedPeer, socketOpen, wire, submits>>

SetSelectedPeer(p) ==
    /\ selectedPeer' = p
    /\ UNCHANGED <<input, active, socketOpen, wire, submits>>

SocketChange ==
    /\ socketOpen' = ~socketOpen
    /\ UNCHANGED <<input, active, selectedPeer, wire, submits>>

\* handleSubmit: nothing for a blank input; otherwise
\* onSendMessage(input.trim(), to, roomId), which reaches sendChat(content,
\* to): the frame carries no room id, and nothing is sent unless the socket
\* is OPEN.  setInput('') follows either way.
Submit ==
    /\ input = "text"
    /\ submits < MaxSends
    /\ submits' = submits + 1
    /\ wire' = IF socketOpen
                  THEN Append(wire, [frame |-> SendChatFrame(Target, RoomId),
                                     shown |-> Subtitle, conv |-> active])
                  ELSE wire
    /\ input' = "empty"
    /\ UNCHANGED <<active, selectedPeer, socketOpen>>

ChatNext ==
    \/ \E t \in {"empty", "blank", "text"} : TypeInput(t)
    \/ \E c \in ChatConversations \cup {NoConversation} : SetActive(c)
    \/ \E p \in ChatPeers \cup {Nobody} : SetSelectedPeer(p)
    \/ SocketChange
    \/ Submit

ChatTypeOK ==
    /\ input \in {"empty", "blank", "text"}
    /\ active \in ChatConversations \cup {NoConversation}
    /\ selectedPeer \in ChatPeers \cup {Nobody}
    /\ socketOpen \in BOOLEAN
    /\ Len(wire) <= MaxSends
    /\ submits \in 0..MaxSends

\* A message sent while the header reads "Direct message" goes to one
\* peer, and one sent while it reads "Broadcasting to all peers" goes to
\* every peer: getHeaderText and handleSubmit pick the recipient from the
\* props separately, with the legacy selectedPeer as the fallback of both.
RecipientMatchesHeader ==
    \A i \in DOMAIN wire :
        /\ wire[i].shown = "direct" => wire[i].frame.to # Nobody
        /\ wire[i].shown = "broadcast" => wire[i].frame.to = Nobody

\* A message written in a room reaches the room only: the send_chat frame
\* names the room (spec: send_chat carries optional direct-recipient and
\* room identifiers), so it is not a broadcast.
RoomMessagesStayInRoom ==
    \A i \in DOMAIN wire :
        wire[i].conv # NoConversation /\ ChatConvType[wire[i].conv] = "room"
            => wire[i].frame.room = wire[i].conv
==============================================================================
