---------------------------- MODULE MCDashboardUI ----------------------------
(***************************************************************************)
(* The dashboard's own UI state, for TLC: the theme hook with the peer     *)
(* graph it colours, the onboarding wizard, the conversation sidebar, the  *)
(* vouch modal of the reputation card, the node status panel, and the     *)
(* chat panel.  The six parts share no                                     *)
(* state, so interleaving their steps only multiplies states without       *)
(* making any new one reachable within a part: each behaviour exercises    *)
(* the part chosen in its initial state.                                   *)
(***************************************************************************)
EXTENDS PeerGraph, Onboarding, ConversationSidebar, VouchModal, NodeStatus,
        ChatPanel, TLC

CONSTANTS id1, id2   \* two identities generateKeypair() may return

MCIdentities == {id1, id2}

CONSTANTS community, room1, room2, dm1   \* conversations
CONSTANTS p1, p2                       \* peers of the graph; p1 is local

\* The Map's order puts the direct message first and the rooms around the
\* community, so the sort has to move every group; room2 is newer than
\* room1 until messages arrive, so the time order inside a group (the
\* comparator's last branch, shared by rooms and direct messages) and the
\* room-against-room case of the room branch are at stake.
MCConversationOrder == <<dm1, room1, community, room2>>
MCConvType == (community :> "community") @@ (room1 :> "room")
                  @@ (room2 :> "room") @@ (dm1 :> "dm")
MCCreatedAt == (community :> 3) @@ (room1 :> 1) @@ (room2 :> 2) @@ (dm1 :> 1)
MCPeers == {p1, p2}

CONSTANT n1   \* the node id of the orchestrator; NoNodeId is the second node

MCNodeIds == {n1}

\* The chat panel is shown the community, a room and a direct message with
\* the remote peer p2.
MCChatConversations == {community, room1, dm1}
MCChatConvPeer == dm1 :> p2

VARIABLE part   \* the part this behaviour exercises

Parts == {"graph", "wizard", "sidebar", "card", "nodes", "chat"}

uiVars == <<vars, onboardingVars, sidebarVars, cardVars, nodeVars,
            chatVars, part>>

UIInit ==
    /\ Init /\ OnboardingInit /\ SidebarInit /\ CardInit /\ NodeStatusInit
    /\ ChatInit
    /\ part \in Parts

\* A step of the graph and theme (Next), or of the wizard (OnboardingNext),
\* spelled out action by action.
GraphStep(A) ==
    part = "graph" /\ A
        /\ UNCHANGED <<onboardingVars, sidebarVars, cardVars, nodeVars,
                       chatVars,
                      part>>
WizardStep(A) ==
    part = "wizard" /\ A
        /\ UNCHANGED <<vars, sidebarVars, cardVars, nodeVars, chatVars,
                      part>>
SidebarStep(A) ==
    part = "sidebar" /\ A
        /\ UNCHANGED <<vars, onboardingVars, cardVars, nodeVars, chatVars,
                      part>>
CardStep(A) ==
    part = "card" /\ A
        /\ UNCHANGED <<vars, onboardingVars, sidebarVars, nodeVars, chatVars,
                      part>>
ChatStep(A) ==
    part = "chat" /\ A
        /\ UNCHANGED <<vars, onboardingVars, sidebarVars, cardVars, nodeVars,
                      part>>
NodesStep(A) ==
    part = "nodes" /\ A
        /\ UNCHANGED <<vars, onboardingVars, sidebarVars, cardVars, chatVars,
                      part>>

UINext ==
    \/ GraphStep(ThemeEffect)
    \/ GraphStep(\E t \in Themes : SetTheme(t) /\ UNCHANGED graphVars)
    \/ GraphStep(ToggleTheme /\ UNCHANGED graphVars)
    \/ GraphStep(SystemChange /\ UNCHANGED graphVars)
    \/ GraphStep(MountGraph)
    \/ GraphStep(GraphEffect)
    \/ GraphStep(ObserverCallback)
    \/ GraphStep(UnmountGraph)
    \/ WizardStep(GetStarted)
    \/ WizardStep(\E t \in {"empty", "text"} : TypePeerName(t))
    \/ WizardStep(GenerateIdentity)
    \/ WizardStep(\E i \in Identities : KeygenSucceeds(i))
    \/ WizardStep(KeygenFails)
    \/ WizardStep(\E l \in CopyLabels : Copy(l))
    \/ WizardStep(\E w \in DOMAIN clipWrites : ClipboardWritten(w))
    \/ WizardStep(\E w \in DOMAIN clipWrites : ClipboardRefused(w))
    \/ WizardStep(\E l \in DOMAIN copyTimers : CopyTimerFires(l))
    \/ WizardStep(ContinueToReputation)
    \/ WizardStep(Complete)
    \/ WizardStep(Close)
    \/ SidebarStep(\E c \in Conversations, t \in 1..MaxClock : ParentMessage(c, t))
    \/ SidebarStep(\E c \in Conversations : SelectConversation(c))
    \/ SidebarStep(\E c \in Conversations : LeaveRoom(c))
    \/ SidebarStep(OpenCreateRoom)
    \/ SidebarStep(\E t \in Texts : TypeRoomName(t))
    \/ SidebarStep(\E t \in Texts : TypeRoomDescription(t))
    \/ SidebarStep(SubmitCreateRoom)
    \/ SidebarStep(CancelCreateRoom)
    \/ CardStep(\E p \in Peers \cup {NoPeer} : SelectPeer(p))
    \/ CardStep(InfoArrives)
    \/ CardStep(OpenVouch)
    \/ CardStep(\E st \in Stakes : SetStake(st))
    \/ CardStep(\E m \in {"empty", "text"} : SetMessage(m))
    \/ CardStep(CloseVouch)
    \/ CardStep(ConfirmVouch)
    \/ NodesStep(\E k \in NodeKeys, s \in NodeStatuses : NodeUpsert(k, s))
    \/ NodesStep(\E k \in NodeKeys : NodeLeft(k))
    \/ NodesStep(\E b \in Batches : NodeListFrame(b))
    \/ NodesStep(\E b \in Batches : NodesFetched(b))
    \/ NodesStep(\E f \in Filters : SetFilter(f))
    \/ NodesStep(\E k \in NodeKeys : SelectNode(k))
    \/ ChatStep(\E t \in {"empty", "blank", "text"} : TypeInput(t))
    \/ ChatStep(\E c \in ChatConversations \cup {NoConversation} : SetActive(c))
    \/ ChatStep(\E p \in ChatPeers \cup {Nobody} : SetSelectedPeer(p))
    \/ ChatStep(SocketChange)
    \/ ChatStep(Submit)

\* Effects and observer callbacks run, and timers that are set fire; the
\* user and the operating system owe nothing.
UIFairness ==
    /\ WF_uiVars(WizardStep(\E l \in DOMAIN copyTimers : CopyTimerFires(l)))
    /\ WF_uiVars(GraphStep(ThemeEffect))
    /\ WF_uiVars(GraphStep(GraphEffect))
    /\ WF_uiVars(GraphStep(ObserverCallback))

UISpec == UIInit /\ [][UINext]_uiVars /\ UIFairness

UITypeOK ==
    /\ GraphTypeOK /\ OnboardingTypeOK /\ SidebarTypeOK /\ CardTypeOK
    /\ NodeStatusTypeOK /\ ChatTypeOK
    /\ part \in Parts
==============================================================================
