CONSTANTS
    MaxThemeCalls = 2
    MaxSystemChanges = 1
    MaxGraphMounts = 2
    id1 = id1
    id2 = id2
    Identities <- MCIdentities
    NoIdentity = NoIdentity
    CopyLabels = {"peerId", "invite"}
    MaxGenerations = 2
    MaxCopies = 2
    community = community
    room1 = room1
    room2 = room2
    dm1 = dm1
    ConversationOrder <- MCConversationOrder
    ConvType <- MCConvType
    CreatedAt <- MCCreatedAt
    MaxClock = 3
    MaxCalls = 1
    p1 = p1
    p2 = p2
    Peers <- MCPeers
    LocalPeer = p1
    NoPeer = NoPeer
    Stakes = {10, 100}
    MaxVouches = 1
    n1 = n1
    NodeIds <- MCNodeIds
    NoNodeId = NoNodeId
    NoSelection = NoSelection
    NodeStatuses = {"healthy", "Ready", "degraded", "NotReady", "offline", "pending"}
    MaxNodeFrames = 2
    ChatConversations <- MCChatConversations
    ChatConvType <- MCConvType
    ChatConvPeer <- MCChatConvPeer
    ChatPeers <- MCPeers
    NoConversation = NoConversation
    Nobody = Nobody
    MaxSends = 2
SPECIFICATION UISpec
INVARIANT
    HighlightedRowIsDetailed
CHECK_DEADLOCK FALSE
