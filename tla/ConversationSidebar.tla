-------------------------- MODULE ConversationSidebar --------------------------
(***************************************************************************)
(* The conversation sidebar                                                *)
(* (src/dashboard/src/components/ConversationSidebar.tsx): the list it     *)
(* sorts on every render, and its create-room form.  The conversations    *)
(* are a prop; the parent changes them when a message arrives, which is    *)
(* ParentMessage here.  The callbacks the sidebar calls (onCreateRoom,     *)
(* onSelectConversation, onLeaveRoom) are recorded in the order they are   *)
(* called.                                                                 *)
(*                                                                         *)
(* Form text is abstracted to what trim() tells apart: "empty", "blank"    *)
(* (white space only) and "text".                                          *)
(***************************************************************************)
EXTENDS Naturals, Sequences
LOCAL INSTANCE SequencesExt

CONSTANTS
    ConversationOrder,  \* the conversations in the Map's insertion order
    ConvType,           \* ConvType[c]: "community", "room" or "dm"
    CreatedAt,          \* CreatedAt[c]: createdAt, a positive timestamp
    MaxClock,           \* bound on the timestamps of new messages
    MaxCalls            \* bound on callback calls

Conversations == ToSet(ConversationOrder)
Texts == {"empty", "blank", "text"}

ASSUME \A c \in Conversations : ConvType[c] \in {"community", "room", "dm"}
ASSUME \A c \in Conversations : CreatedAt[c] \in 1..MaxClock

VARIABLES
    lastMessageAt,       \* lastMessage?.timestamp of each conversation, 0 if none
    showCreateRoom,      \* showCreateRoom state
    newRoomName,         \* newRoomName state
    newRoomDescription,  \* newRoomDescription state
    calls                \* callbacks called so far

sidebarVars == <<lastMessageAt, showCreateRoom, newRoomName,
                 newRoomDescription, calls>>

SidebarInit ==
    /\ lastMessageAt = [c \in Conversations |-> 0]
    /\ showCreateRoom = FALSE
    /\ newRoomName = "empty"
    /\ newRoomDescription = "empty"
    /\ calls = <<>>

\* a.lastMessage?.timestamp || a.createdAt
Time(c) == IF lastMessageAt[c] # 0 THEN lastMessageAt[c] ELSE CreatedAt[c]

\* Mutant: the time difference taken the other way round.
CompareOldestFirst(a, b) ==
    CASE ConvType[a] = "community"                        -> -1
      [] ConvType[b] = "community"                        -> 1
      [] ConvType[a] = "room" /\ ConvType[b] # "room"     -> -1
      [] ConvType[b] = "room" /\ ConvType[a] # "room"     -> 1
      [] OTHER                                            -> Time(a) - Time(b)

\* The comparator passed to sort(): negative puts a first.
Compare(a, b) ==
    CASE ConvType[a] = "community"                        -> -1
      [] ConvType[b] = "community"                        -> 1
      [] ConvType[a] = "room" /\ ConvType[b] # "room"     -> -1
      [] ConvType[b] = "room" /\ ConvType[a] # "room"     -> 1
      [] OTHER                                            -> Time(b) - Time(a)

\* Array.prototype.sort is stable; with a consistent comparator every
\* stable sort gives this order.  Sorting from the back, x (which came
\* first) goes before the first element that does not compare below it.
RECURSIVE InsertBy(_, _)
InsertBy(x, s) ==
    IF s = <<>> \/ Compare(x, Head(s)) <= 0 THEN <<x>> \o s
    ELSE <<Head(s)>> \o InsertBy(x, Tail(s))

RECURSIVE SortFrom(_)
SortFrom(s) == IF s = <<>> THEN s ELSE InsertBy(Head(s), SortFrom(Tail(s)))

SortedConversations == SortFrom(ConversationOrder)

\* A message arrives in conversation c: the parent re-renders the sidebar
\* with a newer lastMessage.
ParentMessage(c, t) ==
    /\ t > lastMessageAt[c]
    /\ lastMessageAt' = [lastMessageAt EXCEPT ![c] = t]
    /\ UNCHANGED <<showCreateRoom, newRoomName, newRoomDescription, calls>>

Call(record) ==
    /\ Len(calls) < MaxCalls
    /\ calls' = Append(calls, record)

\* A click on a row: onSelectConversation(conv.id).
SelectConversation(c) ==
    /\ Call([kind |-> "select", conv |-> c])
    /\ UNCHANGED <<lastMessageAt, showCreateRoom, newRoomName, newRoomDescription>>

\* The leave button of a room row (rooms carry a roomId); stopPropagation
\* keeps the row's own click from selecting the room.
LeaveRoom(c) ==
    /\ ConvType[c] = "room"
    /\ Call([kind |-> "leave", conv |-> c])
    /\ UNCHANGED <<lastMessageAt, showCreateRoom, newRoomName, newRoomDescription>>

\* "Create Room"
OpenCreateRoom ==
    /\ ~showCreateRoom
    /\ showCreateRoom' = TRUE
    /\ UNCHANGED <<lastMessageAt, newRoomName, newRoomDescription, calls>>

TypeRoomName(t) ==
    /\ showCreateRoom
    /\ newRoomName' = t
    /\ UNCHANGED <<lastMessageAt, showCreateRoom, newRoomDescription, calls>>

TypeRoomDescription(t) ==
    /\ showCreateRoom
    /\ newRoomDescription' = t
    /\ UNCHANGED <<lastMessageAt, showCreateRoom, newRoomName, calls>>

ClearForm ==
    /\ showCreateRoom' = FALSE
    /\ newRoomName' = "empty"
    /\ newRoomDescription' = "empty"

\* handleCreateRoom: nothing for a blank name; otherwise onCreateRoom with
\* the trimmed name and description (undefined when blank), then reset.
SubmitCreateRoom ==
    /\ showCreateRoom /\ newRoomName = "text"
    /\ Call([kind |-> "create",
             conv |-> IF newRoomDescription = "text" THEN "described"
                      ELSE "undefined"])
    /\ ClearForm
    /\ UNCHANGED lastMessageAt

\* Mutant: Cancel only hides the form, as the vouch modal's Cancel does.
CancelCreateRoomHideOnly ==
    /\ showCreateRoom
    /\ showCreateRoom' = FALSE
    /\ UNCHANGED <<lastMessageAt, newRoomName, newRoomDescription, calls>>

\* "Cancel" of the form.
CancelCreateRoom ==
    /\ showCreateRoom
    /\ ClearForm
    /\ UNCHANGED <<lastMessageAt, calls>>

SidebarNext ==
    \/ \E c \in Conversations, t \in 1..MaxClock : ParentMessage(c, t)
    \/ \E c \in Conversations : SelectConversation(c)
    \/ \E c \in Conversations : LeaveRoom(c)
    \/ OpenCreateRoom
    \/ \E t \in Texts : TypeRoomName(t)
    \/ \E t \in Texts : TypeRoomDescription(t)
    \/ SubmitCreateRoom
    \/ CancelCreateRoom

SidebarTypeOK ==
    /\ lastMessageAt \in [Conversations -> 0..MaxClock]
    /\ showCreateRoom \in BOOLEAN
    /\ newRoomName \in Texts /\ newRoomDescription \in Texts
    /\ Len(calls) <= MaxCalls

(***************************************************************************)
(* Reference: the order the comment of the sort promises.                  *)
(***************************************************************************)
Rank(c) == CASE ConvType[c] = "community" -> 0
             [] ConvType[c] = "room"      -> 1
             [] OTHER                     -> 2

IsDisplayOrder(s) ==
    /\ Len(s) = Len(ConversationOrder) /\ ToSet(s) = Conversations
    /\ \A i, j \in 1..Len(s) :
          i < j => \/ Rank(s[i]) < Rank(s[j])
                   \/ Rank(s[i]) = Rank(s[j]) /\ Time(s[i]) >= Time(s[j])

\* Whatever messages have arrived, the sidebar lists the community first,
\* then rooms, then direct messages, each group newest first: the
\* comparator handed to sort() is consistent and orders the groups.
SidebarInDisplayOrder == IsDisplayOrder(SortedConversations)

\* The create-room form never opens with text left over from an earlier
\* opening: submit and cancel both clear it.
CreateFormOpensEmpty ==
    [][~showCreateRoom /\ showCreateRoom'
          => newRoomName' = "empty" /\ newRoomDescription' = "empty"]_sidebarVars
==============================================================================
