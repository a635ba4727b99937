------------------------------- MODULE VouchModal -------------------------------
(***************************************************************************)
(* The vouch modal of the reputation card                                  *)
(* (src/dashboard/src/components/ReputationCard.tsx): the states           *)
(* showVouchModal, vouchMessage and vouchStake, the props peer and         *)
(* localPeerId, and the vouches handed to onVouch.  The parent selects the *)
(* peer (a click on the graph), but not while the modal covers the page;   *)
(* localPeerId arrives when /api/info answers (useP2P.ts fetchInfo),       *)
(* which may be at any time.  The peers the graph shows come from          *)
(* /api/peers and include the local node (graphData marks it isLocal).     *)
(*                                                                         *)
(* The message is "empty" or "text"; the stake is one of a few values of   *)
(* the 1..100 slider.                                                      *)
(***************************************************************************)
EXTENDS Naturals, Sequences

CONSTANTS
    Peers,        \* peer ids the graph can show
    LocalPeer,    \* the id /api/info reports
    NoPeer,       \* null
    Stakes,       \* slider values used
    MaxVouches    \* bound on onVouch calls

ASSUME LocalPeer \in Peers /\ NoPeer \notin Peers
ASSUME 10 \in Stakes /\ Stakes \subseteq 1..100

VARIABLES
    peer,            \* the peer prop, NoPeer when none is selected
    localPeerId,     \* the localPeerId prop
    showVouchModal,  \* showVouchModal state
    vouchMessage,    \* vouchMessage state
    vouchStake,      \* vouchStake state
    vouches          \* the VouchRequests passed to onVouch

cardVars == <<peer, localPeerId, showVouchModal, vouchMessage, vouchStake,
              vouches>>

CardInit ==
    /\ peer = NoPeer
    /\ localPeerId = NoPeer
    /\ showVouchModal = FALSE
    /\ vouchMessage = "empty"
    /\ vouchStake = 10
    /\ vouches = <<>>

\* The modal is on screen: showVouchModal, and the card is not in its
\* "no peer" branch.
ModalShown == showVouchModal /\ peer # NoPeer

\* peer.id === localPeerId, with null never equal to an id
IsLocalPeer == peer # NoPeer /\ peer = localPeerId

\* The parent selects another peer or none; the modal's overlay takes
\* the clicks while it is shown.
SelectPeer(p) ==
    /\ ~ModalShown
    /\ peer' = p
    /\ UNCHANGED <<localPeerId, showVouchModal, vouchMessage, vouchStake, vouches>>

\* fetchInfo answers: setState localPeerId.
InfoArrives ==
    /\ localPeerId = NoPeer
    /\ localPeerId' = LocalPeer
    /\ UNCHANGED <<peer, showVouchModal, vouchMessage, vouchStake, vouches>>

\* The "Vouch" button, rendered for a peer other than the local one.
OpenVouch ==
    /\ peer # NoPeer /\ ~IsLocalPeer
    /\ showVouchModal' = TRUE
    /\ UNCHANGED <<peer, localPeerId, vouchMessage, vouchStake, vouches>>

SetStake(s) ==
    /\ ModalShown
    /\ vouchStake' = s
    /\ UNCHANGED <<peer, localPeerId, showVouchModal, vouchMessage, vouches>>

SetMessage(m) ==
    /\ ModalShown
    /\ vouchMessage' = m
    /\ UNCHANGED <<peer, localPeerId, showVouchModal, vouchStake, vouches>>

\* The close button and "Cancel": setShowVouchModal(false) only.
CloseVouch ==
    /\ ModalShown
    /\ showVouchModal' = FALSE
    /\ UNCHANGED <<peer, localPeerId, vouchMessage, vouchStake, vouches>>

\* "Confirm Vouch": handleVouch returns early without a localPeerId;
\* otherwise onVouch(request), then the modal is closed and reset.
ConfirmVouch ==
    /\ ModalShown /\ localPeerId # NoPeer
    /\ Len(vouches) < MaxVouches
    /\ vouches' = Append(vouches, [from |-> localPeerId, to |-> peer,
                                   message |-> vouchMessage,
                                   stake |-> vouchStake])
    /\ showVouchModal' = FALSE
    /\ vouchMessage' = "empty"
    /\ vouchStake' = 10
    /\ UNCHANGED <<peer, localPeerId>>

CardNext ==
    \/ \E p \in Peers \cup {NoPeer} : SelectPeer(p)
    \/ InfoArrives
    \/ OpenVouch
    \/ \E s \in Stakes : SetStake(s)
    \/ \E m \in {"empty", "text"} : SetMessage(m)
    \/ CloseVouch
    \/ ConfirmVouch

CardTypeOK ==
    /\ peer \in Peers \cup {NoPeer}
    /\ localPeerId \in {LocalPeer, NoPeer}
    /\ showVouchModal \in BOOLEAN
    /\ vouchMessage \in {"empty", "text"}
    /\ vouchStake \in Stakes
    /\ Len(vouches) <= MaxVouches

\* No node vouches for itself: the card hides "Vouch" for the local peer.
NoSelfVouch == \A i \in 1..Len(vouches) : vouches[i].from # vouches[i].to
==============================================================================
