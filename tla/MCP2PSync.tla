------------------------------ MODULE MCP2PSync ------------------------------
(* Model values and bounds for checking P2PSync.                          *)
EXTENDS P2PSync, TLC

\* The peer identifiers are interchangeable.
PeerSymmetry == Permutations(Peers)
=============================================================================
