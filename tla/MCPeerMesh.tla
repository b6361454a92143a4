---------------------------- MODULE MCPeerMesh ----------------------------
(* An instance of PeerMesh for TLC: one user edits at either place.        *)
EXTENDS PeerMesh

CONSTANTS chorus, clarence

Pair == {chorus, clarence}
One  == {chorus}
=============================================================================
