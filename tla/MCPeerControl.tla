--------------------------- MODULE MCPeerControl ---------------------------
(* Instances of PeerControl for TLC. *)
EXTENDS PeerControl

EveryType == AllTypes
FileChecked == {"create", "update"}
OneSpec == {1}
TwoSpecs == {1, 2}
=============================================================================
