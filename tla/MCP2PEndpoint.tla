--------------------------- MODULE MCP2PEndpoint ---------------------------
(* Small instances of the QUIC endpoint for TLC. *)
EXTENDS P2PEndpointProps, TLC

CONSTANTS c1, c2

OneCaller == {c1}
TwoCallers == {c1, c2}
ShareOps == {"share_connect", "share_disconnect"}
CallerSymmetry == Permutations(TwoCallers)
=============================================================================
