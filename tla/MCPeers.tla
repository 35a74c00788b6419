------------------------------- MODULE MCPeers -------------------------------
(* Two game clients, two addresses the Factorio server may have, and ids   *)
(* that run out at the third session.                                      *)
EXTENDS Peers

=============================================================================
