----------------------------- MODULE MCRegistry -----------------------------
(* Small instances of Registry. *)
EXTENDS Registry

CONSTANTS c1, p1, p2, x, y

MCConn == {c1}
MCPeers == {p1, p2}
MCIds == {x, y}
MCId == {x}
MCNoConn == {}
=============================================================================
