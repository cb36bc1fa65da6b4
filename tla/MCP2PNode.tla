----------------------------- MODULE MCP2PNode -----------------------------
(* A node with one remote address to dial and one of its own.              *)
EXTENDS P2PNode

RemoteAddr == "10.0.0.2:5000"
OwnAddr    == "127.0.0.1:4000"
MCAddrs     == {RemoteAddr, OwnAddr}
MCSelfAddrs == {OwnAddr}
MCRemoteOnly == {RemoteAddr}
MCNoAddr     == {}
AllOps  == {"other", "list", "exit", "terminate", "send", "connect"}
FewOps  == {"terminate", "connect"}
MCIncoming  == "ephemeral"
====
