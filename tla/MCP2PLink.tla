----------------------------- MODULE MCP2PLink -----------------------------
(* The first user may send the command as a text and then fill the         *)
(* buffers; the second may fill them too.                                  *)
EXTENDS P2PLink

MCOps     == <<{"send", "sendcmd", "terminate"}, {"send", "terminate", "exit", "eof"}>>
====
