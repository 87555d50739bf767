----------------------------- MODULE MCPdaServer -----------------------------
(* Two scanners, one after the other on the same address or at the same time; *)
(* four bytes hold two messages, ended by either terminator, in any pieces.   *)
EXTENDS PdaServer
==============================================================================
