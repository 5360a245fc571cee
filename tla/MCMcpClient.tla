----------------------------- MODULE MCMcpClient -----------------------------
(* The module that TLC runs for McpClient.                                 *)
EXTENDS McpClient
==============================================================================
