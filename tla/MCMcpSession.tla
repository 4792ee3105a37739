---------------------------- MODULE MCMcpSession ----------------------------
(* The MCP session for TLC: three calls compete for two permits.            *)
EXTENDS McpSession
=============================================================================
