---------------------------- MODULE MCMcpSession ----------------------------
(* Small instances of McpSession for TLC. *)
EXTENDS McpSession
=============================================================================
