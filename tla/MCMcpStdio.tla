----------------------------- MODULE MCMcpStdio -----------------------------
(***************************************************************************)
(* TLC instance of McpStdio: two callers over one session, so that one can *)
(* find the transport the other has just dropped or replaced.              *)
(***************************************************************************)
EXTENDS McpStdio
=============================================================================
