--------------------------- MODULE MCAgentSession ---------------------------
(***************************************************************************)
(* TLC instance of AgentSession: two prompts, so that one can run while    *)
(* the other is queued or is typed after a Stop or a Close, and an event   *)
(* ring of three, which the events of a single run overflow in a frame.    *)
(***************************************************************************)
EXTENDS AgentSession
=============================================================================
