----------------------------- MODULE MCEventBus -----------------------------
(***************************************************************************)
(* TLC instance of EventBus.  Two publishers and two readers are the       *)
(* fewest with which a notification sent for one reader can meet the       *)
(* window of another, and a drop can race a publish; a ring of one value   *)
(* is overwritten by the second send.  The proofs in AgentSession_proofs   *)
(* hold for every number of publishers and readers and every capacity.     *)
(***************************************************************************)
EXTENDS EventBus
=============================================================================
