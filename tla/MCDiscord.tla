----------------------------- MODULE MCDiscord -----------------------------
(* One channel, a limit of one message in two ticks, and a history of three. *)
EXTENDS Discord
=============================================================================
