-------------------------- MODULE MCRaServerCalls --------------------------
(* Two badges: one can be in the table while the other does not fit, or both. *)
EXTENDS RaServerCalls

CONSTANTS b1, b2
=============================================================================
