---------------------------- MODULE MCRaSession ----------------------------
(* Two accounts: one can be typed while the other is logged in. *)
EXTENDS RaSession

CONSTANTS a1, a2
=============================================================================
