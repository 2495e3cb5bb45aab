---------------------------- MODULE MCDebugLink ----------------------------
(* A small instance of DebugLink and its FtpServer. *)
EXTENDS DebugLink

CONSTANTS t1, t2, a
=============================================================================
