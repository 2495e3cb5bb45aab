----------------------------- MODULE MCSramFile -----------------------------
(* Saves of two chunks and a cap that falls inside the second or third save. *)
EXTENDS SramFile

=============================================================================
