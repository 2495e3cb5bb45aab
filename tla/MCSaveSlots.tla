----------------------------- MODULE MCSaveSlots -----------------------------
(* Two slots, files of three chunks (first texts, last text, world), one save  *)
(* besides those the card begins with, and a cap that no operation reaches.    *)
EXTENDS SaveSlots
=============================================================================
