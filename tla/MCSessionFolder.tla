--------------------------- MODULE MCSessionFolder ---------------------------
(* SessionFolder is checked as it stands; the second is the unit of its names. *)
EXTENDS SessionFolder
=============================================================================
