----------------------------- MODULE MCRecording -----------------------------
(* Recording for TLC; recording.cfg gives the bounds. *)
EXTENDS Recording
=============================================================================
