------------------------------ MODULE MCRtcmRelay ------------------------------
(* The instance of RtcmRelay for TLC. *)
EXTENDS RtcmRelay
=============================================================================
