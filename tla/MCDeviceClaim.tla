---------------------------- MODULE MCDeviceClaim ----------------------------
(* DeviceClaim is checked as it stands: its parameters are numbers. *)
EXTENDS DeviceClaim
=============================================================================
