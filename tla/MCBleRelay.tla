------------------------------ MODULE MCBleRelay ------------------------------
(* Instance of BleRelay for TLC. *)
EXTENDS BleRelay
=============================================================================
