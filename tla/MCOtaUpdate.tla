---------------------------- MODULE MCOtaUpdate ----------------------------
(* OtaUpdate with two sensors. *)
EXTENDS OtaUpdate

CONSTANTS s1, s2
MCSensors == {s1, s2}
=============================================================================
