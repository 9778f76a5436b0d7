------------------------------ MODULE MCBoatOcs ------------------------------
(* BoatOcs is checked as it stands: its parameters are numbers. *)
EXTENDS BoatOcs
=============================================================================
