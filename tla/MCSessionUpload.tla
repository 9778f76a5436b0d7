--------------------------- MODULE MCSessionUpload ---------------------------
(* SessionUpload is checked as it stands: every parameter is a number, a
   string or a Boolean, and the sessions are not interchangeable (they are
   visited in order), so no symmetry applies. *)
EXTENDS SessionUpload
=============================================================================
