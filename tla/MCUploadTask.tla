----------------------------- MODULE MCUploadTask -----------------------------
(* UploadTask is checked as it stands; the delays keep the order of the real
   ones (one check interval = one retry delay < the backoff). *)
EXTENDS UploadTask
=============================================================================
