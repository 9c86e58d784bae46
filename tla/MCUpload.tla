------------------------------ MODULE MCUpload ------------------------------
(* Instance of Upload for TLC. *)
EXTENDS Upload
=============================================================================
