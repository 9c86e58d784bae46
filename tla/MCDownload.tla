----------------------------- MODULE MCDownload -----------------------------
(* Instances of Download for model checking. *)
EXTENDS Download, TLC
=============================================================================
