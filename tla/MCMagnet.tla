------------------------------ MODULE MCMagnet ------------------------------
(* An instance of Magnet for TLC. *)
EXTENDS Magnet, TLC
=============================================================================
