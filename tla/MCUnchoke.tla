----------------------------- MODULE MCUnchoke ------------------------------
(* Instance of Unchoke for TLC. *)
EXTENDS Unchoke
=============================================================================
