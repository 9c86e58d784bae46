---------------------------- MODULE MCLifecycle ----------------------------
(* An instance of Lifecycle for TLC.  Workers are alike, and only safety is
   checked. *)
EXTENDS Lifecycle, TLC

Symmetry == Permutations(Workers)
=============================================================================
