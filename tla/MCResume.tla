------------------------------ MODULE MCResume ------------------------------
(* Instance of Resume for TLC. *)
EXTENDS Resume, TLC

Symmetry == Permutations(Pieces) \cup Permutations(Files)
=============================================================================
