----------------------------- MODULE MCBackoff -----------------------------
(* An instance of Backoff for TLC: four classes, with the shape of the table of
   the code (downloader.go:924-960) on a smaller scale. *)
EXTENDS Backoff, TLC

CONSTANTS refused, hash, choked, io

MCClasses == {refused, hash, choked, io}
MCBase    == (refused :> 2) @@ (hash :> 1) @@ (choked :> 1) @@ (io :> 0)
MCAfter   == (refused :> 3) @@ (hash :> 2) @@ (choked :> 4) @@ (io :> 6)
MCPeriod  == (refused :> 7) @@ (hash :> 9) @@ (choked :> 2) @@ (io :> 0)
MCMax     == (refused :> 8) @@ (hash :> 8) @@ (choked :> 3) @@ (io :> 3)
MCFactor  == [k \in 0..MaxShift |-> 2 ^ k]
=============================================================================
