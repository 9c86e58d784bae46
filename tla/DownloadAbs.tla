---------------------------- MODULE DownloadAbs ----------------------------
(***************************************************************************)
(* What the download engine promises its caller (downloader.go,            *)
(* DownloadTorrentWithOptions, and the reasons of errors.go): while the    *)
(* call runs, verified pieces are added one at a time; it succeeds, or     *)
(* fails on its last file operations, only with every piece, and otherwise *)
(* ends with the deadline.  Nothing is added once it has returned, and no  *)
(* other verdict exists: the FailIncomplete branch is never taken.         *)
(***************************************************************************)
EXTENDS Integers

CONSTANT NumPieces

VARIABLES have, verdict

AllPieces == 1..NumPieces

Init ==
    /\ have \in SUBSET AllPieces
    /\ have # AllPieces
    /\ verdict = "running"

Gain(p) ==
    /\ verdict = "running"
    /\ p \notin have
    /\ have' = have \cup {p}
    /\ UNCHANGED verdict

Finish ==
    /\ verdict = "running"
    /\ have = AllPieces
    /\ verdict' \in {"ok", "ioerror"}
    /\ UNCHANGED have

TimeOut ==
    /\ verdict = "running"
    /\ verdict' = "timeout"
    /\ UNCHANGED have

Next == Finish \/ TimeOut \/ \E p \in AllPieces : Gain(p)

Spec == Init /\ [][Next]_<<have, verdict>>
=============================================================================
