------------------------------ MODULE MCLayout ------------------------------
(* The pieces are put in order, then written in whatever order they arrive, then
   copied (downloader.go:304, 374-379, 613, 716).  Torrents: more pieces than a byte
   has bits, a file without a byte, a last piece that is short and one that is not,
   a piece shared by three files, a single piece.  Two that are refused. *)
EXTENDS PieceOrder, Layout

MCMetainfos ==
    { [pieceLength |-> 1, pieces |-> 9, length |-> 0, files |-> <<4, 0, 5>>],
      [pieceLength |-> 4, pieces |-> 3, length |-> 0, files |-> <<5, 1, 0, 4>>],
      [pieceLength |-> 4, pieces |-> 2, length |-> 8, files |-> <<>>],
      [pieceLength |-> 4, pieces |-> 1, length |-> 3, files |-> <<>>],
      [pieceLength |-> 0, pieces |-> 1, length |-> 3, files |-> <<>>],
      [pieceLength |-> 4, pieces |-> 0, length |-> 0, files |-> <<>>] }

Init == LayoutInit /\ OrderInit(torrent.pieces)

Next ==
    \/ UNCHANGED layoutVars /\ OrderNext
    \/ order # <<>> /\ UNCHANGED orderVars /\ LayoutNext

Spec == Init /\ [][Next]_<<layoutVars, orderVars>>
=============================================================================
