------------------------------- MODULE Layout -------------------------------
(***************************************************************************)
(* Where the bytes of a torrent are: pieces in the data file, blocks of    *)
(* pieces for peers, files of a multi-file torrent.  The offsets and       *)
(* lengths that Resume and Transfer leave out                              *)
(* (src/internal/downloader/downloader.go, src/internal/types/parser.go).  *)
(*                                                                         *)
(* Byte k of the torrent is written k; Blank is a byte that was never      *)
(* written.  Sequences count from 1, offsets from 0.                       *)
(***************************************************************************)
EXTENDS Integers, Sequences

CONSTANTS
    Metainfos,      \* what a torrent file may say
    Blank

ASSUME MetainfosAssumption ==
    \A m \in Metainfos : /\ m.pieceLength \in Int /\ m.pieces \in Nat /\ m.length \in Nat
                         /\ m.files \in Seq(Nat)

VARIABLES
    torrent,        \* the result of OpenTorrentFile
    disk,           \* the data file
    written,        \* pieces that were written
    offset,         \* of the next file to copy
    outputs         \* the files copied so far

layoutVars == <<torrent, disk, written, offset, outputs>>

\* The lengths of all files together.
Total(lengths) ==
    LET sum[f \in 0..Len(lengths)] == IF f = 0 THEN 0 ELSE sum[f - 1] + lengths[f]
    IN  sum[Len(lengths)]

\* OpenTorrentFile.
Valid(m) == m.pieces > 0 /\ m.pieceLength > 0
Parsed(m) ==
    [pieceLength |-> m.pieceLength, pieces |-> m.pieces, files |-> m.files,
     length |-> IF m.files = <<>> THEN m.length ELSE Total(m.files)]

\* The makers of torrent files give one hash for each piece of the length; the code
\* does not look whether they do.
ASSUME HashesAssumption ==
    \A m \in Metainfos : Valid(m) =>
        LET t == Parsed(m) IN
        /\ t.length \in Nat
        /\ (t.pieces - 1) * t.pieceLength < t.length /\ t.length <= t.pieces * t.pieceLength

LayoutInit ==
    /\ torrent \in {Parsed(m) : m \in {m \in Metainfos : Valid(m)}}
    /\ disk = [k \in 1..torrent.length |-> Blank]   \* file.Truncate
    /\ written = {} /\ offset = 0 /\ outputs = <<>>

Indices == 0..(torrent.pieces - 1)

LastShort(i) ==     \* slip: the remainder is the length of the last piece, even if it is zero
    IF i = torrent.pieces - 1 THEN torrent.length % torrent.pieceLength ELSE torrent.pieceLength
pieceLengthAt(i) ==
    IF i = torrent.pieces - 1 /\ torrent.length % torrent.pieceLength > 0
    THEN torrent.length % torrent.pieceLength
    ELSE torrent.pieceLength

pieceOffset(i) == i * torrent.pieceLength

\* The data of a piece, which its hash vouches for.
Payload(i) ==
    [j \in 1..(IF (i + 1) * torrent.pieceLength <= torrent.length THEN torrent.pieceLength
               ELSE torrent.length - i * torrent.pieceLength) |-> i * torrent.pieceLength + j - 1]

\* ReadAt: it fails when the file ends too early.
ReadAt(off, n) == IF off + n <= Len(disk) THEN SubSeq(disk, off + 1, off + n) ELSE <<>>

\* A hash is only as good as the buffer it is computed of: a piece for which
\* pieceLengthAt gives another length is never written.
writePiece(i) ==
    /\ i \in Indices
    /\ Len(Payload(i)) = pieceLengthAt(i)
    /\ LET end == pieceOffset(i) + Len(Payload(i)) IN
          disk' = [k \in 1..(IF Len(disk) > end THEN Len(disk) ELSE end) |->
                      IF k \in (pieceOffset(i) + 1)..end THEN Payload(i)[k - pieceOffset(i)]
                      ELSE disk[k]]
    /\ written' = written \cup {i}
    /\ UNCHANGED <<torrent, offset, outputs>>

\* verifyPieceFromDisk.
verifyPieceFromDisk(i) == ReadAt(pieceOffset(i), pieceLengthAt(i)) = Payload(i)

\* SeedStore.ReadPiece, for a piece that is complete.
Refused == <<Blank>>
ReadPiece(i, begin, length) ==
    IF begin < 0 \/ length <= 0 \/ begin + length > pieceLengthAt(i) THEN Refused
    ELSE ReadAt(pieceOffset(i) + begin, length)

\* One turn of the loop of materializeMultiFile.
CopyFile ==
    /\ written = Indices
    /\ Len(outputs) < Len(torrent.files)
    /\ LET n == torrent.files[Len(outputs) + 1] IN
          /\ offset + n <= Len(disk)
          /\ outputs' = Append(outputs, ReadAt(offset, n))
          /\ offset' = offset + n
    /\ UNCHANGED <<torrent, disk, written>>

LayoutNext == CopyFile \/ \E i \in Indices : writePiece(i)

LayoutSpec == LayoutInit /\ [][LayoutNext]_layoutVars

-----------------------------------------------------------------------------
(* Properties *)

\* No piece disturbs another, whatever the order in which they are written: each
\* reads back as it was written, and so does every block of it that a peer may ask
\* for, and no other block is served.  The last piece may be short, or a whole
\* piece (downloader.go:1514-1527, 1564-1582, 788-802).
PiecesInPlace ==
    \A i \in Indices :
        /\ Len(Payload(i)) = pieceLengthAt(i)
        /\ i \in written =>
              /\ verifyPieceFromDisk(i)
              /\ \A begin \in -1..torrent.pieceLength, n \in 0..(torrent.pieceLength + 1) :
                    ReadPiece(i, begin, n) =
                        IF begin >= 0 /\ n > 0 /\ begin + n <= Len(Payload(i))
                        THEN [k \in 1..n |-> i * torrent.pieceLength + begin + k - 1]
                        ELSE Refused

\* When all pieces are there the file holds every byte at its place, and has not
\* grown; the copies that were made hold the bytes of their files, next to each
\* other, files without a byte included (downloader.go:1419-1460).
FilesInPlace ==
    /\ written = Indices => disk = [k \in 1..torrent.length |-> k - 1]
    /\ \A f \in DOMAIN outputs :
          outputs[f] = [k \in 1..torrent.files[f] |-> Total(SubSeq(torrent.files, 1, f - 1)) + k - 1]

\* Every byte is where the torrent says it is, on its way from a piece to a file.
InPlace == PiecesInPlace /\ FilesInPlace
=============================================================================
