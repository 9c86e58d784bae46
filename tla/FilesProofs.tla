---------------------------- MODULE FilesProofs ----------------------------
(***************************************************************************)
(* Theorems about the files of a download.  Resume: for any set of pieces  *)
(* and of files and any number of faults.  Layout: for every torrent with  *)
(* one hash for each piece of its length.  PieceOrder: for any number of   *)
(* pieces and any bitfields.                                               *)
(***************************************************************************)
EXTENDS Resume, Layout, PieceOrder, FiniteSetTheorems, TLAPS

-----------------------------------------------------------------------------
(* The inductive invariant *)

\* Where the main goroutine has every piece, and has joined the workers.
Ending == {"flush", "sync", "copy", "remove"}

\* Where the state file has been saved by this run.
Saved == {"fetch", "giveup", "flush", "sync", "copy", "remove"}

\* What each location of the main goroutine implies.
Control ==
    /\ saver => pc \in Saved \cup {"done"}
    /\ writing # {} => pc = "fetch"
    /\ copied # {} => pc \in {"copy", "remove", "done"}
    /\ pc \in Ending => completed = Pieces
    /\ pc \in {"copy", "remove"} /\ fetched => synced = Pieces
    /\ outcome # "none" => pc \in {"done", "down"}

\* What is marked, synced, claimed or offered has its bytes in the data file.
Backing ==
    /\ pc \in Verified \/ saver => completed \subseteq Good
    /\ synced \subseteq Good
    /\ ~powerLost /\ stateKind = "whole" => claims \subseteq Good
    /\ ~powerLost /\ seedFrom = "state" => seed \subseteq Good
    /\ outcome = "ok" => synced = Pieces

\* No save of this run can forget a whole piece of the state file it found.
Progress ==
    stateKind = "whole" =>
        /\ pc \in {"open", "size", "verify"} => claims = completed
        /\ pc = "persist" => claims \cap Good \subseteq completed
        /\ pc \in Saved \/ saver => claims \subseteq completed

\* The copies this run has made are whole.
Copies ==
    /\ pc \in {"copy", "remove"} =>
          \A f \in copied : copies[f] \in {"torn", "copied"}
    /\ pc = "remove" => \A f \in Files : copies[f] = "copied"
    /\ Finished /\ ~powerLost =>
          Good = Pieces /\ \A f \in Files : copies[f] = "copied"

IInv == TypeOK /\ Control /\ Backing /\ Progress /\ Copies

-----------------------------------------------------------------------------
(* Initial states *)

LEMMA InitIInv == ASSUME Init PROVE IInv
<1>1. TypeOK
  <2>1. Flags
    BY Zenon DEF Init, Flags
  <2> QED
    BY <2>1, FaultsAssumption DEF Init, TypeOK, PieceStates, CopyStates, Locations,
       Outcomes
<1>2. Control /\ Backing /\ Progress /\ Copies
  BY DEF Init, Control, Backing, Progress, Copies, Ending, Saved, Verified, Finished
<1> QED
  BY <1>1, <1>2 DEF IInv

-----------------------------------------------------------------------------
(* The Boolean variables, apart from the rest *)

LEMMA FlagsStep == ASSUME Flags, Next PROVE Flags'
<1> USE DEF Flags, files, proc, runs, vars
<1>1. CASE Starting
  BY <1>1, Zenon DEF Starting, OpenSeedStore, LoadState, OpenOutput, Truncate, Verify, Persist
<1>2. CASE Fetching
  BY <1>2, Zenon DEF Fetching, BeginWrite, EndWrite, Mark
<1>3. CASE Saving
  BY <1>3, Zenon DEF Saving, TickerSave, TickerStops
<1>4. CASE Finishing
  BY <1>4, Zenon DEF Finishing, AllDone, Flush, Sync, CopiesDone, RemoveState, Exit, Stop,
     BeginCopy, EndCopy
<1>5. CASE Failing
  BY <1>5, Zenon DEF Failing, StartFails, GiveUp, FlushFails, FinishFails, Kill,
     PowerLoss, Stop, WriteFails
<1> QED
  BY <1>1, <1>2, <1>3, <1>4, <1>5 DEF Next, Rest

-----------------------------------------------------------------------------
(* The start of a run *)

LEMMA StartingStep == ASSUME IInv, Starting PROVE IInv'
<1> Flags'
  BY FlagsStep DEF Next, IInv, TypeOK
<1> USE FaultsAssumption DEF IInv, TypeOK, Control, Backing, Progress, Copies, Good,
      PieceStates, CopyStates, Locations, Outcomes, Ending, Saved, Verified,
      Finished, files, proc, runs
<1>1. CASE OpenSeedStore
  BY <1>1 DEF OpenSeedStore, Fault
<1>2. CASE LoadState
  BY <1>2 DEF LoadState
<1>3. CASE OpenOutput
  BY <1>3 DEF OpenOutput
<1>4. CASE Truncate
  BY <1>4 DEF Truncate
<1>5. CASE Verify
  BY <1>5 DEF Verify
<1>6. CASE Persist
  <2>1. TypeOK'
    BY <1>6 DEF Persist, SaveResumeState
  <2>2. Control'
    BY <1>6 DEF Persist, SaveResumeState
  <2>3. Backing'
    BY <1>6 DEF Persist, SaveResumeState
  <2>4. Progress'
    <3>1. claims' = completed' /\ pc' \notin {"open", "size", "verify", "persist"}
      BY <1>6 DEF Persist, SaveResumeState
    <3> QED
      BY <3>1
  <2>5. Copies'
    BY <1>6 DEF Persist, SaveResumeState
  <2> QED
    BY <2>1, <2>2, <2>3, <2>4, <2>5
<1> QED
  BY <1>1, <1>2, <1>3, <1>4, <1>5, <1>6 DEF Starting

-----------------------------------------------------------------------------
(* Fetching and saving *)

LEMMA FetchingStep == ASSUME IInv, Fetching PROVE IInv'
<1> Flags'
  BY FlagsStep DEF Next, IInv, TypeOK
<1> USE FaultsAssumption DEF IInv, TypeOK, Control, Backing, Progress, Copies, Good,
      PieceStates, CopyStates, Locations, Outcomes, Ending, Saved, Verified,
      Finished, files, proc, runs
<1> PICK p \in Pieces : BeginWrite(p) \/ EndWrite(p) \/ Mark(p)
  BY DEF Fetching
<1>1. CASE BeginWrite(p)
  BY <1>1 DEF BeginWrite
<1>2. CASE EndWrite(p)
  BY <1>2 DEF EndWrite
<1>3. CASE Mark(p)
  BY <1>3 DEF Mark
<1> QED
  BY <1>1, <1>2, <1>3

LEMMA SavingStep == ASSUME IInv, Saving PROVE IInv'
<1> Flags'
  BY FlagsStep DEF Next, IInv, TypeOK
<1> USE FaultsAssumption DEF IInv, TypeOK, Control, Backing, Progress, Copies, Good,
      PieceStates, CopyStates, Locations, Outcomes, Ending, Saved, Verified,
      Finished, files, proc, runs
<1>1. CASE TickerSave
  BY <1>1 DEF TickerSave, SaveResumeState
<1>2. CASE TickerStops
  BY <1>2 DEF TickerStops
<1> QED
  BY <1>1, <1>2 DEF Saving

-----------------------------------------------------------------------------
(* The end of a run *)

LEMMA FinishingStep == ASSUME IInv, Finishing PROVE IInv'
<1> Flags'
  BY FlagsStep DEF Next, IInv, TypeOK
<1> USE FaultsAssumption DEF IInv, TypeOK, Control, Backing, Progress, Copies, Good,
      PieceStates, CopyStates, Locations, Outcomes, Ending, Saved, Verified,
      Finished, files, proc, runs
<1>1. CASE AllDone
  BY <1>1 DEF AllDone
<1>2. CASE Flush
  BY <1>2 DEF Flush, SaveResumeState, AfterFlush
<1>3. CASE Sync
  <2>0. Good = Pieces
    BY <1>3 DEF Sync
  <2>1. TypeOK' /\ Control'
    BY <2>0, <1>3 DEF Sync
  <2>2. Backing' /\ Progress'
    BY <2>0, <1>3 DEF Sync
  <2>3. Copies'
    BY <1>3 DEF Sync
  <2> QED
    BY <2>1, <2>2, <2>3
<1>4. CASE CopiesDone
  BY <1>4 DEF CopiesDone, Copying
<1>5. CASE RemoveState
  BY <1>5 DEF RemoveState
<1>6. CASE Exit
  BY <1>6 DEF Exit, Stop
<1>7. ASSUME NEW f \in Files, BeginCopy(f) PROVE IInv'
  BY <1>7 DEF BeginCopy, Copying
<1>8. ASSUME NEW f \in Files, EndCopy(f) PROVE IInv'
  BY <1>8 DEF EndCopy, Copying
<1> QED
  BY <1>1, <1>2, <1>3, <1>4, <1>5, <1>6, <1>7, <1>8 DEF Finishing

-----------------------------------------------------------------------------
(* Faults *)

LEMMA FailingStep == ASSUME IInv, Failing PROVE IInv'
<1> Flags'
  BY FlagsStep DEF Next, IInv, TypeOK
<1> USE FaultsAssumption DEF IInv, TypeOK, Control, Backing, Progress, Copies, Good,
      PieceStates, CopyStates, Locations, Outcomes, Ending, Saved, Verified,
      Finished, files, proc, runs, Fault
<1>1. CASE StartFails
  BY <1>1 DEF StartFails
<1>2. CASE GiveUp
  BY <1>2 DEF GiveUp
<1>3. CASE FlushFails
  BY <1>3 DEF FlushFails, AfterFlush
<1>4. CASE FinishFails
  BY <1>4 DEF FinishFails
<1>5. CASE Kill
  BY <1>5 DEF Kill, Stop
<1>6. CASE PowerLoss
  <2>1. PICK gone \in SUBSET (Pieces \ synced) :
           data' = [p \in Pieces |-> IF p \in gone THEN "none" ELSE data[p]]
    BY <1>6 DEF PowerLoss
  <2>2. data' \in [Pieces -> PieceStates] /\ synced \subseteq Good'
    BY <2>1, <1>6 DEF PowerLoss
  <2>3. PICK left \in SUBSET Files :
           copies' = [f \in Files |-> IF f \in left THEN "none" ELSE copies[f]]
    BY <1>6 DEF PowerLoss
  <2>4. copies' \in [Files -> CopyStates]
    BY <2>3
  <2>5. TypeOK'
    BY <2>2, <2>4, <1>6 DEF PowerLoss, Stop
  <2>6. Control'
    BY <1>6 DEF PowerLoss, Stop
  <2>7. Backing'
    BY <2>2, <1>6 DEF PowerLoss, Stop
  <2>8. Progress' /\ Copies'
    BY <1>6 DEF PowerLoss, Stop
  <2> QED
    BY <2>5, <2>6, <2>7, <2>8
<1>7. ASSUME NEW p \in Pieces, WriteFails(p) PROVE IInv'
  BY <1>7 DEF WriteFails
<1> QED
  BY <1>1, <1>2, <1>3, <1>4, <1>5, <1>6, <1>7 DEF Failing

LEMMA Stuttering == ASSUME IInv, UNCHANGED vars PROVE IInv'
BY DEF vars, Flags, files, proc, runs, IInv, TypeOK, Control, Backing, Progress, Copies,
   Good, Finished

-----------------------------------------------------------------------------
(* Theorems *)

\* The inductive invariant holds in every reachable state, whatever the number
\* of kills, power losses and failures.
THEOREM Invariance == Spec => []IInv
<1>1. Init => IInv
  BY InitIInv
<1>2. IInv /\ [Next]_vars => IInv'
  BY StartingStep, FetchingStep, SavingStep, FinishingStep, FailingStep, Stuttering
     DEF Next, Rest
<1> QED
  BY <1>1, <1>2, PTL DEF Spec

\* Every variable keeps to its type.
THEOREM TypeCorrect == Spec => []TypeOK
<1>1. IInv => TypeOK
  BY DEF IInv
<1> QED
  BY <1>1, Invariance, PTL

\* A run counts as completed only pieces whose bytes are in the data file,
\* whatever earlier runs and power losses left there (prepareOutputAndState
\* reads every claimed piece back).
THEOREM ClaimsAreVerified == Spec => []ClaimIsBacked
<1>1. IInv => ClaimIsBacked
  BY DEF IInv, Backing, ClaimIsBacked
<1> QED
  BY <1>1, Invariance, PTL

\* Without a power loss the state file never claims a piece that is not whole:
\* workers mark after their write, and saves hold what is marked.
THEOREM StateFileCorrect == Spec => []StateFileBacked
<1>1. IInv => StateFileBacked
  BY DEF IInv, Backing, StateFileBacked
<1> QED
  BY <1>1, Invariance, PTL

\* After "Download complete" the payload survives any power loss.
THEOREM CompleteSurvives == Spec => []CompleteIsDurable
<1>1. IInv => CompleteIsDurable
  BY DEF IInv, TypeOK, Backing, CompleteIsDurable, Good
<1> QED
  BY <1>1, Invariance, PTL

\* A run that reports success has left the whole payload and every copy.
THEOREM SuccessIsWhole == Spec => []FinishedIsWhole
<1>1. IInv => FinishedIsWhole
  BY DEF IInv, Copies, FinishedIsWhole
<1> QED
  BY <1>1, Invariance, PTL

\* What the seed store takes from the state file it can serve during the whole
\* run.
THEOREM SeedIsBacked == Spec => []SeedBacked
<1>1. IInv => SeedBacked
  BY DEF IInv, Backing, SeedBacked
<1> QED
  BY <1>1, Invariance, PTL

\* No step takes a whole piece out of the state file, but a run's success and
\* a power loss.
THEOREM ProgressIsKept == Spec => ProgressKept
<1> DEFINE Step == stateKind = "whole" =>
                     \/ stateKind' = "whole" /\ (claims \cap Good) \subseteq claims'
                     \/ ~Finished /\ Finished'
                     \/ stateKind' = "garbage"
<1> USE DEF files, proc, runs
<1>1. ASSUME IInv, Starting PROVE Step
  BY <1>1 DEF Starting, OpenSeedStore, LoadState, OpenOutput, Truncate, Verify,
     Persist, SaveResumeState, IInv, Progress
<1>2. ASSUME IInv, Fetching PROVE Step
  BY <1>2 DEF Fetching, BeginWrite, EndWrite, Mark
<1>3. ASSUME IInv, Saving PROVE Step
  BY <1>3 DEF Saving, TickerSave, TickerStops, SaveResumeState, IInv, Progress
<1>4. ASSUME IInv, Finishing PROVE Step
  BY <1>4 DEF Finishing, AllDone, Flush, SaveResumeState, AfterFlush, Sync,
     CopiesDone, RemoveState, Exit, Stop, BeginCopy, EndCopy, IInv, TypeOK,
     Progress, Saved, Control, Finished, Outcomes
<1>5. ASSUME IInv, Failing PROVE Step
  BY <1>5 DEF Failing, StartFails, GiveUp, FlushFails, AfterFlush, FinishFails,
     Kill, PowerLoss, Stop, WriteFails
<1>6. ASSUME UNCHANGED vars PROVE Step
  BY <1>6 DEF vars
<1>7. IInv /\ [Next]_vars => [Step]_vars
  BY <1>1, <1>2, <1>3, <1>4, <1>5, <1>6 DEF Next, Rest
<1> QED
  BY <1>7, Invariance, PTL DEF Spec, ProgressKept

-----------------------------------------------------------------------------
(* Multiples of the piece length *)

LEMMA Multiples == ASSUME NEW a \in Int, NEW b \in Int, NEW n \in Nat, a <= b
                   PROVE  a * n <= b * n
<1>1. b * n - a * n = (b - a) * n /\ b - a \in Nat
  OBVIOUS
<1>2. \A c \in Nat : c * n >= 0
  OBVIOUS
<1>3. a * n \in Int /\ b * n \in Int /\ (b - a) * n >= 0
  BY <1>1, <1>2
<1> QED
  BY <1>1, <1>3

LEMMA Division == ASSUME NEW n \in Nat, NEW d \in Nat \ {0}
                  PROVE  /\ n % d \in 0..(d - 1) /\ n \div d \in Nat
                         /\ n = (n \div d) * d + (n % d)
OBVIOUS

\* What is left over for the last of n pieces, unless it is a whole one.
LEMMA Remainder ==
    ASSUME NEW length \in Nat, NEW len \in Nat \ {0}, NEW n \in Nat \ {0},
           (n - 1) * len < length, length <= n * len
    PROVE  length % len = IF length = n * len THEN 0 ELSE length - (n - 1) * len
<1> DEFINE q == length \div len
           r == length % len
<1>1. r \in 0..(len - 1) /\ q \in Nat /\ length = q * len + r
  BY Division
<1> HIDE DEF q, r
<1>2. n * len = (n - 1) * len + len
  OBVIOUS
<1>3. q <= n
  <2> SUFFICES ASSUME q >= n + 1 PROVE FALSE
    BY <1>1
  <2>1. (n + 1) * len <= q * len
    BY <1>1, Multiples
  <2>2. (n + 1) * len = n * len + len
    OBVIOUS
  <2> QED
    BY <2>1, <2>2, <1>1
<1>4. q >= n - 1
  <2> SUFFICES ASSUME q <= n - 2 PROVE FALSE
    BY <1>1
  <2>1. q * len <= (n - 2) * len
    BY <1>1, Multiples
  <2>2. (n - 1) * len = (n - 2) * len + len
    OBVIOUS
  <2> QED
    BY <2>1, <2>2, <1>1
<1>5. CASE q = n
  BY <1>5, <1>1
<1>6. CASE q = n - 1
  BY <1>6, <1>1, <1>2
<1> QED
  BY <1>1, <1>3, <1>4, <1>5, <1>6 DEF r

-----------------------------------------------------------------------------
(* Pieces tile the data file *)

TorrentOK ==
    /\ torrent.pieceLength \in Nat \ {0} /\ torrent.pieces \in Nat \ {0} /\ torrent.length \in Nat
    /\ (torrent.pieces - 1) * torrent.pieceLength < torrent.length
    /\ torrent.length <= torrent.pieces * torrent.pieceLength

\* How many bytes of piece i there are.
PieceLen(i) ==
    IF (i + 1) * torrent.pieceLength <= torrent.length THEN torrent.pieceLength
    ELSE torrent.length - i * torrent.pieceLength

LEMMA PayloadIs == ASSUME TorrentOK, NEW i \in Indices
                   PROVE  /\ i \in Nat /\ pieceOffset(i) \in Nat
                          /\ PieceLen(i) \in 1..torrent.pieceLength
                          /\ pieceOffset(i) + PieceLen(i) <= torrent.length
                          /\ Payload(i) = [j \in 1..PieceLen(i) |-> pieceOffset(i) + j - 1]
                          /\ Len(Payload(i)) = PieceLen(i)
<1> DEFINE P == torrent.pieceLength
           L == torrent.length
<1>1. P \in Nat \ {0} /\ L \in Nat /\ i \in 0..(torrent.pieces - 1) /\ torrent.pieces \in Nat
      /\ (torrent.pieces - 1) * P < L
  BY DEF TorrentOK, Indices
<1>2. i * P \in Nat /\ (i + 1) * P = i * P + P /\ (i + 1) * P \in Nat
  BY <1>1
<1>3. i * P <= (torrent.pieces - 1) * P /\ (torrent.pieces - 1) * P \in Nat
  BY <1>1, Multiples
<1>4. i * P < L
  BY <1>1, <1>2, <1>3
<1>5. PieceLen(i) = IF i * P + P <= L THEN P ELSE L - i * P
  BY <1>2 DEF PieceLen
<1>6. pieceOffset(i) = i * P
  BY DEF pieceOffset
<1>7. Payload(i) = [j \in 1..PieceLen(i) |-> pieceOffset(i) + j - 1]
  BY <1>6 DEF Payload, PieceLen
<1> HIDE DEF P, L
<1>8. PieceLen(i) \in 1..P /\ i * P + PieceLen(i) <= L
  BY <1>1, <1>2, <1>4, <1>5
<1>9. Len(Payload(i)) = PieceLen(i)
  BY <1>7, <1>8, <1>1
<1> QED
  BY <1>1, <1>2, <1>6, <1>7, <1>8, <1>9 DEF P, L

\* pieceLengthAt gives each piece the length it has.
LEMMA LengthIs == ASSUME TorrentOK, NEW i \in Indices
                  PROVE  pieceLengthAt(i) = PieceLen(i)
<1> DEFINE P == torrent.pieceLength
           L == torrent.length
           n == torrent.pieces
<1>1. P \in Nat \ {0} /\ L \in Nat /\ n \in Nat \ {0} /\ i \in 0..(n - 1)
      /\ (n - 1) * P < L /\ L <= n * P
  BY DEF TorrentOK, Indices
<1>2. L % P = IF L = n * P THEN 0 ELSE L - (n - 1) * P
  BY <1>1, Remainder
<1>3. PieceLen(i) = IF (i + 1) * P <= L THEN P ELSE L - i * P
  BY DEF PieceLen
<1>4. pieceLengthAt(i) = IF i = n - 1 /\ L % P > 0 THEN L % P ELSE P
  BY DEF pieceLengthAt
<1> HIDE DEF P, L, n
<1>5. CASE i = n - 1
  <2>1. (i + 1) * P = n * P /\ n * P \in Nat /\ (n - 1) * P \in Nat /\ i * P = (n - 1) * P
    BY <1>1, <1>5
  <2>2. n * P = (n - 1) * P + P
    BY <1>1
  <2> QED
    BY <1>1, <1>2, <1>3, <1>4, <1>5, <2>1, <2>2
<1>6. CASE i # n - 1
  <2>1. (i + 1) * P <= (n - 1) * P /\ (i + 1) * P \in Nat /\ (n - 1) * P \in Nat
    BY <1>1, <1>6, Multiples
  <2> QED
    BY <1>1, <1>3, <1>4, <1>6, <2>1
<1> QED
  BY <1>5, <1>6

-----------------------------------------------------------------------------
(* What is on disk *)

\* Every byte of a piece that was written is itself, and the file has its size.
DiskOK ==
    /\ written \subseteq Indices
    /\ disk \in [1..torrent.length -> Int \cup {Blank}]
    /\ \A i \in written :
          \A k \in (pieceOffset(i) + 1)..(pieceOffset(i) + PieceLen(i)) : disk[k] = k - 1

LEMMA InitOK == LayoutInit => TorrentOK /\ DiskOK
<1> SUFFICES ASSUME LayoutInit PROVE TorrentOK /\ DiskOK
  OBVIOUS
<1>1. PICK m \in Metainfos : Valid(m) /\ torrent = Parsed(m)
  BY DEF LayoutInit
<1>2. TorrentOK
  <2>1. /\ torrent.pieceLength = m.pieceLength /\ torrent.pieces = m.pieces
        /\ m.pieceLength \in Int /\ m.pieces \in Nat /\ m.pieces > 0 /\ m.pieceLength > 0
    BY <1>1, MetainfosAssumption DEF Parsed, Valid
  <2>2. /\ torrent.length \in Nat
        /\ (torrent.pieces - 1) * torrent.pieceLength < torrent.length
        /\ torrent.length <= torrent.pieces * torrent.pieceLength
    BY <1>1, HashesAssumption
  <2> QED
    BY <2>1, <2>2 DEF TorrentOK
<1>3. DiskOK
  BY DEF LayoutInit, DiskOK
<1> QED
  BY <1>2, <1>3

LEMMA WriteOK == ASSUME TorrentOK, DiskOK, NEW i \in Indices, writePiece(i)
                 PROVE  TorrentOK' /\ DiskOK'
<1>1. torrent' = torrent /\ written' = written \cup {i} /\ Indices' = Indices
      /\ \A j : pieceOffset(j)' = pieceOffset(j) /\ PieceLen(j)' = PieceLen(j)
  BY DEF writePiece, Indices, pieceOffset, PieceLen
<1> DEFINE off == pieceOffset(i)
           end == off + PieceLen(i)
<1>2. /\ off \in Nat /\ PieceLen(i) \in Nat /\ end <= torrent.length /\ end \in Nat
      /\ torrent.length \in Nat
      /\ Payload(i) = [j \in 1..PieceLen(i) |-> off + j - 1] /\ Len(Payload(i)) = PieceLen(i)
  BY PayloadIs DEF TorrentOK
<1>3. Len(disk) = torrent.length
  BY <1>2 DEF DiskOK
<1>4. disk' = [k \in 1..torrent.length |->
                  IF k \in (off + 1)..end THEN Payload(i)[k - off] ELSE disk[k]]
  <2>1. disk' = [k \in 1..(IF Len(disk) > end THEN Len(disk) ELSE end) |->
                    IF k \in (off + 1)..end THEN Payload(i)[k - off] ELSE disk[k]]
    BY <1>2 DEF writePiece
  <2>2. (IF Len(disk) > end THEN Len(disk) ELSE end) = torrent.length
    BY <1>2, <1>3
  <2> QED
    BY <2>1, <2>2
<1> HIDE DEF off, end
<1>5. ASSUME NEW k \in (off + 1)..end PROVE Payload(i)[k - off] = k - 1
  <2>1. k - off \in 1..PieceLen(i)
    BY <1>2 DEF end
  <2> QED
    BY <2>1, <1>2
<1>6. disk' = [k \in 1..torrent.length |-> IF k \in (off + 1)..end THEN k - 1 ELSE disk[k]]
  BY <1>4, <1>5
<1>7. disk' \in [1..torrent.length -> Int \cup {Blank}]
  BY <1>6, <1>2 DEF DiskOK
<1>8. ASSUME NEW j \in written \cup {i},
             NEW k \in (pieceOffset(j) + 1)..(pieceOffset(j) + PieceLen(j))
      PROVE  disk'[k] = k - 1
  <2>1. k \in 1..torrent.length
    <3>1. j \in Indices
      BY DEF DiskOK
    <3>2. pieceOffset(j) \in Nat /\ PieceLen(j) \in Nat
          /\ pieceOffset(j) + PieceLen(j) <= torrent.length
      BY <3>1, PayloadIs
    <3> QED
      BY <3>2, <1>2
  <2>2. CASE k \in (off + 1)..end
    BY <2>1, <2>2, <1>6
  <2>3. CASE k \notin (off + 1)..end
    <3>1. j \in written
      BY <2>3 DEF off, end
    <3>2. disk[k] = k - 1
      BY <3>1 DEF DiskOK
    <3> QED
      BY <3>2, <2>1, <2>3, <1>6
  <2> QED
    BY <2>2, <2>3
<1>9. TorrentOK'
  BY <1>1 DEF TorrentOK
<1>10. written' \subseteq Indices'
  BY <1>1 DEF DiskOK
<1> QED
  BY <1>1, <1>7, <1>8, <1>9, <1>10 DEF DiskOK

LEMMA StepOK == TorrentOK /\ DiskOK /\ [LayoutNext]_layoutVars => TorrentOK' /\ DiskOK'
<1>1. ASSUME TorrentOK, DiskOK, CopyFile \/ UNCHANGED layoutVars PROVE TorrentOK' /\ DiskOK'
  BY <1>1 DEF CopyFile, layoutVars, TorrentOK, DiskOK, Indices, pieceOffset, PieceLen
<1> QED
  BY <1>1, WriteOK DEF LayoutNext

\* A read inside a piece that was written gives the bytes that it asks for.
LEMMA ReadsRight ==
    ASSUME TorrentOK, DiskOK, NEW i \in written, NEW begin \in Nat, NEW n \in Nat,
           begin + n <= PieceLen(i)
    PROVE  ReadAt(pieceOffset(i) + begin, n) = [k \in 1..n |-> pieceOffset(i) + begin + k - 1]
<1> DEFINE off == pieceOffset(i)
<1>1. /\ i \in Indices /\ off \in Nat /\ PieceLen(i) \in Nat
      /\ off + PieceLen(i) <= torrent.length /\ torrent.length \in Nat
  BY PayloadIs DEF DiskOK, TorrentOK
<1>2. \A k \in (off + 1)..(off + PieceLen(i)) : disk[k] = k - 1
  BY DEF DiskOK
<1>3. disk \in [1..torrent.length -> Int \cup {Blank}] /\ Len(disk) = torrent.length
  BY <1>1 DEF DiskOK
<1> HIDE DEF off
<1>4. ReadAt(off + begin, n) = SubSeq(disk, off + begin + 1, off + begin + n)
  BY <1>1, <1>3 DEF ReadAt
<1>5. SubSeq(disk, off + begin + 1, off + begin + n) = [k \in 1..n |-> disk[off + begin + k]]
  BY <1>1, <1>3
<1>6. ASSUME NEW k \in 1..n PROVE disk[off + begin + k] = off + begin + k - 1
  <2> DEFINE x == off + begin + k
  <2>1. x \in (off + 1)..(off + PieceLen(i))
    BY <1>1
  <2>2. x - 1 = off + begin + k - 1
    BY <1>1
  <2> HIDE DEF x
  <2>3. disk[x] = x - 1
    BY <2>1, <1>2
  <2>4. disk[x] = off + begin + k - 1
    BY <2>2, <2>3
  <2> QED
    BY <2>4, Zenon DEF x
<1> QED
  BY <1>4, <1>5, <1>6 DEF off

\* downloader.go:1514-1527, 1564-1582, 788-802: whatever the length and the piece
\* length, and whatever the order in which pieces are written, each piece and each
\* block of it is where it is read.
THEOREM PiecesAreInPlace == LayoutSpec => []PiecesInPlace
<1>1. ASSUME TorrentOK, DiskOK PROVE PiecesInPlace
  <2>1. ASSUME NEW i \in Indices PROVE Len(Payload(i)) = pieceLengthAt(i)
    BY <1>1, PayloadIs, LengthIs
  <2>2. ASSUME NEW i \in Indices, i \in written PROVE verifyPieceFromDisk(i)
    <3>1. /\ pieceOffset(i) \in Nat /\ PieceLen(i) \in Nat /\ pieceLengthAt(i) = PieceLen(i)
          /\ Payload(i) = [k \in 1..PieceLen(i) |-> pieceOffset(i) + k - 1]
      BY <1>1, PayloadIs, LengthIs
    <3>2. ReadAt(pieceOffset(i) + 0, PieceLen(i)) =
              [k \in 1..PieceLen(i) |-> pieceOffset(i) + 0 + k - 1]
      BY <1>1, <2>2, <3>1, ReadsRight
    <3>3. pieceOffset(i) + 0 = pieceOffset(i)
      BY <3>1
    <3> QED
      BY <3>1, <3>2, <3>3 DEF verifyPieceFromDisk
  <2>3. ASSUME NEW i \in Indices, i \in written, NEW begin \in -1..torrent.pieceLength,
               NEW n \in 0..(torrent.pieceLength + 1)
        PROVE  ReadPiece(i, begin, n) =
                  IF begin >= 0 /\ n > 0 /\ begin + n <= Len(Payload(i))
                  THEN [k \in 1..n |-> i * torrent.pieceLength + begin + k - 1]
                  ELSE Refused
    <3>1. /\ pieceLengthAt(i) = PieceLen(i) /\ Len(Payload(i)) = PieceLen(i)
          /\ PieceLen(i) \in Nat /\ begin \in Int /\ n \in Nat
      BY <1>1, PayloadIs, LengthIs DEF TorrentOK
    <3>2. CASE begin >= 0 /\ n > 0 /\ begin + n <= PieceLen(i)
      <4>1. ReadPiece(i, begin, n) = ReadAt(pieceOffset(i) + begin, n)
        BY <3>1, <3>2 DEF ReadPiece
      <4>2. begin \in Nat
        BY <3>1, <3>2
      <4>3. ReadAt(pieceOffset(i) + begin, n) = [k \in 1..n |-> pieceOffset(i) + begin + k - 1]
        BY <1>1, <2>3, <3>1, <3>2, <4>2, ReadsRight
      <4> QED
        BY <3>1, <3>2, <4>1, <4>3 DEF pieceOffset
    <3>3. CASE ~(begin >= 0 /\ n > 0 /\ begin + n <= PieceLen(i))
      BY <3>1, <3>3 DEF ReadPiece
    <3> QED
      BY <3>2, <3>3
  <2> QED
    BY <2>1, <2>2, <2>3 DEF PiecesInPlace
<1> QED
  BY <1>1, InitOK, StepOK, PTL DEF LayoutSpec

-----------------------------------------------------------------------------
(* Sums of lengths *)

LEMMA LeastNat == ASSUME NEW S \in SUBSET Nat, S # {}
                  PROVE  \E m \in S : \A n \in S : m <= n
<1> DEFINE R == OpToRel(<, Nat)
<1>1. IsWellFoundedOn(R, Nat)
  BY NatLessThanWellFounded
<1>2. \A m, n \in Nat : <<m, n>> \in R <=> m < n
  BY DEF OpToRel
<1> HIDE DEF R
<1>3. PICK m \in S : \A n \in S : ~ (<<n, m>> \in R)
  BY <1>1, WFMin
<1>4. m \in Nat /\ S \subseteq Nat
  OBVIOUS
<1>5. \A n \in S : ~ (n < m)
  BY <1>2, <1>3, <1>4
<1> QED
  BY <1>4, <1>5

\* g gives the sums of the first elements of s, up to n of them.
IsSum(g, s, n) == g = [f \in 0..n |-> IF f = 0 THEN 0 ELSE g[f - 1] + s[f]]

LEMMA SumExists == ASSUME NEW s \in Seq(Nat)
                   PROVE  \A n \in 0..Len(s) : \E g \in [0..n -> Nat] : IsSum(g, s, n)
<1> DEFINE Fails == {n \in 0..Len(s) : ~ \E g \in [0..n -> Nat] : IsSum(g, s, n)}
<1> SUFFICES ASSUME Fails # {} PROVE FALSE
  OBVIOUS
<1>1. PICK n \in Fails : \A m \in Fails : n <= m
  <2>1. Fails \in SUBSET Nat
    OBVIOUS
  <2> HIDE DEF Fails
  <2> QED
    BY <2>1, LeastNat
<1>2. n \in 0..Len(s) /\ Len(s) \in Nat /\ ~ \E g \in [0..n -> Nat] : IsSum(g, s, n)
  OBVIOUS
<1>3. CASE n = 0
  <2> DEFINE g == [f \in 0..0 |-> 0]
  <2>1. g \in [0..n -> Nat] /\ IsSum(g, s, n)
    BY <1>3 DEF IsSum
  <2> QED
    BY <2>1, <1>2
<1>4. CASE n # 0
  <2>1. n - 1 \in 0..Len(s) /\ n - 1 \notin Fails
    <3>1. n - 1 \in 0..Len(s) /\ ~ (n <= n - 1)
      BY <1>2, <1>4
    <3> HIDE DEF Fails
    <3> QED
      BY <1>1, <3>1
  <2>2. PICK g \in [0..(n - 1) -> Nat] : IsSum(g, s, n - 1)
    BY <2>1
  <2> DEFINE h == [f \in 0..n |-> IF f = n THEN g[n - 1] + s[n] ELSE g[f]]
  <2>3. g[n - 1] + s[n] \in Nat
    BY <1>2, <1>4
  <2>4. h \in [0..n -> Nat]
    BY <1>2, <2>3
  <2>5. ASSUME NEW f \in 0..n PROVE h[f] = IF f = 0 THEN 0 ELSE h[f - 1] + s[f]
    <3>1. \A k \in 0..(n - 1) : g[k] = IF k = 0 THEN 0 ELSE g[k - 1] + s[k]
      BY <2>2 DEF IsSum
    <3>2. CASE f = n
      BY <3>2, <1>2, <1>4
    <3>3. CASE f # n
      <4>1. f \in 0..(n - 1) /\ (f # 0 => f - 1 \in 0..n /\ f - 1 # n)
        BY <3>3, <1>2
      <4> QED
        BY <4>1, <3>1, <3>3
    <3> QED
      BY <3>2, <3>3
  <2>6. IsSum(h, s, n)
    <3> HIDE DEF h
    <3> QED
      BY <2>4, <2>5 DEF IsSum
  <2> QED
    BY <2>4, <2>6, <1>2
<1> QED
  BY <1>3, <1>4

\* The sums of a sequence and of a beginning of it agree.
LEMMA SumUnique ==
    ASSUME NEW s, NEW m \in Nat, NEW g, IsSum(g, s, m),
           NEW n \in 0..m, NEW t, NEW h, IsSum(h, t, n),
           \A k \in 1..n : t[k] = s[k]
    PROVE  \A k \in 0..n : h[k] = g[k]
<1> DEFINE Differ == {k \in 0..n : h[k] # g[k]}
<1> SUFFICES ASSUME Differ # {} PROVE FALSE
  OBVIOUS
<1>1. PICK k \in Differ : \A j \in Differ : k <= j
  <2>1. Differ \in SUBSET Nat
    OBVIOUS
  <2> HIDE DEF Differ
  <2> QED
    BY <2>1, LeastNat
<1>2. k \in 0..n /\ h[k] # g[k] /\ k \in 0..m
  OBVIOUS
<1>3. h[k] = (IF k = 0 THEN 0 ELSE h[k - 1] + t[k]) /\ g[k] = (IF k = 0 THEN 0 ELSE g[k - 1] + s[k])
  BY <1>2 DEF IsSum
<1>4. k # 0
  BY <1>2, <1>3
<1>5. k - 1 \in 0..n /\ k - 1 \notin Differ /\ k \in 1..n
  BY <1>1, <1>2, <1>4
<1>6. h[k - 1] = g[k - 1] /\ t[k] = s[k]
  BY <1>5
<1> QED
  BY <1>2, <1>3, <1>4, <1>6

LEMMA TotalIs == ASSUME NEW s, NEW g, IsSum(g, s, Len(s))
                 PROVE  \E h : IsSum(h, s, Len(s)) /\ Total(s) = h[Len(s)]
<1> DEFINE sum[f \in 0..Len(s)] == IF f = 0 THEN 0 ELSE sum[f - 1] + s[f]
<1>1. Total(s) = sum[Len(s)]
  BY Zenon DEF Total
<1>2. sum = CHOOSE h : IsSum(h, s, Len(s))
  BY Zenon DEF IsSum
<1> HIDE DEF sum
<1>3. IsSum(sum, s, Len(s))
  BY <1>2, Zenon
<1> QED
  BY <1>1, <1>3

\* Each file begins where the one before it ends.
LEMMA Totals == ASSUME NEW s \in Seq(Nat)
                PROVE  /\ Total(SubSeq(s, 1, 0)) = 0
                       /\ \A f \in 1..Len(s) :
                             /\ Total(SubSeq(s, 1, f - 1)) \in Nat
                             /\ Total(SubSeq(s, 1, f)) = Total(SubSeq(s, 1, f - 1)) + s[f]
<1>1. Len(s) \in Nat
  OBVIOUS
<1>2. PICK g \in [0..Len(s) -> Nat] : IsSum(g, s, Len(s))
  BY <1>1, SumExists
<1>3. ASSUME NEW f \in 0..Len(s) PROVE Total(SubSeq(s, 1, f)) = g[f]
  <2> DEFINE t == SubSeq(s, 1, f)
  <2>1. t \in Seq(Nat) /\ Len(t) = f /\ f \in Nat /\ f <= Len(s) /\ \A k \in 1..f : t[k] = s[k]
    BY <1>1
  <2> HIDE DEF t
  <2>2. PICK e \in [0..f -> Nat] : IsSum(e, t, f)
    <3>1. f \in 0..Len(t)
      BY <2>1
    <3> QED
      BY <2>1, <3>1, SumExists
  <2>3. PICK h : IsSum(h, t, f) /\ Total(t) = h[f]
    BY <2>1, <2>2, TotalIs
  <2>4. \A k \in 0..f : h[k] = g[k]
    <3>1. \A l, r : IsSum(l, s, Len(s)) /\ IsSum(r, t, f) => \A k \in 0..f : r[k] = l[k]
      BY <1>1, <2>1, SumUnique
    <3> QED
      BY <3>1, <1>2, <2>3
  <2> QED
    BY <2>1, <2>3, <2>4 DEF t
<1>4. \A f \in 0..Len(s) : g[f] = IF f = 0 THEN 0 ELSE g[f - 1] + s[f]
  BY <1>2 DEF IsSum
<1>5. 0 \in 0..Len(s) /\ \A f \in 1..Len(s) : f \in 0..Len(s) /\ f - 1 \in 0..Len(s) /\ f # 0
  BY <1>1
<1>6. \A f \in 0..Len(s) : g[f] \in Nat
  BY <1>2
<1> QED
  BY <1>3, <1>4, <1>5, <1>6

-----------------------------------------------------------------------------
(* The files *)

\* Where file f + 1 begins.
Upto(f) == Total(SubSeq(torrent.files, 1, f))

\* The copies follow each other, and are made of a whole payload.
FilesOK ==
    /\ torrent.files \in Seq(Nat)
    /\ outputs \in Seq(Seq(Int))
    /\ Len(outputs) <= Len(torrent.files)
    /\ offset = Upto(Len(outputs))
    /\ \A f \in DOMAIN outputs : outputs[f] = [k \in 1..torrent.files[f] |-> Upto(f - 1) + k - 1]

\* The pieces cover the file.
LEMMA Whole == ASSUME TorrentOK, DiskOK, written = Indices
               PROVE  disk = [k \in 1..torrent.length |-> k - 1]
<1> DEFINE P == torrent.pieceLength
           L == torrent.length
           n == torrent.pieces
<1>1. P \in Nat \ {0} /\ L \in Nat /\ n \in Nat \ {0} /\ L <= n * P /\ n * P \in Nat
  BY DEF TorrentOK
<1>2. disk \in [1..L -> Int \cup {Blank}]
  BY DEF DiskOK
<1>3. ASSUME NEW k \in 1..L PROVE disk[k] = k - 1
  <2> DEFINE i == (k - 1) \div P
  <2>1. i \in Nat /\ (k - 1) % P \in 0..(P - 1) /\ k - 1 = i * P + ((k - 1) % P)
    <3>1. k - 1 \in Nat
      BY <1>1
    <3> QED
      BY <3>1, <1>1, Division
  <2> DEFINE q == i * P
             r == (k - 1) % P
  <2>2. q \in Nat /\ q <= k - 1 /\ k - 1 < q + P /\ (i + 1) * P = q + P
    <3> HIDE DEF i, P, L, n
    <3>1. q \in Nat /\ (i + 1) * P = q + P
      BY <1>1, <2>1
    <3>2. r \in 0..(P - 1) /\ k - 1 = q + r
      BY <2>1
    <3> HIDE DEF q, r
    <3> QED
      BY <1>1, <3>1, <3>2
  <2>a. i \in Nat
    BY <2>1
  <2> HIDE DEF i
  <2>3. i \in Indices
    <3>1. i < n
      <4> SUFFICES ASSUME i >= n PROVE FALSE
        BY <1>1, <2>a
      <4> HIDE DEF P, L, n
      <4>1. n * P <= q
        BY <1>1, <2>a, Multiples
      <4> HIDE DEF q
      <4> QED
        BY <1>1, <2>2, <4>1
    <3> QED
      BY <1>1, <2>a, <3>1 DEF Indices
  <2>4. pieceOffset(i) = q /\ PieceLen(i) = IF q + P <= L THEN P ELSE L - q
    BY <2>2 DEF pieceOffset, PieceLen
  <2>5. k \in (pieceOffset(i) + 1)..(pieceOffset(i) + PieceLen(i))
    <3> HIDE DEF P, L, n, q
    <3> QED
      BY <1>1, <2>2, <2>4
  <2> QED
    BY <2>3, <2>5 DEF DiskOK
<1> QED
  BY <1>2, <1>3

LEMMA ReadsWhole == ASSUME TorrentOK, DiskOK, written = Indices,
                           NEW off \in Nat, NEW n \in Nat, off + n <= Len(disk)
                    PROVE  ReadAt(off, n) = [k \in 1..n |-> off + k - 1]
<1>1. disk = [k \in 1..torrent.length |-> k - 1] /\ torrent.length \in Nat
  BY Whole DEF TorrentOK
<1>2. Len(disk) = torrent.length /\ disk \in Seq(Int)
  BY <1>1
<1>3. ReadAt(off, n) = SubSeq(disk, off + 1, off + n)
  BY DEF ReadAt
<1>4. SubSeq(disk, off + 1, off + n) = [k \in 1..n |-> disk[off + k]]
  BY <1>2
<1>5. ASSUME NEW k \in 1..n PROVE disk[off + k] = off + k - 1
  <2> DEFINE x == off + k
  <2>1. x \in 1..torrent.length
    BY <1>2
  <2> HIDE DEF x
  <2>2. disk[x] = x - 1
    BY <1>1, <2>1
  <2> QED
    BY <2>2 DEF x
<1> QED
  BY <1>3, <1>4, <1>5

LEMMA FilesInit == LayoutInit => FilesOK
<1> SUFFICES ASSUME LayoutInit PROVE FilesOK
  OBVIOUS
<1>1. PICK m \in Metainfos : Valid(m) /\ torrent = Parsed(m)
  BY DEF LayoutInit
<1>2. torrent.files \in Seq(Nat)
  BY <1>1, MetainfosAssumption DEF Parsed
<1>3. outputs = <<>> /\ offset = 0
  BY DEF LayoutInit
<1> QED
  BY <1>2, <1>3, Totals DEF FilesOK, Upto

LEMMA FilesStep == ASSUME TorrentOK, DiskOK, FilesOK, [LayoutNext]_layoutVars PROVE FilesOK'
<1>1. CASE UNCHANGED <<torrent, offset, outputs>>
  BY <1>1 DEF FilesOK, Upto
<1>2. CASE CopyFile
  <2> DEFINE c == Len(outputs) + 1
             n == torrent.files[c]
  <2>1. /\ outputs \in Seq(Seq(Int)) /\ torrent.files \in Seq(Nat)
        /\ Len(outputs) \in Nat /\ Len(torrent.files) \in Nat /\ offset = Upto(Len(outputs))
    BY DEF FilesOK
  <2>2. /\ written = Indices /\ Len(outputs) < Len(torrent.files)
        /\ offset + n <= Len(disk)
        /\ outputs' = Append(outputs, ReadAt(offset, n)) /\ offset' = offset + n
        /\ UNCHANGED <<torrent, disk, written>>
    BY <1>2 DEF CopyFile
  <2>3. c \in 1..Len(torrent.files) /\ n \in Nat /\ c - 1 = Len(outputs)
    BY <2>1, <2>2
  <2>4. offset \in Nat /\ offset = Upto(c - 1) /\ offset + n = Upto(c)
    <3> HIDE DEF c
    <3> QED
      BY <2>1, <2>3, Totals DEF Upto
  <2>5. ReadAt(offset, n) = [k \in 1..n |-> offset + k - 1]
    <3> HIDE DEF n
    <3> QED
      BY <2>2, <2>3, <2>4, ReadsWhole
  <2>6. ReadAt(offset, n) \in Seq(Int)
    BY <2>3, <2>4, <2>5
  <2> HIDE DEF n, c
  <2>7. /\ outputs' \in Seq(Seq(Int)) /\ Len(outputs') = c /\ DOMAIN outputs' = 1..c
        /\ outputs'[c] = ReadAt(offset, n) /\ \A f \in DOMAIN outputs : outputs'[f] = outputs[f]
        /\ DOMAIN outputs = 1..(c - 1)
    BY <2>1, <2>2, <2>6 DEF c
  <2>8. \A f : Upto(f)' = Upto(f)
    BY <2>2 DEF Upto
  <2>9. ASSUME NEW f \in 1..c
        PROVE  outputs'[f] = [k \in 1..torrent.files[f] |-> Upto(f - 1) + k - 1]
    <3>1. CASE f = c
      BY <3>1, <2>4, <2>5, <2>7 DEF n
    <3>2. CASE f # c
      <4>1. f \in DOMAIN outputs
        BY <3>2, <2>3, <2>7
      <4> QED
        BY <4>1, <2>7 DEF FilesOK
    <3> QED
      BY <3>1, <3>2
  <2>10. c <= Len(torrent.files) /\ offset' = Upto(c) /\ torrent' = torrent
    BY <2>2, <2>3, <2>4
  <2>11. \A f \in DOMAIN outputs' :
            outputs'[f] = [k \in 1..torrent'.files[f] |-> Upto(f - 1)' + k - 1]
    BY <2>7, <2>8, <2>9, <2>10
  <2> QED
    BY <2>1, <2>7, <2>8, <2>10, <2>11 DEF FilesOK
<1> QED
  BY <1>1, <1>2 DEF LayoutNext, writePiece, layoutVars

\* downloader.go:1419-1460: when all pieces are there the data file holds every byte
\* at its place, and every copy holds the bytes of its file, for all lengths of files
\* (empty ones included) and of pieces; with the blocks of the pieces, this is all
\* that Layout promises.
THEOREM BytesAreInPlace == LayoutSpec => []InPlace
<1>1. TorrentOK /\ DiskOK /\ FilesOK => FilesInPlace
  <2> SUFFICES ASSUME TorrentOK, DiskOK, FilesOK PROVE FilesInPlace
    OBVIOUS
  <2> QED
    BY Whole DEF FilesInPlace, FilesOK, Upto
<1>2. TorrentOK /\ DiskOK /\ FilesOK /\ [LayoutNext]_layoutVars => TorrentOK' /\ DiskOK' /\ FilesOK'
  BY StepOK, FilesStep
<1>3. LayoutInit => TorrentOK /\ DiskOK /\ FilesOK
  BY InitOK, FilesInit
<1>4. LayoutSpec => []FilesInPlace
  BY <1>1, <1>2, <1>3, PTL DEF LayoutSpec
<1>5. PiecesInPlace /\ FilesInPlace => InPlace
  BY DEF InPlace
<1> QED
  BY <1>4, <1>5, PiecesAreInPlace, PTL
-----------------------------------------------------------------------------
(* The order of the queue *)

\* The values of a byte with one bit.
Ones == {1, 2, 4, 8, 16, 32, 64, 128}

LEMMA BitValue == ASSUME NEW i \in Nat, NEW j \in Nat
  PROVE /\ Bit(i) \in Ones
        /\ Bit(j) = Bit(i) => j % 8 = i % 8
<1> DEFINE Power(r) == IF r = 0 THEN 128 ELSE IF r = 1 THEN 64 ELSE IF r = 2 THEN 32
               ELSE IF r = 3 THEN 16 ELSE IF r = 4 THEN 8 ELSE IF r = 5 THEN 4
               ELSE IF r = 6 THEN 2 ELSE 1
<1>1. \A r \in 0..7 : 2 ^ (7 - r) = Power(r)
  <2>1. /\ 2^0 = 1 /\ 2^1 = 2 /\ 2^2 = 4 /\ 2^3 = 8
        /\ 2^4 = 16 /\ 2^5 = 32 /\ 2^6 = 64 /\ 2^7 = 128
    OBVIOUS
  <2>2. SUFFICES ASSUME NEW r \in 0..7 PROVE 2 ^ (7 - r) = Power(r)
    OBVIOUS
  <2>3. /\ r = 0 => 7 - r = 7
        /\ r = 1 => 7 - r = 6
        /\ r = 2 => 7 - r = 5
        /\ r = 3 => 7 - r = 4
        /\ r = 4 => 7 - r = 3
        /\ r = 5 => 7 - r = 2
        /\ r = 6 => 7 - r = 1
        /\ r = 7 => 7 - r = 0
    OBVIOUS
  <2>4. r \in {0, 1, 2, 3, 4, 5, 6, 7}
    OBVIOUS
  <2>5. CASE r = 0  BY <2>1, <2>3, <2>5
  <2>6. CASE r = 1  BY <2>1, <2>3, <2>6
  <2>7. CASE r = 2  BY <2>1, <2>3, <2>7
  <2>8. CASE r = 3  BY <2>1, <2>3, <2>8
  <2>9. CASE r = 4  BY <2>1, <2>3, <2>9
  <2>10. CASE r = 5  BY <2>1, <2>3, <2>10
  <2>11. CASE r = 6  BY <2>1, <2>3, <2>11
  <2>12. CASE r = 7  BY <2>1, <2>3, <2>12
  <2> QED
    BY <2>4, <2>5, <2>6, <2>7, <2>8, <2>9, <2>10, <2>11, <2>12
<1>2. i % 8 \in 0..7 /\ j % 8 \in 0..7
  OBVIOUS
<1>3. Bit(i) = Power(i % 8) /\ Bit(j) = Power(j % 8)
  BY <1>1, <1>2 DEF Bit
<1>4. \A r, q \in 0..7 : /\ Power(r) \in Ones
                         /\ Power(r) = Power(q) => r = q
  BY DEF Ones
<1> HIDE DEF Power
<1> QED
  BY <1>2, <1>3, <1>4

\* Adding a bit that a byte lacks changes no other one.
LEMMA AddBit == ASSUME NEW v \in 0..255, NEW p \in Ones, (v \div p) % 2 # 1
                PROVE  /\ v + p \in 0..255 /\ ((v + p) \div p) % 2 = 1
                       /\ \A q \in Ones \ {p} :
                             ((v + p) \div q) % 2 = (v \div q) % 2
<1>1. CASE p = 1  BY <1>1 DEF Ones
<1>2. CASE p = 2  BY <1>2 DEF Ones
<1>3. CASE p = 4  BY <1>3 DEF Ones
<1>4. CASE p = 8  BY <1>4 DEF Ones
<1>5. CASE p = 16  BY <1>5 DEF Ones
<1>6. CASE p = 32  BY <1>6 DEF Ones
<1>7. CASE p = 64  BY <1>7 DEF Ones
<1>8. CASE p = 128  BY <1>8 DEF Ones
<1> QED
  BY <1>1, <1>2, <1>3, <1>4, <1>5, <1>6, <1>7, <1>8 DEF Ones

LEMMA LenOfFun == ASSUME NEW S, NEW n \in Nat, NEW f \in [1..n -> S]
                  PROVE  f \in Seq(S) /\ Len(f) = n
OBVIOUS

LEMMA ElementOf == ASSUME NEW S, NEW s \in Seq(S), NEW k \in 1..Len(s)
                   PROVE  s[k] \in S
OBVIOUS

\* Setting a bit sets that one and no other, in a bitfield that is long enough and
\* in one that grows.
LEMMA SetBit == ASSUME NEW b \in Seq(0..255), NEW i \in Nat, NEW j \in Nat
                PROVE  /\ setBitfieldPiece(b, i) \in Seq(0..255)
                       /\ bitfieldHasPiece(setBitfieldPiece(b, i), j)
                             <=> bitfieldHasPiece(b, j) \/ j = i
<1> DEFINE len == IF Len(b) > i \div 8 THEN Len(b) ELSE (i \div 8) + 1
           grown == [k \in 1..len |-> IF k <= Len(b) THEN b[k] ELSE 0]
           set == [grown EXCEPT ![(i \div 8) + 1] = @ + Bit(i)]
<1>1. Len(b) \in Nat /\ len \in Nat /\ i \div 8 \in Nat /\ j \div 8 \in Nat
  OBVIOUS
<1>2. Len(b) <= len /\ (i \div 8) + 1 \in 1..len
  BY <1>1
<1>3. \A k \in 1..len : grown[k] \in 0..255
  <2>1. \A k \in 1..Len(b) : b[k] \in 0..255
    BY ElementOf, Zenon
  <2> HIDE DEF len
  <2> QED
    BY <1>1, <2>1
<1>4. grown \in Seq(0..255) /\ Len(grown) = len
  <2> HIDE DEF len
  <2>1. grown \in [1..len -> 0..255]
    BY <1>3
  <2> HIDE DEF grown
  <2> QED
    BY <1>1, <2>1, LenOfFun, Zenon
<1>5. bitfieldHasPiece(grown, j) <=> bitfieldHasPiece(b, j)
  <2>1. Bit(j) \in Ones
    BY BitValue
  <2>2. (0 \div Bit(j)) % 2 = 0
    BY <2>1 DEF Ones
  <2>3. CASE j \div 8 < Len(b)
    BY <1>1, <1>2, <1>4, <2>3 DEF bitfieldHasPiece
  <2>4. CASE ~ (j \div 8 < Len(b))
    <3>1. j \div 8 < len => grown[(j \div 8) + 1] = 0
      BY <1>1, <2>4
    <3> HIDE DEF grown, len
    <3> QED
      BY <1>1, <1>4, <2>2, <2>4, <3>1 DEF bitfieldHasPiece
  <2> QED
    BY <2>3, <2>4
<1>6. setBitfieldPiece(b, i) = IF bitfieldHasPiece(grown, i) THEN grown ELSE set
  BY DEF setBitfieldPiece
<1> HIDE DEF grown, len
<1>7. CASE bitfieldHasPiece(grown, i)
  <2>1. bitfieldHasPiece(b, j) \/ j = i <=> bitfieldHasPiece(grown, j)
    BY <1>5, <1>7
  <2> QED
    BY <1>4, <1>6, <1>7, <2>1
<1>8. CASE ~ bitfieldHasPiece(grown, i)
  <2> DEFINE v == grown[(i \div 8) + 1]
  <2>1. v \in 0..255
    BY <1>2, <1>3
  <2>2. Bit(i) \in Ones /\ Bit(j) \in Ones /\ (Bit(j) = Bit(i) => j % 8 = i % 8)
    BY BitValue, Zenon
  <2>3. (v \div Bit(i)) % 2 # 1
    BY <1>1, <1>2, <1>4, <1>8 DEF bitfieldHasPiece
  <2>4. /\ v + Bit(i) \in 0..255
        /\ ((v + Bit(i)) \div Bit(i)) % 2 = 1
        /\ \A q \in Ones \ {Bit(i)} : ((v + Bit(i)) \div q) % 2 = (v \div q) % 2
    <3> HIDE DEF v
    <3> QED
      BY <2>1, <2>2, <2>3, AddBit, Zenon
  <2>5. /\ set \in Seq(0..255) /\ Len(set) = len
        /\ set[(i \div 8) + 1] = v + Bit(i)
        /\ \A k \in 1..len \ {(i \div 8) + 1} : set[k] = grown[k]
    BY <1>1, <1>2, <1>4, <2>4 DEF Ones
  <2> HIDE DEF set, v
  <2>6. setBitfieldPiece(b, i) = set
    BY <1>6, <1>8
  <2>7. CASE j \div 8 # i \div 8
    <3>1. bitfieldHasPiece(set, j) <=> bitfieldHasPiece(grown, j)
      BY <1>1, <1>4, <2>5, <2>7 DEF bitfieldHasPiece
    <3> QED
      BY <1>5, <2>5, <2>6, <2>7, <3>1
  <2>8. CASE j \div 8 = i \div 8 /\ Bit(j) # Bit(i)
    <3>1. ((v + Bit(i)) \div Bit(j)) % 2 = (v \div Bit(j)) % 2
      BY <2>2, <2>4, <2>8
    <3>2. bitfieldHasPiece(set, j) <=> bitfieldHasPiece(grown, j)
      BY <1>1, <1>2, <1>4, <2>5, <2>8, <3>1 DEF bitfieldHasPiece, v
    <3> QED
      BY <1>5, <2>5, <2>6, <2>8, <3>2
  <2>9. CASE j \div 8 = i \div 8 /\ Bit(j) = Bit(i)
    <3>1. j = i
      BY <2>2, <2>9
    <3>2. bitfieldHasPiece(set, i)
      BY <1>1, <1>2, <2>4, <2>5 DEF bitfieldHasPiece
    <3> QED
      BY <2>5, <2>6, <3>1, <3>2
  <2> QED
    BY <2>7, <2>8, <2>9
<1> QED
  BY <1>7, <1>8

\* g folds setBitfieldPiece over the subsets of S that are in D, which with a set
\* has every smaller one.
IsFold(g, D) ==
    g = [s \in D |-> IF s = {} THEN <<>>
          ELSE setBitfieldPiece(g[s \ {CHOOSE x \in s : TRUE}], CHOOSE x \in s : TRUE)]

LEMMA FoldExists == ASSUME NEW S, IsFiniteSet(S)
                    PROVE  \E g : IsFold(g, SUBSET S)
<1> DEFINE Sub(n) == {s \in SUBSET S : Cardinality(s) <= n}
           Bad == {n \in Nat : ~ \E g : IsFold(g, Sub(n))}
<1>1. \A s \in SUBSET S : IsFiniteSet(s) /\ Cardinality(s) \in 0..Cardinality(S)
  BY FS_Subset, FS_CardinalityType
<1>2. \A s \in SUBSET S : s # {} =>
        /\ s \ {CHOOSE x \in s : TRUE} \in SUBSET S
        /\ Cardinality(s \ {CHOOSE x \in s : TRUE}) = Cardinality(s) - 1
  <2> SUFFICES ASSUME NEW s \in SUBSET S, s # {}
               PROVE  Cardinality(s \ {CHOOSE x \in s : TRUE}) = Cardinality(s) - 1
    OBVIOUS
  <2>1. (CHOOSE x \in s : TRUE) \in s
    OBVIOUS
  <2> QED
    BY <1>1, <2>1, FS_RemoveElement
<1>3. Bad = {}
  <2>1. SUFFICES ASSUME Bad # {} PROVE FALSE
    OBVIOUS
  <2>2. PICK m \in Bad : \A n \in Bad : m <= n
    BY <2>1, LeastNat
  <2>3. m \in Nat /\ ~ \E g : IsFold(g, Sub(m))
    OBVIOUS
  <2>4. m # 0
    <3> DEFINE g == [s \in Sub(0) |-> <<>>]
    <3>1. \A s \in Sub(0) : s = {}
      BY <1>1, FS_EmptySet
    <3>2. IsFold(g, Sub(0))
      BY <3>1 DEF IsFold
    <3> QED
      BY <2>3, <3>2
  <2>5. m - 1 \in Nat /\ m - 1 \notin Bad
    <3>1. m - 1 \in Nat /\ ~ (m <= m - 1)
      BY <2>3, <2>4
    <3> HIDE DEF Bad
    <3> QED
      BY <2>2, <3>1
  <2>6. PICK g : IsFold(g, Sub(m - 1))
    BY <2>5
  <2> DEFINE h == [s \in Sub(m) |-> IF s \in Sub(m - 1) THEN g[s]
                ELSE setBitfieldPiece(g[s \ {CHOOSE x \in s : TRUE}], CHOOSE x \in s : TRUE)]
  <2>7. ASSUME NEW s \in Sub(m)
        PROVE  h[s] = IF s = {} THEN <<>>
                 ELSE setBitfieldPiece(h[s \ {CHOOSE x \in s : TRUE}], CHOOSE x \in s : TRUE)
    <3> DEFINE less == s \ {CHOOSE x \in s : TRUE}
    <3>1. CASE s = {}
      <4>1. s \in Sub(m - 1)
        BY <2>5, <3>1, FS_EmptySet
      <4>2. g[s] = <<>>
        BY <2>6, <3>1, <4>1, Zenon DEF IsFold
      <4> QED
        BY <3>1, <4>1, <4>2
    <3>2. CASE s # {}
      <4>1. less \in Sub(m - 1) /\ less \in Sub(m)
        BY <1>1, <1>2, <2>3, <3>2
      <4>2. h[less] = g[less]
        BY <4>1, Zenon
      <4>3. s \in Sub(m - 1) =>
              g[s] = setBitfieldPiece(g[less], CHOOSE x \in s : TRUE)
        BY <2>6, <3>2, Zenon DEF IsFold
      <4> QED
        BY <3>2, <4>2, <4>3, Zenon
    <3> QED
      BY <3>1, <3>2
  <2>8. IsFold(h, Sub(m))
    <3>1. h = [s \in Sub(m) |-> h[s]]
      OBVIOUS
    <3> HIDE DEF h, Sub
    <3> QED
      BY <2>7, <3>1, Zenon DEF IsFold
  <2> QED
    BY <2>3, <2>8
<1>4. Cardinality(S) \in Nat /\ Sub(Cardinality(S)) = SUBSET S
  BY <1>1
<1>5. \E g : IsFold(g, Sub(Cardinality(S)))
  BY <1>3, <1>4
<1> QED
  BY <1>4, <1>5

LEMMA FoldBits == ASSUME NEW S \in SUBSET Nat, IsFiniteSet(S), NEW g, IsFold(g, SUBSET S),
                         NEW s \in SUBSET S
                  PROVE  /\ g[s] \in Seq(0..255)
                         /\ \A j \in Nat : bitfieldHasPiece(g[s], j) <=> j \in s
<1> DEFINE Right(t) == /\ g[t] \in Seq(0..255)
                      /\ \A j \in Nat : bitfieldHasPiece(g[t], j) <=> j \in t
           Bad == {n \in Nat : \E t \in SUBSET S : Cardinality(t) = n /\ ~Right(t)}
<1>1. \A t \in SUBSET S : IsFiniteSet(t) /\ Cardinality(t) \in Nat
  BY FS_Subset, FS_CardinalityType
<1>2. Bad = {}
  <2>1. SUFFICES ASSUME Bad # {} PROVE FALSE
    OBVIOUS
  <2>2. PICK m \in Bad : \A n \in Bad : m <= n
    BY <2>1, LeastNat
  <2>3. PICK t \in SUBSET S : Cardinality(t) = m /\ ~Right(t)
    OBVIOUS
  <2>4. CASE t = {}
    <3>1. g[t] = <<>>
      BY <2>4, Zenon DEF IsFold
    <3>2. <<>> \in Seq(0..255) /\ \A j \in Nat : ~ bitfieldHasPiece(<<>>, j)
      BY DEF bitfieldHasPiece
    <3> QED
      BY <2>3, <2>4, <3>1, <3>2
  <2>5. CASE t # {}
    <3> DEFINE x == CHOOSE y \in t : TRUE
               less == t \ {x}
    <3>1. x \in t /\ x \in Nat /\ less \in SUBSET S
      BY <2>5
    <3>2. g[t] = setBitfieldPiece(g[less], x)
      BY <2>5, Zenon DEF IsFold
    <3>3. Cardinality(less) = Cardinality(t) - 1
      BY <1>1, <3>1, FS_RemoveElement
    <3>4. Right(less)
      <4>1. m \in Nat /\ Cardinality(less) \in Nat /\ ~ (m <= Cardinality(less))
        BY <1>1, <2>3, <3>1, <3>3
      <4>2. Cardinality(less) \notin Bad
        <5> HIDE DEF Bad, less
        <5> QED
          BY <2>2, <4>1
      <4> HIDE DEF Good, less
      <4> QED
        BY <3>1, <4>1, <4>2
    <3> HIDE DEF x
    <3>5. \A j \in Nat : /\ setBitfieldPiece(g[less], x) \in Seq(0..255)
                         /\ bitfieldHasPiece(setBitfieldPiece(g[less], x), j)
                               <=> bitfieldHasPiece(g[less], j) \/ j = x
      BY <3>1, <3>4, SetBit
    <3>6. Right(t)
      BY <3>1, <3>2, <3>4, <3>5
    <3> QED
      BY <2>3, <3>6
  <2> QED
    BY <2>4, <2>5
<1> QED
  BY <1>1, <1>2

\* A bitfield says which pieces its peer has.
LEMMA BitfieldSays == ASSUME NEW S \in SUBSET Nat, IsFiniteSet(S), NEW j \in Nat
                      PROVE  bitfieldHasPiece(Bitfield(S), j) <=> j \in S
<1> DEFINE iter[s \in SUBSET S] == IF s = {} THEN <<>>
             ELSE setBitfieldPiece(iter[s \ {CHOOSE x \in s : TRUE}], CHOOSE x \in s : TRUE)
<1>1. Bitfield(S) = iter[S]
  BY Zenon DEF Bitfield, FoldSet, MapThenFoldSet
<1>2. iter = CHOOSE h : IsFold(h, SUBSET S)
  BY Zenon DEF IsFold
<1> HIDE DEF iter
<1>3. IsFold(iter, SUBSET S)
  BY <1>2, FoldExists, Zenon
<1> QED
  BY <1>1, <1>3, FoldBits

\* What the queue is sorted by has each piece once: the number of pieces before one
\* is another for each of them.
LEMMA Ranks == ASSUME NEW n \in Nat, availability \in [0..(n - 1) -> Nat]
               PROVE  /\ \A i \in 0..(n - 1) : Rank(i) \in 0..(n - 1)
                      /\ \A i, j \in 0..(n - 1) : Before(i, j) => Rank(i) < Rank(j)
                      /\ \A i, j \in 0..(n - 1) : i # j => Before(i, j) \/ Before(j, i)
                      /\ \A r \in 0..(n - 1) : \E i \in 0..(n - 1) : Rank(i) = r
<1> DEFINE D == 0..(n - 1)
           Lower(i) == {j \in D : Before(j, i)}
<1>1. IsFiniteSet(D) /\ Cardinality(D) = n
  BY FS_Interval
<1>2. \A i \in D : Rank(i) = Cardinality(Lower(i))
  BY DEF Rank
<1>3. \A i, j \in D : /\ ~ Before(i, i)
                      /\ i # j => Before(i, j) \/ Before(j, i)
  BY DEF Before
<1>4. \A i, j, k \in D : Before(i, j) /\ Before(j, k) => Before(i, k)
  BY DEF Before
<1>5. \A i \in D : IsFiniteSet(Lower(i)) /\ Cardinality(Lower(i)) \in Nat
  BY <1>1, FS_Subset, FS_CardinalityType
<1>6. ASSUME NEW i \in D PROVE Rank(i) \in D
  <2>1. Lower(i) \in SUBSET D /\ Lower(i) # D
    BY <1>3
  <2>2. Cardinality(Lower(i)) <= n /\ Cardinality(Lower(i)) # n
    <3> HIDE DEF Lower, D
    <3> QED
      BY <1>1, <2>1, FS_Subset
  <2> HIDE DEF Lower
  <2> QED
    BY <1>2, <1>5, <2>2
<1>7. ASSUME NEW i \in D, NEW j \in D, Before(i, j) PROVE Rank(i) < Rank(j)
  <2>1. Lower(i) \in SUBSET Lower(j)
    BY <1>4, <1>7
  <2>2. i \in Lower(j) /\ i \notin Lower(i)
    BY <1>3, <1>7
  <2>3. Cardinality(Lower(i)) <= Cardinality(Lower(j))
        /\ Cardinality(Lower(i)) # Cardinality(Lower(j))
    <3> HIDE DEF Lower, D
    <3>1. /\ Cardinality(Lower(i)) <= Cardinality(Lower(j))
          /\ Cardinality(Lower(i)) = Cardinality(Lower(j)) => Lower(i) = Lower(j)
      BY <1>5, <2>1, FS_Subset
    <3> QED
      BY <2>2, <3>1
  <2> HIDE DEF Lower
  <2> QED
    BY <1>2, <1>5, <2>3
<1>8. ASSUME NEW r \in D PROVE \E i \in D : Rank(i) = r
  <2> DEFINE rank == [i \in D |-> Rank(i)]
  <2>1. rank \in Injection(D, D)
    <3>1. rank \in [D -> D]
      BY <1>6
    <3>2. ASSUME NEW i \in D, NEW j \in D, i # j PROVE Rank(i) # Rank(j)
      <4>1. Rank(i) \in Int /\ Rank(j) \in Int
        BY <1>6
      <4>2. Rank(i) < Rank(j) \/ Rank(j) < Rank(i)
        <5> HIDE DEF D
        <5> QED
          BY <1>3, <1>7, <3>2, Zenon
      <4> QED
        BY <4>1, <4>2
    <3> QED
      BY <3>1, <3>2 DEF Injection, IsInjective
  <2>2. rank \in Surjection(D, D)
    <3> HIDE DEF rank, D
    <3> QED
      BY <1>1, <2>1, FS_Injection, Zenon
  <2> QED
    BY <2>2 DEF Surjection
<1> QED
  BY <1>3, <1>6, <1>7, <1>8

\* The number of peers that have a piece grows with the peers.
LEMMA HoldersMore == ASSUME NEW D, owned \in Seq(SUBSET D), NEW S,
                            owned' = Append(owned, S), NEW i
                     PROVE  /\ Holders(i) \in Nat
                            /\ Holders(i)' = IF i \in S THEN Holders(i) + 1 ELSE Holders(i)
<1> DEFINE Which == {k \in DOMAIN owned : i \in owned[k]}
<1>1. Len(owned) \in Nat /\ DOMAIN owned = 1..Len(owned)
  OBVIOUS
<1>2. IsFiniteSet(Which) /\ Cardinality(Which) \in Nat
  <2>1. Which \in SUBSET (1..Len(owned)) /\ IsFiniteSet(1..Len(owned))
    BY <1>1, FS_Interval
  <2> HIDE DEF Which
  <2> QED
    BY <2>1, FS_Subset, FS_CardinalityType
<1>3. Len(owned) + 1 \notin Which
  BY <1>1
<1>4. {k \in DOMAIN owned : i \in owned[k]}'
        = IF i \in S THEN Which \cup {Len(owned) + 1} ELSE Which
  <2>1. /\ DOMAIN owned' = 1..(Len(owned) + 1)
        /\ owned'[Len(owned) + 1] = S
        /\ \A k \in 1..Len(owned) : owned'[k] = owned[k]
    OBVIOUS
  <2> QED
    BY <1>1, <2>1
<1> HIDE DEF Which
<1>5. Holders(i) = Cardinality(Which)
  BY DEF Holders, Which
<1>6. Holders(i)' = Cardinality(IF i \in S THEN Which \cup {Len(owned) + 1} ELSE Which)
  BY <1>4 DEF Holders
<1> QED
  BY <1>2, <1>3, <1>5, <1>6, FS_AddElement

\* The counts that the pieces are sorted by are those of the peers that answered.
OrderOK ==
    /\ \E n \in Nat : availability \in [0..(n - 1) -> Nat]
    /\ owned \in Seq(SUBSET DOMAIN availability)
    /\ \A i \in DOMAIN availability : availability[i] = Holders(i)
    /\ RarestFirst

LEMMA OrderStart == ASSUME NEW n \in Nat, OrderInit(n) PROVE OrderOK
<1>1. availability \in [0..(n - 1) -> Nat]
  BY DEF OrderInit
<1>2. owned = <<>> /\ owned \in Seq(SUBSET DOMAIN availability)
  BY DEF OrderInit
<1>3. \A i : Holders(i) = 0
  <2>1. \A i : {k \in DOMAIN owned : i \in owned[k]} = {}
    BY <1>2
  <2> QED
    BY <2>1, FS_EmptySet DEF Holders
<1>4. \A i \in DOMAIN availability : availability[i] = 0
  BY DEF OrderInit
<1>5. RarestFirst
  BY DEF OrderInit, RarestFirst
<1> QED
  BY <1>1, <1>2, <1>3, <1>4, <1>5 DEF OrderOK

LEMMA ProbeStep == ASSUME OrderOK, NEW p, Probe(p) PROVE OrderOK'
<1>1. PICK n \in Nat : availability \in [0..(n - 1) -> Nat]
  BY DEF OrderOK
<1>2. RarestFirst'
  BY DEF Probe, RarestFirst
<1>3. CASE UNCHANGED <<availability, owned>>
  BY <1>2, <1>3 DEF OrderOK, Holders
<1>4. ASSUME NEW S \in SUBSET (Telling \cap DOMAIN availability),
             availability' = [i \in DOMAIN availability |->
                 IF bitfieldHasPiece(Bitfield(S), i) THEN availability[i] + 1
                 ELSE availability[i]],
             owned' = Append(owned, S)
      PROVE  OrderOK'
  <2>1. S \in SUBSET Nat /\ S \in SUBSET (0..(n - 1)) /\ IsFiniteSet(S)
    <3>1. S \in SUBSET Nat /\ S \in SUBSET (0..(n - 1)) /\ IsFiniteSet(0..(n - 1))
      BY <1>1, FS_Interval
    <3> QED
      BY <3>1, FS_Subset, Zenon
  <2>2. \A i \in 0..(n - 1) : bitfieldHasPiece(Bitfield(S), i) <=> i \in S
    BY <2>1, BitfieldSays
  <2>3. /\ availability' \in [0..(n - 1) -> Nat]
        /\ \A i \in 0..(n - 1) :
              availability'[i] = IF i \in S THEN availability[i] + 1 ELSE availability[i]
    BY <1>1, <1>4, <2>2
  <2>4. owned \in Seq(SUBSET (0..(n - 1))) /\ owned' \in Seq(SUBSET (0..(n - 1)))
    BY <1>1, <1>4, <2>1 DEF OrderOK
  <2>5. \A i : Holders(i)' = IF i \in S THEN Holders(i) + 1 ELSE Holders(i)
    BY <1>4, <2>4, HoldersMore
  <2>6. \A i \in 0..(n - 1) : availability[i] = Holders(i)
    BY <1>1 DEF OrderOK
  <2>7. \A i \in 0..(n - 1) : availability'[i] = Holders(i)'
    BY <2>3, <2>5, <2>6
  <2> QED
    BY <1>2, <2>3, <2>4, <2>7 DEF OrderOK
<1> QED
  BY <1>3, <1>4 DEF Probe

LEMMA BuildStep == ASSUME OrderOK, Build PROVE OrderOK'
<1>1. PICK n \in Nat : availability \in [0..(n - 1) -> Nat]
  BY DEF OrderOK
<1>2. DOMAIN availability = 0..(n - 1) /\ Cardinality(DOMAIN availability) = n
  BY <1>1, FS_Interval
<1>3. order' = [k \in 1..n |-> CHOOSE i \in 0..(n - 1) : Rank(i) = k - 1]
  BY <1>2 DEF Build
<1>4. /\ \A i \in 0..(n - 1) : Rank(i) \in 0..(n - 1)
      /\ \A i, j \in 0..(n - 1) : Before(i, j) => Rank(i) < Rank(j)
      /\ \A i, j \in 0..(n - 1) : i # j => Before(i, j) \/ Before(j, i)
      /\ \A q \in 0..(n - 1) : \E i \in 0..(n - 1) : Rank(i) = q
  BY <1>1, Ranks, Zenon
<1>5. \A k \in 1..n : order'[k] \in 0..(n - 1) /\ Rank(order'[k]) = k - 1
  <2> SUFFICES ASSUME NEW k \in 1..n
               PROVE  order'[k] \in 0..(n - 1) /\ Rank(order'[k]) = k - 1
    OBVIOUS
  <2>1. \E i \in 0..(n - 1) : Rank(i) = k - 1
    BY <1>4
  <2>2. order'[k] = CHOOSE i \in 0..(n - 1) : Rank(i) = k - 1
    BY <1>3
  <2> QED
    BY <2>1, <2>2, Zenon
<1>6. order' \in [1..n -> 0..(n - 1)] /\ DOMAIN order' = 1..n /\ Len(order') = n
  BY <1>3, <1>5
<1>7. ASSUME NEW i \in 0..(n - 1) PROVE \E k \in 1..n : order'[k] = i
  <2>1. Rank(i) + 1 \in 1..n
    BY <1>4
  <2>2. Rank(order'[Rank(i) + 1]) = Rank(i) /\ order'[Rank(i) + 1] \in 0..(n - 1)
    BY <1>5, <1>4, <2>1
  <2>3. order'[Rank(i) + 1] = i
    <3>1. \A j \in 0..(n - 1) : j # i => Rank(j) # Rank(i)
      <4>1. \A j \in 0..(n - 1) : j # i => Rank(j) < Rank(i) \/ Rank(i) < Rank(j)
        BY <1>4, Zenon
      <4> QED
        BY <1>4, <4>1
    <3> QED
      BY <2>2, <3>1
  <2> QED
    BY <2>1, <2>3
<1>8. ASSUME NEW j \in 1..n, NEW k \in 1..n, j < k
      PROVE  Before(order'[j], order'[k])
  <2>1. /\ order'[j] \in 0..(n - 1) /\ Rank(order'[j]) = j - 1
        /\ order'[k] \in 0..(n - 1) /\ Rank(order'[k]) = k - 1
    BY <1>5
  <2>2. order'[j] # order'[k] /\ ~ (Rank(order'[k]) < Rank(order'[j]))
    BY <1>8, <2>1
  <2> QED
    BY <1>4, <2>1, <2>2, Zenon
<1>9. \A i \in 0..(n - 1) : Holders(i) = availability[i]
  BY <1>2 DEF OrderOK
<1>10. RarestFirst'
  <2>1. {order'[k] : k \in DOMAIN order'} = 0..(n - 1)
    BY <1>6, <1>7
  <2>2. ASSUME NEW j \in 1..n, NEW k \in 1..n, j < k
        PROVE  \/ Holders(order'[k]) = 0 /\ Holders(order'[j]) > 0
               \/ Holders(order'[j]) = Holders(order'[k]) /\ order'[j] < order'[k]
               \/ Holders(order'[j]) \in 1..(Holders(order'[k]) - 1)
    <3>1. Before(order'[j], order'[k])
      BY <1>8, <2>2
    <3>2. order'[j] \in 0..(n - 1) /\ order'[k] \in 0..(n - 1)
      BY <1>5
    <3>3. /\ availability[order'[j]] \in Nat /\ availability[order'[k]] \in Nat
          /\ Holders(order'[j]) = availability[order'[j]]
          /\ Holders(order'[k]) = availability[order'[k]]
      BY <1>1, <1>9, <3>2
    <3> QED
      BY <3>1, <3>2, <3>3 DEF Before
  <2>3. UNCHANGED <<owned, availability>>
    BY DEF Build
  <2> QED
    <3>1. /\ {order'[k] : k \in DOMAIN order'} = DOMAIN availability'
          /\ Len(order') = Cardinality(DOMAIN availability')
      BY <1>2, <1>6, <2>1, <2>3
    <3>2. \A j, k \in DOMAIN order' : j < k =>
            \/ Holders(order'[k]) = 0 /\ Holders(order'[j]) > 0
            \/ Holders(order'[j]) = Holders(order'[k]) /\ order'[j] < order'[k]
            \/ Holders(order'[j]) \in 1..(Holders(order'[k]) - 1)
      BY <1>6, <2>2
    <3>3. owned' = owned
      BY <2>3
    <3> QED
      BY <3>1, <3>2, <3>3, Zenon DEF RarestFirst, Holders
<1> QED
  BY <1>10 DEF OrderOK, Build, Holders

LEMMA OrderStep == ASSUME OrderOK, [OrderNext]_orderVars PROVE OrderOK'
<1>1. CASE UNCHANGED orderVars
  <2>1. UNCHANGED <<availability, order, owned>>
    BY <1>1 DEF orderVars
  <2>2. RarestFirst' = RarestFirst
    BY <2>1 DEF RarestFirst, Holders
  <2>3. \A i : Holders(i)' = Holders(i)
    BY <2>1 DEF Holders
  <2> QED
    BY <2>1, <2>2, <2>3 DEF OrderOK
<1> QED
  BY <1>1, ProbeStep, BuildStep DEF OrderNext

\* The queue starts with the pieces that fewest peers have, whatever the number of
\* pieces and of bytes of a bitfield, and whatever peers answer
\* (downloader.go:1683-1727).
THEOREM QueueIsRarestFirst == OrderSpec => []RarestFirst
<1>1. (\E n \in Nat : OrderInit(n)) => OrderOK
  BY OrderStart
<1>2. OrderOK /\ [OrderNext]_orderVars => OrderOK'
  BY OrderStep
<1>3. OrderOK => RarestFirst
  BY DEF OrderOK
<1> QED
  BY <1>1, <1>2, <1>3, PTL DEF OrderSpec
=============================================================================
