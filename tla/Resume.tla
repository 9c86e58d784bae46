------------------------------- MODULE Resume -------------------------------
(***************************************************************************)
(* The files of a download across runs of the program: the data file, the  *)
(* resume state file, the copies made for a multi-file torrent and the     *)
(* seed store (src/internal/downloader/downloader.go: OpenSeedStore,       *)
(* prepareOutputAndState, saveResumeState, loadResumeState,                *)
(* materializeMultiFile and the file operations of                         *)
(* DownloadTorrentWithOptions).                                            *)
(*                                                                         *)
(* A run opens the seed store, loads the state file, sizes the data file,  *)
(* verifies the pieces the state file claims, saves what is left of the    *)
(* claim, fetches the rest, saves and syncs, copies the files, removes the *)
(* state file and returns.  The process may be killed between any two      *)
(* steps, and the machine may lose power: then whatever was not synced may *)
(* be lost.  How pieces are fetched is the subject of Download: here a     *)
(* worker writes verified bytes and then marks the piece.                  *)
(***************************************************************************)
EXTENDS Naturals, FiniteSets

CONSTANTS
    Pieces,     \* the pieces of the torrent
    Files,      \* the files to copy out of the payload; {} for one file
    MaxFaults   \* bound: kills, power losses, failures and runs after success

ASSUME PiecesAssumption == Pieces # {}
ASSUME FaultsAssumption == MaxFaults \in Nat

VARIABLES
    \* on disk
    data,       \* what the data file holds of each piece
    size,       \* of the data file: "absent", "short", "full"
    synced,     \* the pieces file.Sync has made durable
    stateKind,  \* the state file: "absent", "garbage", "whole"
    claims,     \* the pieces a whole state file marks completed
    copies,     \* what each output file of a multi-file torrent holds
    \* in the process
    pc,         \* the main goroutine, "down" without a process
    completed,  \* completed[], changed and saved under stateMu
    writing,    \* pieces some worker is writing
    fetched,    \* whether this run had pieces left to fetch
    saver,      \* whether the goroutine of the state save ticker runs
    copied,     \* the files this run has begun to copy
    seed,       \* the pieces the seed store offers
    seedFrom,   \* why: "closed", "state" or, without a state file, "size"
    \* about the runs
    outcome,    \* how the last run ended, "none" while one is under way
    powerLost,  \* whether power has been lost so far
    faults

files == <<data, size, synced, stateKind, claims, copies>>
proc  == <<pc, completed, writing, fetched, saver, copied, seed, seedFrom>>
runs  == <<outcome, powerLost, faults>>
vars  == <<files, proc, runs>>

PieceStates == {"none", "torn", "good"}
CopyStates  == {"none", "torn", "bad", "copied"}
Locations   == {"down", "load", "open", "size", "verify", "persist", "fetch",
                "flush", "sync", "copy", "remove", "giveup", "done"}
\* "already" is the return with nothing left to fetch.
Outcomes    == {"none", "ok", "already", "failed"}

Good == {p \in Pieces : data[p] = "good"}

\* A first start: nothing on disk, or a shorter file of another origin.
Init ==
    /\ data = [p \in Pieces |-> "none"]
    /\ size \in {"absent", "short"}
    /\ synced = {}
    /\ stateKind = "absent"
    /\ claims = {}
    /\ copies = [f \in Files |-> "none"]
    /\ pc = "down"
    /\ completed = {}
    /\ writing = {}
    /\ fetched = FALSE
    /\ saver = FALSE
    /\ copied = {}
    /\ seed = {}
    /\ seedFrom = "closed"
    /\ outcome = "none"
    /\ powerLost = FALSE
    /\ faults = 0

Fault ==
    /\ faults < MaxFaults
    /\ faults' = faults + 1

-----------------------------------------------------------------------------
(* Start of a run *)

\* OpenSeedStore, called by main before the download: a data file of full size
\* is offered as far as the state file claims it, or whole when no state file
\* can be read.  The offer is not revised during the run.
OpenSeedStore ==
    /\ pc = "down"
    /\ IF outcome \in {"ok", "already"} THEN Fault ELSE UNCHANGED faults
    /\ outcome' = "none"
    /\ IF size # "full"
       THEN seed' = {} /\ seedFrom' = "closed"
       ELSE IF stateKind = "whole"
            THEN seed' = claims /\ seedFrom' = "state"
            ELSE seed' = Pieces /\ seedFrom' = "size"
    /\ pc' = "load"
    /\ UNCHANGED <<files, completed, writing, fetched, saver, copied, powerLost>>

\* loadResumeState: an absent or unreadable file claims nothing.
LoadIgnored ==   \* slip: the state file is not consulted
    /\ pc = "load"
    /\ completed' = {}
    /\ pc' = "open"
    /\ UNCHANGED <<files, writing, fetched, saver, copied, seed, seedFrom, runs>>
LoadState ==
    /\ pc = "load"
    /\ completed' = IF stateKind = "whole" THEN claims ELSE {}
    /\ pc' = "open"
    /\ UNCHANGED <<files, writing, fetched, saver, copied, seed, seedFrom, runs>>

OpenOutput ==
    /\ pc = "open"
    /\ size' = IF size = "absent" THEN "short" ELSE size
    /\ pc' = "size"
    /\ UNCHANGED <<data, synced, stateKind, claims, copies, completed, writing,
                   fetched, saver, copied, seed, seedFrom, runs>>

Truncate ==
    /\ pc = "size"
    /\ size' = "full"
    /\ pc' = "verify"
    /\ UNCHANGED <<data, synced, stateKind, claims, copies, completed, writing,
                   fetched, saver, copied, seed, seedFrom, runs>>

\* verifyPieceFromDisk of every claimed piece.
TrustClaims ==   \* slip: the claimed pieces are not read back
    /\ pc = "verify"
    /\ pc' = "persist"
    /\ UNCHANGED <<files, completed, writing, fetched, saver, copied, seed, seedFrom, runs>>
Verify ==
    /\ pc = "verify"
    /\ completed' = completed \cap Good
    /\ pc' = "persist"
    /\ UNCHANGED <<files, writing, fetched, saver, copied, seed, seedFrom, runs>>

\* saveResumeState: a temporary file renamed over the state file, so that a
\* kill finds the old file or the new one.
SaveResumeState ==
    /\ stateKind' = "whole"
    /\ claims' = completed
    /\ UNCHANGED <<data, size, synced, copies>>

\* prepareOutputAndState saves the verified claim.  With nothing left to fetch
\* the run goes straight to the copies, without sync.
Persist ==
    /\ pc = "persist"
    /\ SaveResumeState
    /\ pc' = IF completed = Pieces THEN "copy" ELSE "fetch"
    /\ fetched' = (completed # Pieces)
    /\ saver' = (completed # Pieces)
    /\ UNCHANGED <<completed, writing, copied, seed, seedFrom, runs>>

\* The data file cannot be opened or sized, or the state file not be written.
StartFails ==
    /\ pc \in {"open", "size", "persist"}
    /\ Fault
    /\ pc' = "done"
    /\ outcome' = "failed"
    /\ UNCHANGED <<files, completed, writing, fetched, saver, copied, seed,
                   seedFrom, powerLost>>

-----------------------------------------------------------------------------
(* Fetching *)

\* A verified piece is written in place.  Writing the bytes that are there
\* already changes nothing a reader can see.
BeginFresh(p) ==   \* slip: a piece once begun is taken for written
    /\ pc = "fetch"
    /\ p \in Pieces \ (completed \cup writing)
    /\ data[p] # "torn"
    /\ writing' = writing \cup {p}
    /\ data' = [data EXCEPT ![p] = IF @ = "good" THEN "good" ELSE "torn"]
    /\ UNCHANGED <<size, synced, stateKind, claims, copies, pc, completed,
                   fetched, saver, copied, seed, seedFrom, runs>>
BeginWrite(p) ==
    /\ pc = "fetch"
    /\ p \in Pieces \ (completed \cup writing)
    /\ writing' = writing \cup {p}
    /\ data' = [data EXCEPT ![p] = IF @ = "good" THEN "good" ELSE "torn"]
    /\ UNCHANGED <<size, synced, stateKind, claims, copies, pc, completed,
                   fetched, saver, copied, seed, seedFrom, runs>>

EndWrite(p) ==
    /\ p \in writing
    /\ data[p] # "good"
    /\ data' = [data EXCEPT ![p] = "good"]
    /\ UNCHANGED <<size, synced, stateKind, claims, copies, proc, runs>>

\* writePiece returns an error: the piece is put back or given up.
WriteFails(p) ==
    /\ p \in writing
    /\ Fault
    /\ writing' = writing \ {p}
    /\ UNCHANGED <<files, pc, completed, fetched, saver, copied, seed, seedFrom,
                   outcome, powerLost>>

\* The worker marks the piece after its write has returned.
MarkTorn(p) ==   \* slip: the piece is marked before its write has returned
    /\ p \in writing
    /\ completed' = completed \cup {p}
    /\ writing' = writing \ {p}
    /\ UNCHANGED <<files, pc, fetched, saver, copied, seed, seedFrom, runs>>
Mark(p) ==
    /\ p \in writing
    /\ data[p] = "good"
    /\ completed' = completed \cup {p}
    /\ writing' = writing \ {p}
    /\ UNCHANGED <<files, pc, fetched, saver, copied, seed, seedFrom, runs>>

\* The goroutine that saves every stateSaveInterval.
TickerSave ==
    /\ saver
    /\ SaveResumeState
    /\ UNCHANGED <<proc, runs>>

\* It ends some time after main has cancelled the context.  Nobody waits for
\* it: a tick may still be served after main has gone on.
TickerStops ==
    /\ saver
    /\ pc # "fetch"
    /\ saver' = FALSE
    /\ UNCHANGED <<files, pc, completed, writing, fetched, copied, seed,
                   seedFrom, runs>>

-----------------------------------------------------------------------------
(* End of a run *)

\* doneCh is closed and the workers have been joined.
AllDone ==
    /\ pc = "fetch"
    /\ completed = Pieces
    /\ writing = {}
    /\ pc' = "flush"
    /\ UNCHANGED <<files, completed, writing, fetched, saver, copied, seed,
                   seedFrom, runs>>

\* The deadline has passed and the workers have been joined.
GiveUp ==
    /\ pc = "fetch"
    /\ writing = {}
    /\ Fault
    /\ pc' = "giveup"
    /\ UNCHANGED <<files, completed, writing, fetched, saver, copied, seed,
                   seedFrom, outcome, powerLost>>

\* saveState, whose failure is only logged.
AfterFlush ==
    IF pc = "flush" THEN pc' = "sync" /\ UNCHANGED outcome
                    ELSE pc' = "done" /\ outcome' = "failed"

Flush ==
    /\ pc \in {"flush", "giveup"}
    /\ SaveResumeState
    /\ AfterFlush
    /\ UNCHANGED <<completed, writing, fetched, saver, copied, seed, seedFrom,
                   powerLost, faults>>

FlushFails ==
    /\ pc \in {"flush", "giveup"}
    /\ AfterFlush
    /\ Fault
    /\ UNCHANGED <<files, completed, writing, fetched, saver, copied, seed,
                   seedFrom, powerLost>>

SyncSkipped ==   \* slip: the call returns without sync
    /\ pc = "sync"
    /\ pc' = "copy"
    /\ UNCHANGED <<files, completed, writing, fetched, saver, copied, seed,
                   seedFrom, runs>>
Sync ==
    /\ pc = "sync"
    /\ synced' = Good
    /\ pc' = "copy"
    /\ UNCHANGED <<data, size, stateKind, claims, copies, completed, writing,
                   fetched, saver, copied, seed, seedFrom, runs>>

\* materializeMultiFile truncates and rewrites one file after the other.
Copying == {f \in copied : copies[f] = "torn"}

BeginCopy(f) ==
    /\ pc = "copy"
    /\ Copying = {}
    /\ f \in Files \ copied
    /\ copied' = copied \cup {f}
    /\ copies' = [copies EXCEPT ![f] = "torn"]
    /\ UNCHANGED <<data, size, synced, stateKind, claims, pc, completed, writing,
                   fetched, saver, seed, seedFrom, runs>>

EndCopy(f) ==
    /\ pc = "copy"
    /\ f \in Copying
    /\ copies' = [copies EXCEPT ![f] = IF Good = Pieces THEN "copied" ELSE "bad"]
    /\ UNCHANGED <<data, size, synced, stateKind, claims, proc, runs>>

\* An I/O error in Sync or in a copy is returned to main, which exits.
FinishFails ==
    /\ pc \in {"sync", "copy"}
    /\ Fault
    /\ pc' = "done"
    /\ outcome' = "failed"
    /\ UNCHANGED <<files, completed, writing, fetched, saver, copied, seed,
                   seedFrom, powerLost>>

RemoveEarly ==   \* slip: the state file goes before the copies are complete
    /\ pc = "copy"
    /\ pc' = "remove"
    /\ UNCHANGED <<files, completed, writing, fetched, saver, copied, seed,
                   seedFrom, runs>>
CopiesDone ==
    /\ pc = "copy"
    /\ copied = Files
    /\ Copying = {}
    /\ pc' = "remove"
    /\ UNCHANGED <<files, completed, writing, fetched, saver, copied, seed,
                   seedFrom, runs>>

\* os.Remove of the state file, which does not take stateMu; the call returns.
RemoveState ==
    /\ pc = "remove"
    /\ stateKind' = "absent"
    /\ claims' = {}
    /\ pc' = "done"
    /\ outcome' = IF fetched THEN "ok" ELSE "already"
    /\ UNCHANGED <<data, size, synced, copies, completed, writing, fetched, saver,
                   copied, seed, seedFrom, powerLost, faults>>

-----------------------------------------------------------------------------
(* The end of the process *)

Stop ==
    /\ pc' = "down"
    /\ completed' = {}
    /\ writing' = {}
    /\ fetched' = FALSE
    /\ saver' = FALSE
    /\ copied' = {}
    /\ seed' = {}
    /\ seedFrom' = "closed"

Exit ==
    /\ pc = "done"
    /\ Stop
    /\ UNCHANGED <<files, runs>>

Kill ==
    /\ pc # "down"
    /\ Fault
    /\ Stop
    /\ UNCHANGED <<files, outcome, powerLost>>

\* What was not synced may be lost: pieces, copies, and the content of a state
\* file that was renamed without a sync.
PowerLoss ==
    /\ Fault
    /\ powerLost' = TRUE
    /\ \E lost \in SUBSET (Pieces \ synced) :
          data' = [p \in Pieces |-> IF p \in lost THEN "none" ELSE data[p]]
    /\ \E lost \in SUBSET Files :
          copies' = [f \in Files |-> IF f \in lost THEN "none" ELSE copies[f]]
    /\ \/ UNCHANGED <<stateKind, claims>>
       \/ stateKind = "whole" /\ stateKind' = "garbage" /\ claims' = {}
    /\ Stop
    /\ UNCHANGED <<size, synced, outcome>>

\* The user leaves it at a run that succeeded.
Rest ==
    /\ pc = "down"
    /\ outcome \in {"ok", "already"}
    /\ UNCHANGED vars

Starting  == OpenSeedStore \/ LoadState \/ OpenOutput \/ Truncate \/ Verify
                \/ Persist
Fetching  == \E p \in Pieces : BeginWrite(p) \/ EndWrite(p) \/ Mark(p)
Saving    == TickerSave \/ TickerStops
Finishing == AllDone \/ Flush \/ Sync \/ CopiesDone \/ RemoveState \/ Exit
                \/ \E f \in Files : BeginCopy(f) \/ EndCopy(f)
Failing   == StartFails \/ GiveUp \/ FlushFails \/ FinishFails \/ Kill \/ PowerLoss
                \/ \E p \in Pieces : WriteFails(p)

Next == Starting \/ Fetching \/ Saving \/ Finishing \/ Failing \/ Rest

Spec == Init /\ [][Next]_vars

\* A started run goes on, and the user runs the command again after a run that
\* did not succeed ("Re-run the same command to resume").
FairSpec ==
    /\ Spec
    /\ WF_vars(Starting)
    /\ WF_vars(Finishing)
    /\ \A p \in Pieces : WF_vars(BeginWrite(p) \/ EndWrite(p) \/ Mark(p))

-----------------------------------------------------------------------------
(* Properties *)

Finished == outcome \in {"ok", "already"}

\* Where the main goroutine is once it has verified the claim.
Verified == {"persist", "fetch", "giveup", "flush", "sync", "copy", "remove"}

Flags == {fetched, saver, powerLost} \subseteq BOOLEAN

TypeOK ==
    /\ data \in [Pieces -> PieceStates]
    /\ size \in {"absent", "short", "full"}
    /\ synced \subseteq Pieces
    /\ stateKind \in {"absent", "garbage", "whole"}
    /\ claims \subseteq Pieces
    /\ copies \in [Files -> CopyStates]
    /\ pc \in Locations
    /\ completed \subseteq Pieces
    /\ writing \subseteq Pieces
    /\ copied \subseteq Files
    /\ seed \subseteq Pieces
    /\ seedFrom \in {"closed", "state", "size"}
    /\ outcome \in Outcomes
    /\ faults \in 0..MaxFaults
    /\ Flags

\* Once a run has verified the pieces it found claimed, every piece it counts
\* as completed has its bytes in the data file, whatever earlier runs, kills
\* and power losses have left there.
ClaimIsBacked ==
    pc \in Verified => completed \subseteq Good

\* As long as power was not lost, the state file never claims a piece that is
\* not whole in the data file, at whatever point earlier runs were killed.
StateFileBacked ==
    ~powerLost /\ stateKind = "whole" => claims \subseteq Good

\* What "Download complete" says of the data file stays true, also after a
\* later power loss: the pieces were synced before the call returned.
CompleteIsDurable == outcome = "ok" => Good = Pieces /\ synced = Pieces

\* A run that reported success has left the whole payload and every copy of
\* it, unless power was lost since: the copies are not synced, nor is the
\* data file of a run that found everything complete.
FinishedIsWhole ==
    Finished /\ ~powerLost =>
        /\ Good = Pieces
        /\ \A f \in Files : copies[f] = "copied"

\* The seed store, opened from the state file and never revised, offers only
\* pieces that are whole, also while the run rewrites the file.
SeedBacked == seedFrom = "state" /\ ~powerLost => seed \subseteq Good

\* A whole piece the state file claims stays claimed, whatever happens, until
\* a run that has made every copy removes the file or a power loss destroys
\* it: such a piece is not fetched twice.
ProgressKept ==
    [][ stateKind = "whole" =>
          \/ stateKind' = "whole" /\ (claims \cap Good) \subseteq claims'
          \/ ~Finished /\ Finished'
          \/ stateKind' = "garbage" ]_vars

\* When faults end, running the command again eventually succeeds, whatever
\* the interrupted runs left on disk.
RerunsFinish == <>Finished

\* The seed store offers a piece only if its bytes match its hash.  It fails:
\* a file of full size without a readable state file is offered whole.
SeedVerified == ~powerLost => seed \subseteq Good

=============================================================================
