------------------------------ MODULE Download ------------------------------
(***************************************************************************)
(* The download engine: DownloadTorrentWithOptions and its goroutines      *)
(* (src/internal/downloader/downloader.go).                                *)
(*                                                                         *)
(* Worker goroutines take piece indexes from the buffered channel          *)
(* pieceQueue, fetch a piece from one peer session, write it, and mark it  *)
(* in `completed' under stateMu.  The one that marks a piece first cancels *)
(* the other fetches of it over the completion bus and tells the wait      *)
(* group.  Near the end an injector goroutine puts every incomplete piece  *)
(* on the queue again at each tick (endgame).  The main goroutine waits    *)
(* for the wait group or for the 25 minute timer, cancels the context,     *)
(* joins the workers and returns.                                          *)
(*                                                                         *)
(* One action is one atomic step of one goroutine: a critical section, a   *)
(* channel operation, an atomic add, one I/O call.  Peers, sessions and    *)
(* the bytes of a piece are abstracted: a fetch delivers bytes that match  *)
(* the piece hash or bytes that do not.  Logging, statistics and the       *)
(* progress hook are left out; the resume file is the subject of Resume.   *)
(***************************************************************************)
EXTENDS Integers, Sequences, FiniteSets

CONSTANTS
    Workers,            \* the numGoroutine worker goroutines
    NumPieces,          \* len(torrent.Info.PieceHashes)
    MaxPieceAttempts,   \* maxPieceAttempts
    EndgameThreshold,   \* endgameThreshold
    MaxPanics           \* bound: how many fetches may panic

ASSUME WorkersAssumption   == IsFiniteSet(Workers)
ASSUME NumPiecesAssumption == NumPieces \in Nat \ {0}
ASSUME AttemptsAssumption  == MaxPieceAttempts \in Nat \ {0}
ASSUME EndgameAssumption   == EndgameThreshold \in Nat
ASSUME PanicsAssumption    == MaxPanics \in Nat

Pieces   == 1..NumPieces
NoPiece  == 0
QueueCap == 2 * NumPieces

\* What a worker is about to do; "gone" is a goroutine that has returned.
WorkerPcs == {"idle", "check", "subscribe", "session", "fetch", "write",
              "mark", "announce", "settle", "count", "requeue", "gone"}
MainPcs   == {"wait", "collect", "expired", "returned"}
Outcomes  == {"running", "ok", "ioerror", "incomplete", "timeout"}

VARIABLES
    \* shared by the goroutines of one call
    completed,      \* the pieces marked in completed[], guarded by stateMu
    queue,          \* pieceQueue, a channel of capacity QueueCap
    wg,             \* the counter of pieceWG
    count,          \* completedCount
    endgame,        \* endgameStarted
    ctxDone,        \* the context has been cancelled
    doneCh,         \* doneCh is closed
    disk,           \* the pieces whose bytes in the output file match their hash
    \* locals of worker w
    pc,             \* where it is
    piece,          \* pieceIdx
    attempt,        \* the attempts already failed for pieceIdx
    sess,           \* whether it holds a peer session
    intact,         \* whether the bytes it fetched match the piece hash
    cancelCh,       \* its channel on the bus: "none", "listening", "signalled"
    panics,         \* fetches that have panicked so far
    \* the injector and the main goroutine
    inject,         \* -1 no injector, 0 awaits its tick, k at piece k with stateMu
    mainPc,
    outcome         \* how the call returned

shared == <<completed, queue, wg, count, endgame, ctxDone, doneCh, disk>>
local  == <<pc, piece, attempt, sess, intact, cancelCh, panics>>
main   == <<inject, mainPc, outcome>>
vars   == <<shared, local, main>>

-----------------------------------------------------------------------------
(* Initial states *)

Incomplete == Pieces \ completed

\* The initial fill of the queue: the incomplete pieces in rarest-first order,
\* which depends on the peers' bitfields and so may be any order.
Orderings(S) ==
    {s \in [1..Cardinality(S) -> S] :
        \A p \in S : \E i \in 1..Cardinality(S) : s[i] = p}

\* prepareOutputAndState has verified the pieces it reports completed, and the
\* engine starts only when some piece remains.
Init ==
    /\ completed \in SUBSET Pieces
    /\ completed # Pieces
    /\ disk \in SUBSET Pieces
    /\ completed \subseteq disk
    /\ queue \in Orderings(Incomplete)
    /\ wg = Cardinality(Incomplete)
    /\ count = Cardinality(completed)
    /\ endgame = FALSE
    /\ ctxDone = FALSE
    /\ doneCh = FALSE
    /\ pc = [w \in Workers |-> "idle"]
    /\ piece = [w \in Workers |-> NoPiece]
    /\ attempt = [w \in Workers |-> 0]
    /\ sess = [w \in Workers |-> FALSE]
    /\ intact = [w \in Workers |-> FALSE]
    /\ cancelCh = [w \in Workers |-> "none"]
    /\ panics = 0
    /\ inject = -1
    /\ mainPc = "wait"
    /\ outcome = "running"

-----------------------------------------------------------------------------
(* Worker goroutines *)

\* stateMu is held across steps only by an injection in progress.
StateMuFree == inject <= 0

\* w leaves the piece it worked on.  A channel it leaves on the bus has no
\* reader any more.
Forget(w) ==
    /\ piece' = [piece EXCEPT ![w] = NoPiece]
    /\ attempt' = [attempt EXCEPT ![w] = 0]
    /\ intact' = [intact EXCEPT ![w] = FALSE]
    /\ cancelCh' = [cancelCh EXCEPT ![w] = "none"]

\* An attempt failed: the session is closed and released; the next attempt
\* follows, or the piece goes back to the queue after the last one.
AttemptFails(w) ==
    /\ sess' = [sess EXCEPT ![w] = FALSE]
    /\ intact' = [intact EXCEPT ![w] = FALSE]
    /\ attempt' = [attempt EXCEPT ![w] = @ + 1]
    /\ pc' = [pc EXCEPT ![w] = IF attempt'[w] < MaxPieceAttempts
                               THEN "session" ELSE "requeue"]
    /\ UNCHANGED <<shared, piece, cancelCh, panics, main>>

Take(w) ==
    /\ pc[w] = "idle"
    /\ queue # <<>>
    /\ piece' = [piece EXCEPT ![w] = Head(queue)]
    /\ queue' = Tail(queue)
    /\ pc' = [pc EXCEPT ![w] = "check"]
    /\ UNCHANGED <<completed, wg, count, endgame, ctxDone, doneCh, disk,
                   attempt, sess, intact, cancelCh, panics, main>>

\* select picks at random among the ready cases, so a worker may also keep
\* taking pieces after the context is done.
QuitIdle(w) ==
    /\ pc[w] = "idle"
    /\ ctxDone
    /\ pc' = [pc EXCEPT ![w] = "gone"]
    /\ sess' = [sess EXCEPT ![w] = FALSE]
    /\ UNCHANGED <<shared, piece, attempt, intact, cancelCh, panics, main>>

\* The read of completed[pieceIdx] under stateMu.
SkipCompleted(w) ==
    /\ pc[w] = "check"
    /\ StateMuFree
    /\ piece[w] \in completed
    /\ pc' = [pc EXCEPT ![w] = "idle"]
    /\ Forget(w)
    /\ UNCHANGED <<shared, sess, panics, main>>

FindIncomplete(w) ==
    /\ pc[w] = "check"
    /\ StateMuFree
    /\ piece[w] \notin completed
    /\ pc' = [pc EXCEPT ![w] = "subscribe"]
    /\ UNCHANGED <<shared, piece, attempt, sess, intact, cancelCh, panics, main>>

\* bus.subscribe, after stateMu has been released.
Subscribe(w) ==
    /\ pc[w] = "subscribe"
    /\ cancelCh' = [cancelCh EXCEPT ![w] = "listening"]
    /\ pc' = [pc EXCEPT ![w] = "session"]
    /\ UNCHANGED <<shared, piece, attempt, sess, intact, panics, main>>

\* The worker keeps its session or receives one from readySessions.
GetSession(w) ==
    /\ pc[w] = "session"
    /\ sess' = [sess EXCEPT ![w] = TRUE]
    /\ pc' = [pc EXCEPT ![w] = "fetch"]
    /\ UNCHANGED <<shared, piece, attempt, intact, cancelCh, panics, main>>

\* The context is done while the worker waits for a session; pieceIdx is not
\* put back.
QuitWaiting(w) ==
    /\ pc[w] = "session"
    /\ ~sess[w]
    /\ ctxDone
    /\ pc' = [pc EXCEPT ![w] = "gone"]
    /\ Forget(w)
    /\ UNCHANGED <<shared, sess, panics, main>>

\* The SHA-1 comparison at the end of a fetch.
HashUnchecked(good) == TRUE   \* slip: the comparison is forgotten
HashMatches(good) == good

FetchPiece(w) ==
    /\ pc[w] = "fetch"
    /\ \E good \in BOOLEAN :
          /\ HashMatches(good)
          /\ intact' = [intact EXCEPT ![w] = good]
    /\ pc' = [pc EXCEPT ![w] = "write"]
    /\ UNCHANGED <<shared, piece, attempt, sess, cancelCh, panics, main>>

\* The peer lacks the piece, chokes, goes silent, breaks the protocol, or the
\* hash does not match.
FetchRequeues(w) ==   \* slip: the piece goes back although w tries it again
    /\ pc[w] = "fetch"
    /\ Len(queue) < QueueCap
    /\ queue' = Append(queue, piece[w])
    /\ pc' = [pc EXCEPT ![w] = "session"]
    /\ UNCHANGED <<completed, wg, count, endgame, ctxDone, doneCh, disk, piece,
                   attempt, sess, intact, cancelCh, panics, main>>
FetchFails(w) ==
    /\ pc[w] = "fetch"
    /\ AttemptFails(w)

\* errPieceCancelledByOther leaves the attempt loop with ok still false.
FetchCancelled(w) ==
    /\ pc[w] = "fetch"
    /\ cancelCh[w] = "signalled"
    /\ cancelCh' = [cancelCh EXCEPT ![w] = "none"]
    /\ pc' = [pc EXCEPT ![w] = "requeue"]
    /\ UNCHANGED <<shared, piece, attempt, sess, intact, panics, main>>

\* A panic ends the goroutine (its deferred functions recover and release the
\* session); the piece it held is put back by nobody.
Panic(w) ==
    /\ pc[w] = "fetch"
    /\ panics < MaxPanics
    /\ panics' = panics + 1
    /\ pc' = [pc EXCEPT ![w] = "gone"]
    /\ sess' = [sess EXCEPT ![w] = FALSE]
    /\ cancelCh' = [cancelCh EXCEPT ![w] = "none"]
    /\ UNCHANGED <<shared, piece, attempt, intact, main>>

WritePiece(w) ==
    /\ pc[w] = "write"
    /\ disk' = IF intact[w] THEN disk \cup {piece[w]} ELSE disk \ {piece[w]}
    /\ pc' = [pc EXCEPT ![w] = "mark"]
    /\ UNCHANGED <<completed, queue, wg, count, endgame, ctxDone, doneCh,
                   piece, attempt, sess, intact, cancelCh, panics, main>>

\* A failed write may be partial, but it never spoils bytes already in place:
\* it writes the same ones.
WriteFails(w) ==
    /\ pc[w] = "write"
    /\ AttemptFails(w)

MarkUnchecked(w) ==   \* slip: completed[pieceIdx] is not read again
    /\ pc[w] = "mark"
    /\ StateMuFree
    /\ completed' = completed \cup {piece[w]}
    /\ pc' = [pc EXCEPT ![w] = "announce"]
    /\ UNCHANGED <<queue, wg, count, endgame, ctxDone, doneCh, disk, piece,
                   attempt, sess, intact, cancelCh, panics, main>>
Mark(w) ==
    /\ pc[w] = "mark"
    /\ StateMuFree
    /\ piece[w] \notin completed
    /\ completed' = completed \cup {piece[w]}
    /\ pc' = [pc EXCEPT ![w] = "announce"]
    /\ UNCHANGED <<queue, wg, count, endgame, ctxDone, doneCh, disk, piece,
                   attempt, sess, intact, cancelCh, panics, main>>

\* After a success the session is kept, unless servedCnt has reached
\* maxPiecesPerSession.
KeepOrSpendSession(w) == \E keep \in BOOLEAN : sess' = [sess EXCEPT ![w] = keep]

MarkedByOther(w) ==
    /\ pc[w] = "mark"
    /\ StateMuFree
    /\ piece[w] \in completed
    /\ pc' = [pc EXCEPT ![w] = "idle"]
    /\ KeepOrSpendSession(w)
    /\ Forget(w)
    /\ UNCHANGED <<shared, panics, main>>

\* bus.complete: the channels subscribed so far are signalled and forgotten.
Announce(w) ==
    /\ pc[w] = "announce"
    /\ cancelCh' = [v \in Workers |->
                      IF piece[v] = piece[w] /\ cancelCh[v] = "listening"
                      THEN "signalled" ELSE cancelCh[v]]
    /\ pc' = [pc EXCEPT ![w] = "settle"]
    /\ UNCHANGED <<shared, piece, attempt, sess, intact, panics, main>>

\* pieceWG.Done
Settle(w) ==
    /\ pc[w] = "settle"
    /\ wg' = wg - 1
    /\ pc' = [pc EXCEPT ![w] = "count"]
    /\ UNCHANGED <<completed, queue, count, endgame, ctxDone, doneCh, disk,
                   piece, attempt, sess, intact, cancelCh, panics, main>>

\* atomic.AddInt64(&completedCount, 1), then startEndgame when few remain: the
\* compare-and-swap starts one injector only.
Count(w) ==
    /\ pc[w] = "count"
    /\ count' = count + 1
    /\ IF NumPieces - count' <= EndgameThreshold /\ ~endgame
       THEN endgame' = TRUE /\ inject' = 0
       ELSE UNCHANGED <<endgame, inject>>
    /\ pc' = [pc EXCEPT ![w] = "idle"]
    /\ KeepOrSpendSession(w)
    /\ Forget(w)
    /\ UNCHANGED <<completed, queue, wg, ctxDone, doneCh, disk, panics,
                   mainPc, outcome>>

\* The blocking send of a piece that was not completed by this worker.
RequeueDropped(w) ==   \* slip: the worker moves on without the send
    /\ pc[w] = "requeue"
    /\ pc' = [pc EXCEPT ![w] = "idle"]
    /\ Forget(w)
    /\ UNCHANGED <<shared, sess, panics, main>>
Requeue(w) ==
    /\ pc[w] = "requeue"
    /\ Len(queue) < QueueCap
    /\ queue' = Append(queue, piece[w])
    /\ pc' = [pc EXCEPT ![w] = "idle"]
    /\ Forget(w)
    /\ UNCHANGED <<completed, wg, count, endgame, ctxDone, doneCh, disk, sess,
                   panics, main>>

\* The other case of that select.
NeverDropPiece(w) == FALSE   \* slip: the send has no ctx.Done case
DropPiece(w) ==
    /\ pc[w] = "requeue"
    /\ ctxDone
    /\ pc' = [pc EXCEPT ![w] = "idle"]
    /\ Forget(w)
    /\ UNCHANGED <<shared, sess, panics, main>>

-----------------------------------------------------------------------------
(* The endgame injector *)

\* A tick: the injector takes stateMu and visits every piece in turn.  Nothing
\* happens while it waits for a worker's short critical section.
InjectTick ==
    /\ inject = 0
    /\ inject' = 1
    /\ UNCHANGED <<shared, local, mainPc, outcome>>

\* A send that never blocks: with the queue full the piece is left out.
InjectBlindly ==   \* slip: the send does not look at the room left
    /\ inject \in Pieces
    /\ queue' = IF inject \in completed THEN queue ELSE Append(queue, inject)
    /\ inject' = IF inject = NumPieces THEN 0 ELSE inject + 1
    /\ UNCHANGED <<completed, wg, count, endgame, ctxDone, doneCh, disk, local,
                   mainPc, outcome>>
InjectPiece ==
    /\ inject \in Pieces
    /\ queue' = IF inject \notin completed /\ Len(queue) < QueueCap
                THEN Append(queue, inject) ELSE queue
    /\ inject' = IF inject = NumPieces THEN 0 ELSE inject + 1
    /\ UNCHANGED <<completed, wg, count, endgame, ctxDone, doneCh, disk, local,
                   mainPc, outcome>>

InjectStop ==
    /\ inject = 0
    /\ ctxDone
    /\ inject' = -1
    /\ UNCHANGED <<shared, local, mainPc, outcome>>

-----------------------------------------------------------------------------
(* The main goroutine *)

\* The goroutine that waits for pieceWG and closes doneCh.
WaitEarly ==   \* slip: the wait group was filled with one piece too few
    /\ ~doneCh
    /\ wg <= 1
    /\ doneCh' = TRUE
    /\ UNCHANGED <<completed, queue, wg, count, endgame, ctxDone, disk, local,
                   main>>
WaitPieces ==
    /\ ~doneCh
    /\ wg = 0
    /\ doneCh' = TRUE
    /\ UNCHANGED <<completed, queue, wg, count, endgame, ctxDone, disk, local,
                   main>>

SeeDone ==
    /\ mainPc = "wait"
    /\ doneCh
    /\ ctxDone' = TRUE
    /\ mainPc' = "collect"
    /\ UNCHANGED <<completed, queue, wg, count, endgame, doneCh, disk, local,
                   inject, outcome>>

\* time.After(25 minutes) fires; the select may choose it although doneCh is
\* closed as well.
Deadline ==
    /\ mainPc = "wait"
    /\ ctxDone' = TRUE
    /\ mainPc' = "expired"
    /\ UNCHANGED <<completed, queue, wg, count, endgame, doneCh, disk, local,
                   inject, outcome>>

\* workers.Wait
NotJoined == TRUE   \* slip: the main goroutine does not wait for the workers
Joined == \A w \in Workers : pc[w] = "gone"

\* saveState takes stateMu before the function returns.
ReturnTimeout ==
    /\ mainPc = "expired"
    /\ Joined
    /\ StateMuFree
    /\ mainPc' = "returned"
    /\ outcome' = "timeout"
    /\ UNCHANGED <<shared, local, inject>>

\* Sync, or the copy to the torrent's files, may fail.
ReturnFinished ==
    /\ mainPc = "collect"
    /\ Joined
    /\ StateMuFree
    /\ mainPc' = "returned"
    /\ outcome' \in IF completed = Pieces THEN {"ok", "ioerror"}
                                          ELSE {"incomplete"}
    /\ UNCHANGED <<shared, local, inject>>

Terminated ==
    /\ mainPc = "returned"
    /\ inject = -1
    /\ UNCHANGED vars

-----------------------------------------------------------------------------
(* The specification *)

WorkerStep(w) ==
    \/ Take(w) \/ QuitIdle(w)
    \/ SkipCompleted(w) \/ FindIncomplete(w) \/ Subscribe(w)
    \/ GetSession(w) \/ QuitWaiting(w)
    \/ FetchPiece(w) \/ FetchFails(w) \/ FetchCancelled(w) \/ Panic(w)
    \/ WritePiece(w) \/ WriteFails(w)
    \/ Mark(w) \/ MarkedByOther(w) \/ Announce(w) \/ Settle(w) \/ Count(w)
    \/ Requeue(w) \/ DropPiece(w)

InjectorStep == InjectTick \/ InjectPiece \/ InjectStop

MainStep == WaitPieces \/ SeeDone \/ Deadline \/ ReturnTimeout \/ ReturnFinished

Next ==
    \/ \E w \in Workers : WorkerStep(w)
    \/ InjectorStep
    \/ MainStep
    \/ Terminated

Spec == Init /\ [][Next]_vars

-----------------------------------------------------------------------------
(* Safety *)

\* The states have their types: in particular the wait group never goes below
\* zero, which would panic, and the queue never exceeds its capacity.
TypeOK ==
    /\ completed \in SUBSET Pieces
    /\ disk \in SUBSET Pieces
    /\ queue \in Seq(Pieces) /\ Len(queue) <= QueueCap
    /\ wg \in Nat
    /\ count \in Nat
    /\ endgame \in BOOLEAN /\ ctxDone \in BOOLEAN /\ doneCh \in BOOLEAN
    /\ pc \in [Workers -> WorkerPcs]
    /\ piece \in [Workers -> Pieces \cup {NoPiece}]
    /\ attempt \in [Workers -> 0..MaxPieceAttempts]
    /\ sess \in [Workers -> BOOLEAN]
    /\ intact \in [Workers -> BOOLEAN]
    /\ cancelCh \in [Workers -> {"none", "listening", "signalled"}]
    /\ panics \in 0..MaxPanics
    /\ inject \in -1..NumPieces
    /\ mainPc \in MainPcs
    /\ outcome \in Outcomes

\* The workers that have marked a piece and not yet told the wait group, and
\* those that have not yet counted it.
Unsettled == {w \in Workers : pc[w] \in {"announce", "settle"}}
Uncounted == {w \in Workers : pc[w] \in {"announce", "settle", "count"}}

\* Two fetches of the same piece may both succeed, but exactly one worker
\* accounts for it: the wait group and completedCount, updated outside the
\* lock, differ from `completed' by the workers on their way to update them.
AccountingExact ==
    /\ wg = Cardinality(Incomplete) + Cardinality(Unsettled)
    /\ count + Cardinality(Uncounted) = Cardinality(completed)

\* A piece is marked only with its verified bytes in the file, whatever other
\* workers write, fail to write or fetch at the same time.
CompletedIsOnDisk == completed \subseteq disk

\* What w is still responsible for.
Holds(w, p) ==
    /\ piece[w] = p
    /\ pc[w] \in {"check", "subscribe", "session", "fetch", "write", "mark",
                  "requeue"}
LostToPanic(p) == \E w \in Workers : pc[w] = "gone" /\ piece[w] = p
InQueue(p) == \E i \in 1..Len(queue) : queue[i] = p

\* While the download runs an incomplete piece is on the queue or in the hands
\* of a worker, or its worker has panicked: no early return, skip or failure
\* path forgets one.
IncompleteNotLost ==
    ~ctxDone => \A p \in Incomplete :
                   InQueue(p) \/ (\E w \in Workers : Holds(w, p)) \/ LostToPanic(p)

\* Until the injector starts there is one copy of a piece: in one place of the
\* queue or with one worker.  So no piece is fetched twice, and since the queue
\* then has room for every piece, no worker blocks when it puts one back.
SingleCopyBeforeEndgame ==
    ~endgame =>
       /\ \A i, j \in 1..Len(queue) : queue[i] = queue[j] => i = j
       /\ \A w \in Workers : \A p \in Pieces : Holds(w, p) => ~InQueue(p)
       /\ \A v, w \in Workers : \A p \in Pieces :
             Holds(v, p) /\ Holds(w, p) => v = w

\* Once the call has returned nothing touches the file it closes: every worker
\* is gone, and a success means that every piece is in the file and counted.
ReturnIsFinal ==
    mainPc = "returned" =>
       /\ \A w \in Workers : pc[w] = "gone"
       /\ count = Cardinality(completed)
       /\ outcome \in {"ok", "ioerror"} => disk = Pieces

\* The promise to the caller.
Promise == INSTANCE DownloadAbs WITH have <- completed, verdict <- outcome
KeepsPromise == Promise!Spec

-----------------------------------------------------------------------------
(* Liveness *)

\* Every worker waits for a full queue to drain, and none is left to drain it.
Stalled ==
    /\ \A w \in Workers : pc[w] \in {"requeue", "gone"}
    /\ \E w \in Workers : pc[w] = "requeue"
    /\ Len(queue) = QueueCap

\* The steps that need stateMu; Go's mutex does not starve its waiters.
LockedStep(w) ==
    SkipCompleted(w) \/ FindIncomplete(w) \/ Mark(w) \/ MarkedByOther(w)

\* The scheduler runs every goroutine, and the reads of a session set-up and of
\* a fetch have deadlines, so both end.  Fetching again and again meets a peer
\* that serves the piece, and writing again and again succeeds.  Only the timer
\* is left out: the 25 minutes may lie beyond the behaviour.
Fairness ==
    /\ \A w \in Workers : WF_vars(WorkerStep(w))
    /\ SF_vars(\E w \in Workers : LockedStep(w))
    /\ SF_vars(\E w \in Workers : FetchPiece(w))
    /\ SF_vars(\E w \in Workers : WritePiece(w))
    /\ WF_vars(InjectTick) /\ WF_vars(InjectPiece)
    /\ SF_vars(InjectStop)
    /\ WF_vars(WaitPieces \/ SeeDone \/ ReturnTimeout \/ ReturnFinished)

FairSpec == Spec /\ Fairness

\* A worker panicked and took its piece along, and no injector runs that would
\* put it back.
PieceTakenAlong == panics > 0 /\ ~endgame

\* Before the deadline the engine completes every piece, unless every worker is
\* stalled on a full queue, or a panic came before the endgame: nothing else can
\* stop it.  After the endgame began a piece survives the worker that held it.
CompletesUnlessStalled ==
    <>(completed = Pieces \/ ctxDone \/ Stalled \/ PieceTakenAlong)

\* After the context is cancelled the call returns.
CancelReturns == ctxDone ~> mainPc = "returned"

-----------------------------------------------------------------------------
(* What comments and docs say and the code does not do *)

\* docs/EXECUTION.md:158 "Piece is re-queued automatically": some worker is
\* left to make room for the pieces to be put back.
RequeueGoesThrough == ~Stalled \/ ctxDone
=============================================================================
