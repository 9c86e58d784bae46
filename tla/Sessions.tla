------------------------------ MODULE Sessions ------------------------------
(***************************************************************************)
(* Peer sessions of the download engine: the peer pool (peerPool), the     *)
(* connector goroutines that open sessions ahead of time, the channel      *)
(* readySessions, and what a worker does with its session from one piece   *)
(* to the next (src/internal/downloader/downloader.go).                    *)
(*                                                                         *)
(* A connector acquires an available peer, connects to it and offers the   *)
(* session.  A worker that has taken a piece uses the session it holds, or *)
(* gives it back after MaxPerSession pieces and pulls another one.  It     *)
(* keeps its session while it waits for its next piece.                    *)
(*                                                                         *)
(* Download treats a session as something a worker eventually gets; this   *)
(* module is about where sessions come from, and keeps of a piece only     *)
(* whether it is queued, held by a worker or done.  The scores that rank   *)
(* peers are abstracted: any eligible peer may be acquired.  A peer rests  *)
(* after a failure (backoff or quarantine) until its timer runs out.       *)
(***************************************************************************)
EXTENDS Integers, FiniteSets

CONSTANTS
    Peers,              \* every peer that may ever be known
    Connectors,         \* the numConnectors goroutines
    Workers,            \* the numGoroutine workers
    Pieces,             \* the pieces still to fetch when the run starts
    PoolSize,           \* sessionPoolSize, the capacity of readySessions
    MaxPerSession,      \* maxPiecesPerSession
    MaxPieceAttempts,   \* maxPieceAttempts
    EndgameThreshold,   \* endgameThreshold
    NoPeer, NoPiece

ASSUME PeersAssumption     == IsFiniteSet(Peers) /\ NoPeer \notin Peers
ASSUME WorkersAssumption   == IsFiniteSet(Workers)
ASSUME PiecesAssumption    == IsFiniteSet(Pieces) /\ NoPiece \notin Pieces
ASSUME ThresholdAssumption == EndgameThreshold \in Nat
ASSUME LimitsAssumption    == {PoolSize, MaxPerSession, MaxPieceAttempts} \subseteq Nat \ {0}

VARIABLES
    \* peerPool, guarded by its mutex
    known,          \* the keys of peers
    available,      \* the peers no goroutine has acquired
    resting,        \* the peers in backoff or quarantine
    \* connector c
    cpc,            \* "acquire", "connect", "offer", "gone"
    cpeer,          \* the peer it has acquired
    \* sessions waiting in readySessions, by peer
    ready,
    \* worker w
    wpc,            \* "idle", "session", "fetch", "requeue", "gone"
    piece,          \* the piece it has taken
    attempt,        \* failed attempts at it
    conn,           \* the peer of its session
    served,         \* servedCnt of its session
    \* pieces
    queued,         \* on pieceQueue
    done,           \* completed in this run
    endgame,        \* endgameStarted
    ctxDone         \* the context has been cancelled

pool    == <<known, available, resting>>
conns   == <<cpc, cpeer, ready>>
workers == <<wpc, piece, attempt, conn, served>>
engine  == <<queued, done, endgame, ctxDone>>
vars    == <<pool, conns, workers, engine>>

Remaining == Pieces \ done

\* The peers the tracker and the DHT returned are in the pool before the
\* connectors start.
Init ==
    /\ known \in SUBSET Peers
    /\ known # {}
    /\ available = known
    /\ resting = {}
    /\ cpc = [c \in Connectors |-> "acquire"]
    /\ cpeer = [c \in Connectors |-> NoPeer]
    /\ ready = {}
    /\ wpc = [w \in Workers |-> "idle"]
    /\ piece = [w \in Workers |-> NoPiece]
    /\ attempt = [w \in Workers |-> 0]
    /\ conn = [w \in Workers |-> NoPeer]
    /\ served = [w \in Workers |-> 0]
    /\ queued = Pieces
    /\ done = {}
    /\ endgame = FALSE
    /\ ctxDone = FALSE

-----------------------------------------------------------------------------
(* The pool *)

\* peerPool.Add, called by the discovery loop and for peers received over PEX:
\* a known peer is left as it is.
AddAgain(p) ==   \* slip: a peer reported again becomes available again
    /\ ~ctxDone
    /\ known' = known \cup {p}
    /\ available' = available \cup {p}
    /\ UNCHANGED <<resting, conns, workers, engine>>
Add(p) ==
    /\ ~ctxDone
    /\ p \notin known
    /\ known' = known \cup {p}
    /\ available' = available \cup {p}
    /\ UNCHANGED <<resting, conns, workers, engine>>

\* The backoff and the quarantine of p run out.
Rested(p) ==
    /\ p \in resting
    /\ resting' = resting \ {p}
    /\ UNCHANGED <<known, available, conns, workers, engine>>

\* ReportFailureWith and Release of p.  A failure of class io does not make
\* the peer rest.
GiveBackFailed(p) ==
    /\ available' = available \cup {p}
    /\ resting' \in {resting, resting \cup {p}}
    /\ UNCHANGED known

\* Release of p.
GiveBack(p) ==
    /\ available' = available \cup {p}
    /\ UNCHANGED <<known, resting>>

-----------------------------------------------------------------------------
(* Connectors *)

Acquire(c) ==
    /\ cpc[c] = "acquire"
    /\ \E p \in available \ resting :
          /\ available' = available \ {p}
          /\ cpeer' = [cpeer EXCEPT ![c] = p]
    /\ cpc' = [cpc EXCEPT ![c] = "connect"]
    /\ UNCHANGED <<known, resting, ready, workers, engine>>

\* newPeerSession: connection, handshakes, bitfield, unchoke.
Connect(c) ==
    /\ cpc[c] = "connect"
    /\ cpc' = [cpc EXCEPT ![c] = "offer"]
    /\ UNCHANGED <<pool, cpeer, ready, workers, engine>>

ConnectFails(c) ==
    /\ cpc[c] = "connect"
    /\ GiveBackFailed(cpeer[c])
    /\ cpeer' = [cpeer EXCEPT ![c] = NoPeer]
    /\ cpc' = [cpc EXCEPT ![c] = "acquire"]
    /\ UNCHANGED <<ready, workers, engine>>

Offer(c) ==
    /\ cpc[c] = "offer"
    /\ Cardinality(ready) < PoolSize
    /\ ready' = ready \cup {cpeer[c]}
    /\ cpeer' = [cpeer EXCEPT ![c] = NoPeer]
    /\ cpc' = [cpc EXCEPT ![c] = "acquire"]
    /\ UNCHANGED <<pool, workers, engine>>

\* The two places where a connector watches the context.
StopAcquire(c) ==
    /\ ctxDone
    /\ cpc[c] = "acquire"
    /\ cpc' = [cpc EXCEPT ![c] = "gone"]
    /\ UNCHANGED <<pool, cpeer, ready, workers, engine>>

StopOffer(c) ==
    /\ ctxDone
    /\ cpc[c] = "offer"
    /\ GiveBack(cpeer[c])
    /\ cpeer' = [cpeer EXCEPT ![c] = NoPeer]
    /\ cpc' = [cpc EXCEPT ![c] = "gone"]
    /\ UNCHANGED <<ready, workers, engine>>

-----------------------------------------------------------------------------
(* Workers *)

\* A worker takes an index from pieceQueue and skips a completed piece.
Take(w) ==
    /\ wpc[w] = "idle"
    /\ \E p \in queued :
          /\ queued' = queued \ {p}
          /\ IF p \in done
             THEN UNCHANGED <<wpc, piece>>
             ELSE /\ wpc' = [wpc EXCEPT ![w] = "session"]
                  /\ piece' = [piece EXCEPT ![w] = p]
    /\ UNCHANGED <<pool, conns, attempt, conn, served, done, endgame, ctxDone>>

\* It goes on with the session it holds.
Reuse(w) ==
    /\ wpc[w] = "session"
    /\ conn[w] # NoPeer
    /\ served[w] < MaxPerSession
    /\ wpc' = [wpc EXCEPT ![w] = "fetch"]
    /\ UNCHANGED <<pool, conns, piece, attempt, conn, served, engine>>

\* It closes a session that has served its pieces.
SpendLost(w) ==   \* slip: the session is dropped without releasing its peer
    /\ wpc[w] = "session"
    /\ conn[w] # NoPeer
    /\ served[w] >= MaxPerSession
    /\ conn' = [conn EXCEPT ![w] = NoPeer]
    /\ served' = [served EXCEPT ![w] = 0]
    /\ UNCHANGED <<pool, conns, wpc, piece, attempt, engine>>
Spend(w) ==
    /\ wpc[w] = "session"
    /\ conn[w] # NoPeer
    /\ served[w] >= MaxPerSession
    /\ GiveBack(conn[w])
    /\ conn' = [conn EXCEPT ![w] = NoPeer]
    /\ served' = [served EXCEPT ![w] = 0]
    /\ UNCHANGED <<conns, wpc, piece, attempt, engine>>

Waiting(w) == wpc[w] = "session" /\ conn[w] = NoPeer

Pull(w) ==
    /\ Waiting(w)
    /\ \E p \in ready :
          /\ ready' = ready \ {p}
          /\ conn' = [conn EXCEPT ![w] = p]
    /\ wpc' = [wpc EXCEPT ![w] = "fetch"]
    /\ UNCHANGED <<pool, cpc, cpeer, piece, attempt, served, engine>>

\* The piece is fetched, written and marked, perhaps after another worker has
\* marked it.  Only the one that marks it looks whether the endgame begins.
DeliverLate(w) ==   \* slip: the piece is not yet counted
    /\ wpc[w] = "fetch"
    /\ done' = done \cup {piece[w]}
    /\ endgame' = \/ endgame
                  \/ /\ piece[w] \notin done
                     /\ Cardinality(Remaining) <= EndgameThreshold
    /\ served' = [served EXCEPT ![w] = @ + 1]
    /\ piece' = [piece EXCEPT ![w] = NoPiece]
    /\ attempt' = [attempt EXCEPT ![w] = 0]
    /\ wpc' = [wpc EXCEPT ![w] = "idle"]
    /\ UNCHANGED <<pool, conns, conn, queued, ctxDone>>
Deliver(w) ==
    /\ wpc[w] = "fetch"
    /\ done' = done \cup {piece[w]}
    /\ endgame' = \/ endgame
                  \/ /\ piece[w] \notin done
                     /\ Cardinality(Remaining \ {piece[w]}) <= EndgameThreshold
    /\ served' = [served EXCEPT ![w] = @ + 1]
    /\ piece' = [piece EXCEPT ![w] = NoPiece]
    /\ attempt' = [attempt EXCEPT ![w] = 0]
    /\ wpc' = [wpc EXCEPT ![w] = "idle"]
    /\ UNCHANGED <<pool, conns, conn, queued, ctxDone>>

\* Another worker has completed the piece: the fetch is given up, the session
\* kept, and the piece put back although it is done.
Cancelled(w) ==
    /\ wpc[w] = "fetch"
    /\ piece[w] \in done
    /\ wpc' = [wpc EXCEPT ![w] = "requeue"]
    /\ UNCHANGED <<pool, conns, piece, attempt, conn, served, engine>>

\* A failed attempt costs the session; after the last one the piece goes back.
FetchFails(w) ==
    /\ wpc[w] = "fetch"
    /\ GiveBackFailed(conn[w])
    /\ conn' = [conn EXCEPT ![w] = NoPeer]
    /\ served' = [served EXCEPT ![w] = 0]
    /\ attempt' = [attempt EXCEPT ![w] = @ + 1]
    /\ wpc' = [wpc EXCEPT ![w] = IF attempt[w] + 1 < MaxPieceAttempts
                                 THEN "session" ELSE "requeue"]
    /\ UNCHANGED <<conns, piece, engine>>

Requeue(w) ==
    /\ wpc[w] = "requeue"
    /\ queued' = queued \cup {piece[w]}
    /\ piece' = [piece EXCEPT ![w] = NoPiece]
    /\ attempt' = [attempt EXCEPT ![w] = 0]
    /\ wpc' = [wpc EXCEPT ![w] = "idle"]
    /\ UNCHANGED <<pool, conns, conn, served, done, endgame, ctxDone>>

\* A worker that sees the context cancelled returns; its deferred calls close
\* and release its session.
QuitIdle(w) ==   \* slip: a worker waiting for a session does not see the end
    /\ ctxDone
    /\ wpc[w] \in {"idle", "requeue"}
    /\ wpc' = [wpc EXCEPT ![w] = "gone"]
    /\ piece' = [piece EXCEPT ![w] = NoPiece]
    /\ attempt' = [attempt EXCEPT ![w] = 0]
    /\ IF conn[w] = NoPeer THEN UNCHANGED pool ELSE GiveBack(conn[w])
    /\ conn' = [conn EXCEPT ![w] = NoPeer]
    /\ served' = [served EXCEPT ![w] = 0]
    /\ UNCHANGED <<conns, engine>>
Quit(w) ==
    /\ ctxDone
    /\ wpc[w] \in {"idle", "requeue"} \/ Waiting(w)
    /\ wpc' = [wpc EXCEPT ![w] = "gone"]
    /\ piece' = [piece EXCEPT ![w] = NoPiece]
    /\ attempt' = [attempt EXCEPT ![w] = 0]
    /\ IF conn[w] = NoPeer THEN UNCHANGED pool ELSE GiveBack(conn[w])
    /\ conn' = [conn EXCEPT ![w] = NoPeer]
    /\ served' = [served EXCEPT ![w] = 0]
    /\ UNCHANGED <<conns, engine>>

-----------------------------------------------------------------------------
(* Endgame, the main goroutine *)

\* A tick of the injector puts every incomplete piece on the queue.
Inject ==
    /\ endgame
    /\ ~ctxDone
    /\ queued' = queued \cup Remaining
    /\ UNCHANGED <<pool, conns, workers, done, endgame, ctxDone>>

\* doneCh, or the deadline.
Cancel ==
    /\ ~ctxDone
    /\ ctxDone' = TRUE
    /\ UNCHANGED <<pool, conns, workers, queued, done, endgame>>

AllDone  == done = Pieces /\ Cancel
Deadline == Cancel

Ended == /\ \A c \in Connectors : cpc[c] = "gone"
         /\ \A w \in Workers : wpc[w] = "gone"

Rest == Ended /\ UNCHANGED vars

PoolStep == \E p \in Peers : Add(p) \/ Rested(p)
ConnectorStep(c) ==
    \/ Acquire(c) \/ Connect(c) \/ ConnectFails(c) \/ Offer(c)
    \/ StopAcquire(c) \/ StopOffer(c)
WorkerStep(w) ==
    \/ Take(w) \/ Reuse(w) \/ Spend(w) \/ Pull(w)
    \/ Deliver(w) \/ Cancelled(w) \/ FetchFails(w) \/ Requeue(w) \/ Quit(w)

Next ==
    \/ PoolStep
    \/ \E c \in Connectors : ConnectorStep(c)
    \/ \E w \in Workers : WorkerStep(w)
    \/ Inject \/ AllDone \/ Deadline
    \/ Rest

Spec == Init /\ [][Next]_vars

\* Goroutines are scheduled, timers run out, every peer connects and serves
\* again and again, and a channel serves its receivers in their order.
FairSpec ==
    /\ Spec
    /\ \A p \in Peers : WF_vars(Rested(p))
    /\ \A c \in Connectors :
          WF_vars(ConnectorStep(c)) /\ SF_vars(Connect(c)) /\ SF_vars(Acquire(c))
    /\ \A w \in Workers :
          /\ WF_vars(WorkerStep(w))
          /\ SF_vars(Pull(w))
          /\ SF_vars(Deliver(w))
    /\ WF_vars(Inject)
    /\ WF_vars(AllDone)

-----------------------------------------------------------------------------
(* Properties *)

Flags == {endgame, ctxDone} \subseteq BOOLEAN

TypeOK ==
    /\ known \subseteq Peers
    /\ available \subseteq known
    /\ resting \subseteq known
    /\ cpc \in [Connectors -> {"acquire", "connect", "offer", "gone"}]
    /\ cpeer \in [Connectors -> known \cup {NoPeer}]
    /\ ready \subseteq known
    /\ wpc \in [Workers -> {"idle", "session", "fetch", "requeue", "gone"}]
    /\ piece \in [Workers -> Pieces \cup {NoPiece}]
    /\ attempt \in [Workers -> 0..MaxPieceAttempts]
    /\ conn \in [Workers -> known \cup {NoPeer}]
    /\ served \in [Workers -> 0..MaxPerSession]
    /\ queued \subseteq Pieces
    /\ done \subseteq Pieces
    /\ Flags

\* Every known peer is in exactly one place: available in the pool, with one
\* connector, in readySessions or with one worker.  No peer is lost to the
\* pool, and none has two sessions.
Covered ==
    \A p \in known :
       \/ p \in available \cup ready
       \/ \E c \in Connectors : cpeer[c] = p
       \/ \E w \in Workers : conn[w] = p

Exclusive ==
    /\ available \cap ready = {}
    /\ \A c \in Connectors : cpeer[c] \notin available \cup ready
    /\ \A w \in Workers : conn[w] \notin available \cup ready
    /\ \A c \in Connectors, w \in Workers :
          cpeer[c] = conn[w] => cpeer[c] = NoPeer
    /\ \A c, d \in Connectors : c # d /\ cpeer[c] = cpeer[d] => cpeer[c] = NoPeer
    /\ \A v, w \in Workers : v # w /\ conn[v] = conn[w] => conn[v] = NoPeer

OneOwner == Covered /\ Exclusive

\* The sessions are all held by workers without a piece while a worker with a
\* piece waits for one, and nothing will hand a piece to the holders.
HoldAndWait ==
    /\ queued = {} /\ ~endgame
    /\ \E w \in Workers : Waiting(w)
    /\ \A p \in known : \E w \in Workers : wpc[w] = "idle" /\ conn[w] = p
    /\ \A w \in Workers : wpc[w] \in {"idle", "session"}

\* With enough peers the endgame begins early enough to bring the pieces of
\* the waiting workers to those that hold the sessions.
EnoughPeers == Cardinality(known) + EndgameThreshold >= Cardinality(Workers)

NoHoldAndWait == EnoughPeers => ~HoldAndWait

\* With enough peers, all of which serve again and again, every piece is
\* fetched, unless the context is cancelled.
AllFetched == EnoughPeers ~> (done = Pieces \/ ctxDone)

\* Once the context is cancelled every connector and worker ends.
ShutdownCompletes == ctxDone ~> Ended
=============================================================================
