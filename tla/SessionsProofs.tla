--------------------------- MODULE SessionsProofs ---------------------------
(* Proofs about Sessions, for any finite sets of peers, workers and pieces *)
(* and any limits.                                                         *)
EXTENDS Sessions, TLAPS, FiniteSetTheorems

-----------------------------------------------------------------------------
(* The inductive invariant *)

\* What the location of a connector or of a worker says of what it holds.
Holding ==
    /\ \A c \in Connectors :
          cpeer[c] # NoPeer <=> cpc[c] \in {"connect", "offer"}
    /\ \A w \in Workers :
          /\ wpc[w] = "fetch" => conn[w] # NoPeer /\ served[w] < MaxPerSession
          /\ conn[w] = NoPeer => served[w] = 0
          /\ piece[w] # NoPiece <=> wpc[w] \in {"session", "fetch", "requeue"}
          /\ wpc[w] = "gone" => conn[w] = NoPeer
          /\ wpc[w] \in {"session", "fetch"} => attempt[w] < MaxPieceAttempts
          /\ wpc[w] = "idle" => attempt[w] = 0

\* As long as no worker has returned, an incomplete piece is on the queue or
\* with a worker.
PiecesHeld ==
    (\A w \in Workers : wpc[w] # "gone") =>
        \A p \in Remaining : p \in queued \/ \E w \in Workers : piece[w] = p

\* A worker that has a session and no fetch to make has seen a piece done, and
\* the last piece to be done has been checked against the endgame threshold.
EndgameBegun ==
    /\ known # {}
    /\ \A w \in Workers :
          conn[w] # NoPeer /\ wpc[w] \in {"idle", "requeue"} => done # {}
    /\ done # {} => endgame \/ Cardinality(Remaining) > EndgameThreshold

IInv == TypeOK /\ Holding /\ OneOwner /\ PiecesHeld /\ EndgameBegun

LEMMA InitIInv == ASSUME Init PROVE IInv
<1>1. TypeOK
  <2>1. Flags
    BY Zenon DEF Init, Flags
  <2> QED
    BY <2>1, LimitsAssumption DEF Init, TypeOK
<1>2. Holding
  BY LimitsAssumption DEF Init, Holding
<1>3. OneOwner
  BY PeersAssumption DEF Init, OneOwner, Covered, Exclusive
<1>4. PiecesHeld /\ EndgameBegun
  BY DEF Init, PiecesHeld, EndgameBegun, Remaining
<1> QED
  BY <1>1, <1>2, <1>3, <1>4 DEF IInv

-----------------------------------------------------------------------------
(* The Boolean variables, apart from the rest *)

LEMMA FlagsStep == ASSUME Flags, [Next]_vars PROVE Flags'
<1> USE DEF Flags, pool, conns, workers, engine, vars
<1>1. ASSUME NEW w \in Workers, Deliver(w) PROVE Flags'
  BY <1>1, Zenon DEF Deliver
<1>2. CASE Cancel
  BY <1>2, Zenon DEF Cancel
<1>3. CASE PoolStep
  BY <1>3, Zenon DEF PoolStep, Add, Rested
<1>4. ASSUME NEW c \in Connectors, ConnectorStep(c) PROVE Flags'
  BY <1>4, Zenon DEF ConnectorStep, Acquire, Connect, ConnectFails, Offer, StopAcquire, StopOffer
<1>5. ASSUME NEW w \in Workers, WorkerStep(w), ~Deliver(w) PROVE Flags'
  BY <1>5, Zenon DEF WorkerStep, Take, Reuse, Spend, Pull, Cancelled, FetchFails,
     Requeue, Quit
<1>6. CASE Inject \/ Rest \/ UNCHANGED vars
  BY <1>6, Zenon DEF Inject, Rest
<1> QED
  BY <1>1, <1>2, <1>3, <1>4, <1>5, <1>6 DEF Next, AllDone, Deadline

-----------------------------------------------------------------------------
(* Steps *)

LEMMA PoolSteps == ASSUME IInv, PoolStep PROVE IInv'
<1> Flags'
  BY FlagsStep DEF Next, IInv, TypeOK
<1> USE PeersAssumption DEF IInv, TypeOK, Holding, OneOwner, Covered, Exclusive,
      PiecesHeld, EndgameBegun, Remaining, pool, conns, workers, engine
<1> PICK p \in Peers : Add(p) \/ Rested(p)
  BY DEF PoolStep
<1>1. CASE Add(p)
  BY <1>1 DEF Add
<1>2. CASE Rested(p)
  BY <1>2 DEF Rested
<1> QED
  BY <1>1, <1>2

LEMMA ConnectorSteps ==
  ASSUME IInv, NEW c \in Connectors, ConnectorStep(c) PROVE IInv'
<1> Flags'
  BY FlagsStep DEF Next, IInv, TypeOK
<1> USE PeersAssumption DEF IInv, TypeOK, Holding, OneOwner, Covered, Exclusive,
      PiecesHeld, EndgameBegun, Remaining, pool, conns, workers, engine
<1>1. CASE Acquire(c)
  BY <1>1 DEF Acquire
<1>2. CASE Connect(c)
  BY <1>2 DEF Connect
<1>3. CASE ConnectFails(c)
  BY <1>3 DEF ConnectFails, GiveBackFailed
<1>4. CASE Offer(c)
  BY <1>4 DEF Offer
<1>5. CASE StopAcquire(c)
  BY <1>5 DEF StopAcquire
<1>6. CASE StopOffer(c)
  BY <1>6 DEF StopOffer, GiveBack
<1> QED
  BY <1>1, <1>2, <1>3, <1>4, <1>5, <1>6 DEF ConnectorStep

LEMMA CardOfRest ==
  ASSUME NEW R \in SUBSET Pieces, NEW p
  PROVE  Cardinality(R \ {p}) \in Nat
<1>1. IsFiniteSet(R \ {p})
  BY PiecesAssumption, FS_Subset
<1> QED
  BY <1>1, FS_CardinalityType

LEMMA WorkerSteps ==
  ASSUME IInv, NEW w \in Workers, WorkerStep(w) PROVE IInv'
<1> Flags'
  BY FlagsStep DEF Next, IInv, TypeOK
<1> USE PeersAssumption, PiecesAssumption, LimitsAssumption
      DEF IInv, TypeOK, Holding, OneOwner, Covered, Exclusive,
      PiecesHeld, EndgameBegun, Remaining, pool, conns, workers, engine
<1>1. CASE Take(w)
  BY <1>1 DEF Take
<1>2. CASE Reuse(w)
  BY <1>2 DEF Reuse
<1>3. CASE Spend(w)
  BY <1>3 DEF Spend, GiveBack
<1>4. CASE Pull(w)
  BY <1>4 DEF Pull, Waiting
<1>5. CASE Deliver(w)
  <2>1. TypeOK'
    BY <1>5 DEF Deliver
  <2>2. Holding' /\ OneOwner'
    BY <1>5 DEF Deliver
  <2>3. PiecesHeld'
    BY <1>5 DEF Deliver
  <2>4. Remaining' = Remaining \ {piece[w]} /\ done' # {}
    BY <1>5 DEF Deliver
  <2>5. /\ endgame => endgame'
        /\ piece[w] \notin done /\ Cardinality(Remaining \ {piece[w]}) <= EndgameThreshold
             => endgame'
    BY <1>5, Zenon DEF Deliver
  <2>6. done' # {} => endgame' \/ Cardinality(Remaining') > EndgameThreshold
    <3>1. CASE piece[w] \in done
      <4>1. Remaining' = Remaining /\ done # {}
        BY <3>1, <2>4 DEF Remaining
      <4> QED
        BY <4>1, <2>5 DEF IInv, EndgameBegun
    <3>2. CASE piece[w] \notin done
      <4>1. Cardinality(Remaining \ {piece[w]}) \in Nat
        BY CardOfRest DEF Remaining
      <4> HIDE DEF Remaining
      <4> QED
        BY <2>4, <3>2, <2>5, <4>1, ThresholdAssumption
    <3> QED
      BY <3>1, <3>2
  <2>7. EndgameBegun'
    BY <2>4, <2>6, <1>5 DEF Deliver
  <2> QED
    BY <2>1, <2>2, <2>3, <2>7
<1>6. CASE Cancelled(w)
  BY <1>6 DEF Cancelled
<1>7. CASE FetchFails(w)
  BY <1>7 DEF FetchFails, GiveBackFailed
<1>8. CASE Requeue(w)
  BY <1>8 DEF Requeue
<1>9. CASE Quit(w)
  BY <1>9 DEF Quit, GiveBack, Waiting
<1> QED
  BY <1>1, <1>2, <1>3, <1>4, <1>5, <1>6, <1>7, <1>8, <1>9 DEF WorkerStep

LEMMA OtherSteps ==
  ASSUME IInv, Inject \/ Cancel \/ UNCHANGED vars PROVE IInv'
<1> Flags'
  BY FlagsStep DEF Next, Deadline, IInv, TypeOK
<1> USE DEF IInv, TypeOK, Holding, OneOwner, Covered, Exclusive,
      PiecesHeld, EndgameBegun, Remaining, pool, conns, workers, engine
<1>1. CASE Inject
  BY <1>1 DEF Inject
<1>2. CASE Cancel
  BY <1>2 DEF Cancel
<1>3. CASE UNCHANGED vars
  BY <1>3 DEF vars
<1> QED
  BY <1>1, <1>2, <1>3

-----------------------------------------------------------------------------
(* Theorems *)

\* The inductive invariant holds in every reachable state.
THEOREM Invariance == Spec => []IInv
<1>1. Init => IInv
  BY InitIInv
<1>2. IInv /\ [Next]_vars => IInv'
  BY PoolSteps, ConnectorSteps, WorkerSteps, OtherSteps
     DEF Next, AllDone, Deadline, Rest
<1> QED
  BY <1>1, <1>2, PTL DEF Spec

\* Every variable keeps to its type; a session never serves more than
\* maxPiecesPerSession pieces.
THEOREM TypeCorrect == Spec => []TypeOK
<1>1. IInv => TypeOK
  BY DEF IInv
<1> QED
  BY <1>1, Invariance, PTL

\* No peer is lost to the pool and none has two sessions.
THEOREM EveryPeerOwned == Spec => []OneOwner
<1>1. IInv => OneOwner
  BY DEF IInv
<1> QED
  BY <1>1, Invariance, PTL

\* Hold and wait takes more workers than there are peers and pieces below the
\* endgame threshold.
LEMMA EnoughPeersSuffice == ASSUME IInv, HoldAndWait PROVE ~EnoughPeers
<1> DEFINE Idle == {w \in Workers : wpc[w] = "idle" /\ conn[w] # NoPeer}
           Wait == {w \in Workers : wpc[w] = "session" /\ piece[w] \in Remaining}
           f == [w \in Idle |-> conn[w]]
           g == [w \in Wait |-> piece[w]]
<1>1. f \in Surjection(Idle, known)
  <2>1. \A p \in known : p # NoPeer
    BY PeersAssumption DEF IInv, TypeOK
  <2> QED
    BY <2>1 DEF Surjection, IInv, TypeOK, HoldAndWait
<1>2. g \in Surjection(Wait, Remaining)
  <2>1. \A p \in Remaining : \E w \in Workers : piece[w] = p
    BY DEF IInv, PiecesHeld, HoldAndWait
  <2>2. \A p \in Remaining : \E w \in Wait : piece[w] = p
    BY <2>1, PiecesAssumption DEF IInv, Holding, HoldAndWait, Remaining
  <2> QED
    BY <2>2 DEF Surjection
<1>3. /\ IsFiniteSet(Idle) /\ IsFiniteSet(Wait) /\ IsFiniteSet(Idle \cup Wait)
      /\ Idle \cap Wait = {}
      /\ Cardinality(Idle \cup Wait) <= Cardinality(Workers)
  <2>1. Idle \in SUBSET Workers /\ Wait \in SUBSET Workers
        /\ Idle \cup Wait \in SUBSET Workers /\ Idle \cap Wait = {}
    OBVIOUS
  <2> HIDE DEF Idle, Wait
  <2> QED
    BY <2>1, WorkersAssumption, FS_Subset
<1>4. /\ Cardinality(known) <= Cardinality(Idle)
      /\ Cardinality(Remaining) <= Cardinality(Wait)
  <2> HIDE DEF Idle, Wait, f, g
  <2> QED
    BY <1>1, <1>2, <1>3, FS_Surjection
<1>5. Cardinality(Idle \cup Wait) = Cardinality(Idle) + Cardinality(Wait)
  <2> HIDE DEF Idle, Wait
  <2>1. Cardinality(Idle \cap Wait) = 0
    BY <1>3, FS_EmptySet
  <2>2. Cardinality(Idle) \in Nat /\ Cardinality(Wait) \in Nat
    BY <1>3, FS_CardinalityType
  <2>3. Cardinality(Idle \cup Wait)
          = Cardinality(Idle) + Cardinality(Wait) - Cardinality(Idle \cap Wait)
    BY <1>3, FS_Union
  <2> QED
    BY <2>1, <2>2, <2>3
<1>6. Cardinality(Remaining) > EndgameThreshold
  BY PeersAssumption DEF IInv, TypeOK, EndgameBegun, HoldAndWait
<1>7. /\ Cardinality(known) \in Nat /\ Cardinality(Remaining) \in Nat
      /\ Cardinality(Idle) \in Nat /\ Cardinality(Wait) \in Nat
      /\ Cardinality(Workers) \in Nat
  <2>1. known \in SUBSET Peers /\ Remaining \in SUBSET Pieces
    BY DEF IInv, TypeOK, Remaining
  <2>2. IsFiniteSet(known) /\ IsFiniteSet(Remaining)
    BY <2>1, PeersAssumption, PiecesAssumption, FS_Subset
  <2> HIDE DEF Idle, Wait
  <2> QED
    BY <2>2, <1>3, WorkersAssumption, FS_CardinalityType
<1> HIDE DEF Idle, Wait
<1> QED
  BY <1>3, <1>4, <1>5, <1>6, <1>7, ThresholdAssumption DEF EnoughPeers

\* With at least numGoroutine - endgameThreshold peers the workers never come
\* to hold every session idle while pieces wait for one.
THEOREM TailNeedsFewPeers == Spec => []NoHoldAndWait
<1>1. IInv => NoHoldAndWait
  BY EnoughPeersSuffice DEF NoHoldAndWait
<1> QED
  BY <1>1, Invariance, PTL

=============================================================================
