--------------------------- MODULE DownloadProofs ---------------------------
(***************************************************************************)
(* Theorems about Download, for every number of workers, pieces, attempts  *)
(* and panics.                                                             *)
(*                                                                         *)
(* The inductive invariant IndInv adds to TypeOK and AccountingExact what  *)
(* a worker knows at each program location (LocalShape) and what the main  *)
(* goroutine's progress implies (MainShape).                               *)
(***************************************************************************)
EXTENDS Download, FiniteSetTheorems, SequenceTheorems, TLAPS

\* What holds of a worker's locals at its program locations.
LocalShape ==
    \A w \in Workers :
       /\ pc[w] \notin {"idle", "gone"} => piece[w] \in Pieces
       /\ pc[w] \in {"idle", "check", "subscribe", "session", "fetch", "write"}
             => attempt[w] < MaxPieceAttempts
       /\ pc[w] \in {"write", "mark"} => intact[w]
       /\ pc[w] = "mark" => piece[w] \in disk

\* What the progress of the main goroutine says about the workers.
MainShape ==
    /\ doneCh => completed = Pieces /\ Unsettled = {}
    /\ mainPc = "collect" => doneCh
    /\ mainPc = "returned" => \A w \in Workers : pc[w] = "gone"
    /\ (outcome = "running") <=> (mainPc # "returned")
    /\ outcome \in {"ok", "ioerror"} => completed = Pieces
    /\ outcome # "incomplete"

IndInv ==
    /\ TypeOK
    /\ LocalShape
    /\ AccountingExact
    /\ CompletedIsOnDisk
    /\ MainShape

USE DEF Pieces, NoPiece, QueueCap, StateMuFree, vars, shared, local, main

-----------------------------------------------------------------------------
(* Finite sets *)

LEMMA PiecesFinite ==
  /\ IsFiniteSet(Pieces)
  /\ Cardinality(Pieces) = NumPieces
<1>1. 1 \in Int /\ NumPieces \in Int
  BY NumPiecesAssumption
<1> QED
  BY <1>1, FS_Interval, NumPiecesAssumption

\* Every set the accounting counts is finite.
LEMMA CountedFinite ==
  ASSUME TypeOK
  PROVE  /\ IsFiniteSet(completed) /\ Cardinality(completed) \in Nat
         /\ IsFiniteSet(Incomplete) /\ Cardinality(Incomplete) \in Nat
         /\ IsFiniteSet(Unsettled) /\ Cardinality(Unsettled) \in Nat
         /\ IsFiniteSet(Uncounted) /\ Cardinality(Uncounted) \in Nat
<1>1. /\ completed \in SUBSET Pieces
      /\ Incomplete \in SUBSET Pieces
      /\ Unsettled \in SUBSET Workers
      /\ Uncounted \in SUBSET Workers
  BY DEF TypeOK, Incomplete, Unsettled, Uncounted
<1>2. /\ IsFiniteSet(completed) /\ IsFiniteSet(Incomplete)
      /\ IsFiniteSet(Unsettled) /\ IsFiniteSet(Uncounted)
  BY <1>1, PiecesFinite, WorkersAssumption, FS_Subset
<1> QED
  BY <1>2, FS_CardinalityType

-----------------------------------------------------------------------------
(* The initial states *)

\* The initial queue holds each incomplete piece once.
LEMMA OrderingFacts ==
  ASSUME NEW S \in SUBSET Pieces, NEW q \in Orderings(S)
  PROVE  /\ q \in Seq(Pieces)
         /\ Len(q) = Cardinality(S) /\ Len(q) <= NumPieces
         /\ \A p \in S : \E i \in 1..Len(q) : q[i] = p
         /\ \A i, j \in 1..Len(q) : q[i] = q[j] => i = j
<1>1. /\ IsFiniteSet(S)
      /\ Cardinality(S) \in Nat
      /\ Cardinality(S) <= NumPieces
  BY PiecesFinite, FS_Subset, FS_CardinalityType
<1>2. q \in [1..Cardinality(S) -> S]
  BY DEF Orderings
<1>3. q \in Seq(S) /\ q \in Seq(Pieces) /\ Len(q) = Cardinality(S)
  <2>1. q \in [1..Cardinality(S) -> Pieces]
    BY <1>2
  <2>2. q \in Seq(S) /\ q \in Seq(Pieces)
    BY <1>1, <1>2, <2>1, SeqDef
  <2>3. DOMAIN q = 1..Len(q) /\ Len(q) \in Nat
    BY <2>2, LenProperties
  <2>4. DOMAIN q = 1..Cardinality(S)
    BY <1>2
  <2> QED
    BY <1>1, <2>2, <2>3, <2>4
<1>4. \A p \in S : \E i \in 1..Len(q) : q[i] = p
  BY <1>3 DEF Orderings
<1>5. q \in Surjection(1..Cardinality(S), S)
  BY <1>2, <1>3, <1>4 DEF Surjection
<1>6. /\ IsFiniteSet(1..Cardinality(S))
      /\ Cardinality(1..Cardinality(S)) = Cardinality(S)
  BY <1>1, FS_Interval
<1>7. q \in Injection(1..Cardinality(S), S)
  BY <1>5, <1>6, FS_SurjSameCardinalityImpliesInj
<1>8. \A i, j \in 1..Len(q) : q[i] = q[j] => i = j
  BY <1>7, <1>3 DEF Injection, IsInjective
<1> QED
  BY <1>1, <1>3, <1>4, <1>8

LEMMA InitIndInv == Init => IndInv
<1> SUFFICES ASSUME Init PROVE IndInv
  OBVIOUS
<1>1. Incomplete \in SUBSET Pieces /\ completed \in SUBSET Pieces
  BY DEF Init, Incomplete
<1>2. queue \in Seq(Pieces) /\ Len(queue) <= QueueCap
  BY <1>1, OrderingFacts, NumPiecesAssumption DEF Init
<1>3. /\ Cardinality(Incomplete) \in Nat
      /\ Cardinality(completed) \in Nat
  BY <1>1, PiecesFinite, FS_Subset, FS_CardinalityType
<1>4. TypeOK
  <2>1. /\ attempt \in [Workers -> 0..MaxPieceAttempts]
        /\ panics \in 0..MaxPanics
        /\ inject \in -1..NumPieces
    BY NumPiecesAssumption, AttemptsAssumption, PanicsAssumption DEF Init
  <2> QED
    BY <1>2, <1>3, <2>1 DEF Init, TypeOK, WorkerPcs, MainPcs, Outcomes
<1>5. LocalShape
  BY AttemptsAssumption DEF Init, LocalShape
<1>6. Unsettled = {} /\ Uncounted = {}
  BY DEF Init, Unsettled, Uncounted
<1>7. AccountingExact
  BY <1>3, <1>6, FS_EmptySet DEF Init, AccountingExact
<1>8. CompletedIsOnDisk /\ MainShape
  BY DEF Init, CompletedIsOnDisk, MainShape
<1> QED
  BY <1>4, <1>5, <1>7, <1>8 DEF IndInv

-----------------------------------------------------------------------------
(* The accounting *)

\* A step that leaves `completed' and both counters alone, and moves no worker
\* into or out of the accounting locations.
LEMMA QuietStep ==
  ASSUME AccountingExact,
         UNCHANGED <<completed, wg, count>>,
         Unsettled' = Unsettled, Uncounted' = Uncounted
  PROVE  AccountingExact'
BY DEF AccountingExact, Incomplete

LEMMA AccountingStep ==
  ASSUME TypeOK, LocalShape, AccountingExact, [Next]_vars
  PROVE  AccountingExact'
<1>1. ASSUME NEW w \in Workers, Mark(w)
      PROVE  AccountingExact'
  <2>1. piece[w] \in Incomplete /\ Incomplete' = Incomplete \ {piece[w]}
    BY <1>1 DEF Mark, LocalShape, Incomplete
  <2>2. completed' = completed \cup {piece[w]} /\ piece[w] \notin completed
    BY <1>1 DEF Mark
  <2>3. /\ w \notin Unsettled /\ Unsettled' = Unsettled \cup {w}
        /\ w \notin Uncounted /\ Uncounted' = Uncounted \cup {w}
    BY <1>1 DEF Mark, TypeOK, Unsettled, Uncounted
  <2>4. /\ Cardinality(Incomplete') = Cardinality(Incomplete) - 1
        /\ Cardinality(completed') = Cardinality(completed) + 1
        /\ Cardinality(Unsettled') = Cardinality(Unsettled) + 1
        /\ Cardinality(Uncounted') = Cardinality(Uncounted) + 1
    BY <2>1, <2>2, <2>3, CountedFinite, FS_AddElement, FS_RemoveElement
  <2>5. wg' = wg /\ count' = count /\ wg \in Nat /\ count \in Nat
    BY <1>1 DEF Mark, TypeOK
  <2> QED
    BY <2>4, <2>5, CountedFinite DEF AccountingExact
<1>2. ASSUME NEW w \in Workers, Settle(w)
      PROVE  AccountingExact'
  <2>1. /\ w \in Unsettled /\ Unsettled' = Unsettled \ {w}
        /\ Uncounted' = Uncounted
    BY <1>2 DEF Settle, TypeOK, Unsettled, Uncounted
  <2>2. Cardinality(Unsettled') = Cardinality(Unsettled) - 1
    BY <2>1, CountedFinite, FS_RemoveElement
  <2>3. /\ wg' = wg - 1 /\ wg \in Nat
        /\ count' = count /\ completed' = completed /\ Incomplete' = Incomplete
    BY <1>2 DEF Settle, TypeOK, Incomplete
  <2> QED
    BY <2>1, <2>2, <2>3, CountedFinite DEF AccountingExact
<1>3. ASSUME NEW w \in Workers, Count(w)
      PROVE  AccountingExact'
  <2>1. /\ w \in Uncounted /\ Uncounted' = Uncounted \ {w}
        /\ Unsettled' = Unsettled
    BY <1>3 DEF Count, TypeOK, Unsettled, Uncounted
  <2>2. Cardinality(Uncounted') = Cardinality(Uncounted) - 1
    BY <2>1, CountedFinite, FS_RemoveElement
  <2>3. /\ count' = count + 1 /\ count \in Nat
        /\ wg' = wg /\ completed' = completed /\ Incomplete' = Incomplete
    BY <1>3 DEF Count, TypeOK, Incomplete
  <2> QED
    BY <2>1, <2>2, <2>3, CountedFinite DEF AccountingExact
<1>4. ASSUME NEW w \in Workers, Announce(w)
      PROVE  AccountingExact'
  <2>1. Unsettled' = Unsettled /\ Uncounted' = Uncounted
    BY <1>4 DEF Announce, TypeOK, Unsettled, Uncounted
  <2> QED
    BY <1>4, <2>1, QuietStep DEF Announce
<1>5. ASSUME NEW w \in Workers,
             \/ Take(w) \/ QuitIdle(w) \/ SkipCompleted(w) \/ FindIncomplete(w)
             \/ Subscribe(w) \/ GetSession(w) \/ QuitWaiting(w)
      PROVE  AccountingExact'
  <2>1. Unsettled' = Unsettled /\ Uncounted' = Uncounted
    BY <1>5 DEF TypeOK, Unsettled, Uncounted, Take, QuitIdle, SkipCompleted,
                FindIncomplete, Subscribe, GetSession, QuitWaiting
  <2> QED
    BY <1>5, <2>1, QuietStep
       DEF Take, QuitIdle, SkipCompleted, FindIncomplete, Subscribe,
           GetSession, QuitWaiting
<1>6. ASSUME NEW w \in Workers,
             \/ FetchPiece(w) \/ FetchFails(w) \/ FetchCancelled(w) \/ Panic(w)
             \/ WritePiece(w) \/ WriteFails(w)
      PROVE  AccountingExact'
  <2>1. Unsettled' = Unsettled /\ Uncounted' = Uncounted
    BY <1>6 DEF TypeOK, Unsettled, Uncounted, FetchPiece, FetchFails,
                FetchCancelled, Panic, WritePiece, WriteFails, AttemptFails
  <2> QED
    BY <1>6, <2>1, QuietStep
       DEF FetchPiece, FetchFails, FetchCancelled, Panic, WritePiece,
           WriteFails, AttemptFails
<1>7. ASSUME NEW w \in Workers, MarkedByOther(w) \/ Requeue(w) \/ DropPiece(w)
      PROVE  AccountingExact'
  <2>1. Unsettled' = Unsettled /\ Uncounted' = Uncounted
    BY <1>7 DEF TypeOK, Unsettled, Uncounted, MarkedByOther, Requeue, DropPiece
  <2> QED
    BY <1>7, <2>1, QuietStep DEF MarkedByOther, Requeue, DropPiece
<1>8. ASSUME InjectorStep \/ MainStep \/ Terminated \/ UNCHANGED vars
      PROVE  AccountingExact'
  <2>1. UNCHANGED <<completed, wg, count, pc>>
    BY <1>8 DEF InjectorStep, InjectTick, InjectPiece, InjectStop, MainStep,
                WaitPieces, SeeDone, Deadline, ReturnTimeout, ReturnFinished,
                Terminated
  <2>2. Unsettled' = Unsettled /\ Uncounted' = Uncounted
    BY <2>1 DEF Unsettled, Uncounted
  <2> QED
    BY <2>1, <2>2, QuietStep
<1> QED
  BY <1>1, <1>2, <1>3, <1>4, <1>5, <1>6, <1>7, <1>8 DEF Next, WorkerStep

-----------------------------------------------------------------------------
(* The types *)

\* Channel operations keep the queue a sequence of pieces.
LEMMA QueueSteps ==
  ASSUME NEW q \in Seq(Pieces)
  PROVE  /\ Len(q) \in Nat
         /\ q # <<>> => /\ Head(q) \in Pieces
                        /\ Tail(q) \in Seq(Pieces)
                        /\ Len(Tail(q)) = Len(q) - 1
                        /\ \A i \in 1..Len(Tail(q)) : Tail(q)[i] = q[i + 1]
                        /\ Head(q) = q[1]
         /\ \A p \in Pieces :
               /\ Append(q, p) \in Seq(Pieces)
               /\ Len(Append(q, p)) = Len(q) + 1
               /\ \A i \in 1..Len(q) : Append(q, p)[i] = q[i]
               /\ Append(q, p)[Len(q) + 1] = p
<1>1. Len(q) \in Nat /\ q \in [1..Len(q) -> Pieces]
  BY LenProperties
<1>2. ASSUME q # <<>>
      PROVE  /\ Head(q) \in Pieces
             /\ Tail(q) \in Seq(Pieces)
             /\ Len(Tail(q)) = Len(q) - 1
             /\ \A i \in 1..Len(Tail(q)) : Tail(q)[i] = q[i + 1]
  BY <1>2, HeadTailProperties
<1>3. Head(q) = q[1]
  OBVIOUS
<1>4. ASSUME NEW p \in Pieces
      PROVE  /\ Append(q, p) \in Seq(Pieces)
             /\ Len(Append(q, p)) = Len(q) + 1
             /\ \A i \in 1..Len(q) : Append(q, p)[i] = q[i]
             /\ Append(q, p)[Len(q) + 1] = p
  BY <1>4, AppendProperties
<1> QED
  BY <1>1, <1>2, <1>3, <1>4

\* The wait group is positive when a worker is about to lower it.
LEMMA SettlePositive ==
  ASSUME TypeOK, AccountingExact, NEW w \in Workers, Settle(w)
  PROVE  wg - 1 \in Nat
<1>1. Unsettled # {}
  BY DEF Settle, Unsettled
<1>2. Cardinality(Unsettled) # 0
  BY <1>1, CountedFinite, FS_EmptySet
<1> QED
  BY <1>2, CountedFinite DEF AccountingExact

\* The locals of a worker that leaves its piece.
LEMMA ForgetTypes ==
  ASSUME TypeOK, NEW w \in Workers, Forget(w)
  PROVE  /\ piece' \in [Workers -> Pieces \cup {NoPiece}]
         /\ attempt' \in [Workers -> 0..MaxPieceAttempts]
         /\ intact' \in [Workers -> BOOLEAN]
         /\ cancelCh' \in [Workers -> {"none", "listening", "signalled"}]
BY AttemptsAssumption DEF TypeOK, Forget

LEMMA TypeStep ==
  ASSUME TypeOK, LocalShape, AccountingExact, [Next]_vars
  PROVE  TypeOK'
<1> USE DEF TypeOK, WorkerPcs, MainPcs, Outcomes
<1>1. ASSUME NEW w \in Workers,
             \/ Take(w) \/ QuitIdle(w) \/ SkipCompleted(w) \/ FindIncomplete(w)
             \/ Subscribe(w) \/ GetSession(w) \/ QuitWaiting(w)
      PROVE  TypeOK'
  <2>1. CASE Take(w)
    <3>1. /\ queue' \in Seq(Pieces) /\ Len(queue') <= QueueCap
          /\ Head(queue) \in Pieces
      BY <2>1, QueueSteps, NumPiecesAssumption DEF Take
    <3> QED
      BY <2>1, <3>1 DEF Take
  <2>2. CASE QuitIdle(w) \/ FindIncomplete(w) \/ Subscribe(w) \/ GetSession(w)
    BY <2>2 DEF QuitIdle, FindIncomplete, Subscribe, GetSession
  <2>3. CASE SkipCompleted(w) \/ QuitWaiting(w)
    BY <2>3, ForgetTypes DEF SkipCompleted, QuitWaiting
  <2> QED
    BY <1>1, <2>1, <2>2, <2>3
<1>2. ASSUME NEW w \in Workers,
             \/ FetchPiece(w) \/ FetchFails(w) \/ FetchCancelled(w) \/ Panic(w)
             \/ WritePiece(w) \/ WriteFails(w)
      PROVE  TypeOK'
  <2>1. CASE FetchPiece(w)
    BY <2>1 DEF FetchPiece
  <2>2. CASE FetchCancelled(w)
    BY <2>2 DEF FetchCancelled
  <2>3. CASE Panic(w)
    BY <2>3, PanicsAssumption DEF Panic
  <2>4. CASE FetchFails(w) \/ WriteFails(w)
    <3>1. attempt[w] < MaxPieceAttempts /\ attempt[w] \in 0..MaxPieceAttempts
      BY <2>4 DEF FetchFails, WriteFails, LocalShape
    <3>2. attempt' \in [Workers -> 0..MaxPieceAttempts]
      BY <2>4, <3>1, AttemptsAssumption DEF FetchFails, WriteFails, AttemptFails
    <3> QED
      BY <2>4, <3>2 DEF FetchFails, WriteFails, AttemptFails
  <2>5. CASE WritePiece(w)
    BY <2>5 DEF WritePiece, LocalShape
  <2> QED
    BY <1>2, <2>1, <2>2, <2>3, <2>4, <2>5
<1>3. ASSUME NEW w \in Workers,
             \/ Mark(w) \/ MarkedByOther(w) \/ Announce(w) \/ Settle(w)
             \/ Count(w) \/ Requeue(w) \/ DropPiece(w)
      PROVE  TypeOK'
  <2>1. CASE Mark(w)
    BY <2>1 DEF Mark, LocalShape
  <2>2. CASE MarkedByOther(w)
    BY <2>2, ForgetTypes DEF MarkedByOther, KeepOrSpendSession
  <2>3. CASE Announce(w)
    BY <2>3 DEF Announce
  <2>4. CASE Settle(w)
    BY <2>4, SettlePositive DEF Settle
  <2>5. CASE Count(w)
    <3>1. /\ endgame' \in BOOLEAN /\ inject' \in -1..NumPieces
          /\ count' \in Nat
      <4>1. \/ endgame' = TRUE /\ inject' = 0
            \/ UNCHANGED <<endgame, inject>>
        BY <2>5 DEF Count
      <4>2. count' = count + 1
        BY <2>5 DEF Count
      <4>3. endgame \in BOOLEAN /\ inject \in -1..NumPieces /\ count \in Nat
        OBVIOUS
      <4>4. endgame' \in BOOLEAN
        BY <4>1, <4>3
      <4>5. inject' \in -1..NumPieces
        BY <4>1, <4>3, NumPiecesAssumption
      <4> QED
        BY <4>2, <4>3, <4>4, <4>5
    <3> QED
      BY <2>5, <3>1, ForgetTypes DEF Count, KeepOrSpendSession
  <2>6. CASE Requeue(w)
    <3>1. piece[w] \in Pieces
      BY <2>6 DEF Requeue, LocalShape
    <3> QED
      BY <2>6, <3>1, QueueSteps, ForgetTypes, NumPiecesAssumption DEF Requeue
  <2>7. CASE DropPiece(w)
    BY <2>7, ForgetTypes DEF DropPiece
  <2> QED
    BY <1>3, <2>1, <2>2, <2>3, <2>4, <2>5, <2>6, <2>7
<1>4. CASE InjectorStep
  <2>1. CASE InjectTick \/ InjectStop
    <3>1. inject' \in -1..NumPieces
      BY <2>1, NumPiecesAssumption DEF InjectTick, InjectStop
    <3> QED
      BY <2>1, <3>1 DEF InjectTick, InjectStop
  <2>2. CASE InjectPiece
    <3>1. inject' \in -1..NumPieces
      BY <2>2, NumPiecesAssumption DEF InjectPiece
    <3>2. queue' \in Seq(Pieces) /\ Len(queue') <= QueueCap
      <4>1. CASE inject \notin completed /\ Len(queue) < QueueCap
        <5>1. queue' = Append(queue, inject) /\ inject \in Pieces
          BY <2>2, <4>1 DEF InjectPiece
        <5>2. Len(queue') = Len(queue) + 1 /\ queue' \in Seq(Pieces)
          BY <5>1, QueueSteps
        <5> QED
          BY <4>1, <5>2, QueueSteps, NumPiecesAssumption
      <4>2. CASE ~(inject \notin completed /\ Len(queue) < QueueCap)
        BY <2>2, <4>2 DEF InjectPiece
      <4> QED
        BY <4>1, <4>2
    <3> QED
      BY <2>2, <3>1, <3>2 DEF InjectPiece
  <2> QED
    BY <1>4, <2>1, <2>2 DEF InjectorStep
<1>5. CASE MainStep
  BY <1>5 DEF MainStep, WaitPieces, SeeDone, Deadline, ReturnTimeout,
              ReturnFinished
<1>6. CASE Terminated \/ UNCHANGED vars
  BY <1>6 DEF Terminated
<1> QED
  BY <1>1, <1>2, <1>3, <1>4, <1>5, <1>6 DEF Next, WorkerStep

-----------------------------------------------------------------------------
(* The locals of the workers and the file *)

LEMMA LocalShapeStep ==
  ASSUME TypeOK, LocalShape, [Next]_vars
  PROVE  LocalShape'
<1> USE DEF TypeOK, LocalShape
<1>1. ASSUME NEW w \in Workers, Take(w)
      PROVE  LocalShape'
  <2>1. Head(queue) \in Pieces
    BY <1>1, QueueSteps DEF Take
  <2> QED
    BY <1>1, <2>1 DEF Take
<1>2. ASSUME NEW w \in Workers,
             QuitIdle(w) \/ FindIncomplete(w) \/ Subscribe(w) \/ GetSession(w)
      PROVE  LocalShape'
  BY <1>2 DEF QuitIdle, FindIncomplete, Subscribe, GetSession
<1>3. ASSUME NEW w \in Workers,
             \/ SkipCompleted(w) \/ QuitWaiting(w) \/ MarkedByOther(w)
             \/ Count(w) \/ Requeue(w) \/ DropPiece(w)
      PROVE  LocalShape'
  <2>1. /\ pc' = [pc EXCEPT ![w] = "idle"] \/ pc' = [pc EXCEPT ![w] = "gone"]
        /\ disk' = disk
    BY <1>3 DEF SkipCompleted, QuitWaiting, MarkedByOther, Count, Requeue,
                DropPiece
  <2>2. Forget(w)
    BY <1>3 DEF SkipCompleted, QuitWaiting, MarkedByOther, Count, Requeue,
                DropPiece
  <2> QED
    BY <2>1, <2>2, AttemptsAssumption DEF Forget
<1>4. ASSUME NEW w \in Workers,
             FetchPiece(w) \/ FetchCancelled(w) \/ Panic(w)
      PROVE  LocalShape'
  BY <1>4 DEF FetchPiece, HashMatches, FetchCancelled, Panic
<1>5. ASSUME NEW w \in Workers, FetchFails(w) \/ WriteFails(w)
      PROVE  LocalShape'
  BY <1>5, AttemptsAssumption DEF FetchFails, WriteFails, AttemptFails
<1>6. ASSUME NEW w \in Workers, WritePiece(w)
      PROVE  LocalShape'
  BY <1>6 DEF WritePiece
<1>7. ASSUME NEW w \in Workers, Mark(w) \/ Announce(w) \/ Settle(w)
      PROVE  LocalShape'
  BY <1>7 DEF Mark, Announce, Settle
<1>8. ASSUME InjectorStep \/ MainStep \/ Terminated \/ UNCHANGED vars
      PROVE  LocalShape'
  <2>1. UNCHANGED <<pc, piece, attempt, intact, disk>>
    BY <1>8 DEF InjectorStep, InjectTick, InjectPiece, InjectStop, MainStep,
                WaitPieces, SeeDone, Deadline, ReturnTimeout, ReturnFinished,
                Terminated
  <2> QED
    BY <2>1
<1> QED
  BY <1>1, <1>2, <1>3, <1>4, <1>5, <1>6, <1>7, <1>8 DEF Next, WorkerStep

\* Only Mark changes `completed'; only WritePiece changes the file.
LEMMA FileSteps ==
  ASSUME TypeOK, LocalShape, [Next]_vars
  PROVE  /\ disk \subseteq disk'
         /\ \/ completed' = completed
            \/ \E w \in Workers : Mark(w)
<1>1. ASSUME NEW w \in Workers, WritePiece(w)
      PROVE  disk \subseteq disk' /\ completed' = completed
  BY <1>1 DEF WritePiece, LocalShape
<1>2. ASSUME NEW w \in Workers, Mark(w)
      PROVE  disk' = disk
  BY <1>2 DEF Mark
<1>3. ASSUME NEW w \in Workers,
             \/ Take(w) \/ QuitIdle(w) \/ SkipCompleted(w) \/ FindIncomplete(w)
             \/ Subscribe(w) \/ GetSession(w) \/ QuitWaiting(w)
             \/ FetchPiece(w) \/ FetchFails(w) \/ FetchCancelled(w) \/ Panic(w)
             \/ WriteFails(w) \/ MarkedByOther(w) \/ Announce(w) \/ Settle(w)
             \/ Count(w) \/ Requeue(w) \/ DropPiece(w)
      PROVE  UNCHANGED <<disk, completed>>
  BY <1>3 DEF Take, QuitIdle, SkipCompleted, FindIncomplete, Subscribe,
              GetSession, QuitWaiting, FetchPiece, FetchFails, FetchCancelled,
              Panic, WriteFails, AttemptFails, MarkedByOther, Announce, Settle,
              Count, Requeue, DropPiece
<1>4. ASSUME InjectorStep \/ MainStep \/ Terminated \/ UNCHANGED vars
      PROVE  UNCHANGED <<disk, completed>>
  BY <1>4 DEF InjectorStep, InjectTick, InjectPiece, InjectStop, MainStep,
              WaitPieces, SeeDone, Deadline, ReturnTimeout, ReturnFinished,
              Terminated
<1> QED
  BY <1>1, <1>2, <1>3, <1>4 DEF Next, WorkerStep

LEMMA CompletedIsOnDiskStep ==
  ASSUME TypeOK, LocalShape, CompletedIsOnDisk, [Next]_vars
  PROVE  CompletedIsOnDisk'
<1>1. CASE completed' = completed
  BY <1>1, FileSteps DEF CompletedIsOnDisk
<1>2. ASSUME NEW w \in Workers, Mark(w)
      PROVE  CompletedIsOnDisk'
  <2>1. completed' = completed \cup {piece[w]} /\ piece[w] \in disk
    BY <1>2 DEF Mark, LocalShape
  <2> QED
    BY <2>1, FileSteps DEF CompletedIsOnDisk
<1> QED
  BY <1>1, <1>2, FileSteps

-----------------------------------------------------------------------------
(* The main goroutine *)

\* A closed doneCh means a wait group at zero: no piece is missing and no worker
\* has its pieceWG.Done still to do.
LEMMA ZeroMeansDone ==
  ASSUME TypeOK, AccountingExact, wg = 0
  PROVE  completed = Pieces /\ Unsettled = {}
<1>1. Cardinality(Incomplete) = 0 /\ Cardinality(Unsettled) = 0
  BY CountedFinite DEF AccountingExact
<1>2. Incomplete = {} /\ Unsettled = {}
  BY <1>1, CountedFinite, FS_EmptySet
<1> QED
  BY <1>2 DEF Incomplete, TypeOK

LEMMA MainShapeStep ==
  ASSUME TypeOK, LocalShape, AccountingExact, MainShape, [Next]_vars
  PROVE  MainShape'
<1>1. ASSUME NEW w \in Workers, WorkerStep(w)
      PROVE  MainShape'
  <2>1. UNCHANGED <<doneCh, mainPc, outcome>>
    BY <1>1 DEF WorkerStep, Take, QuitIdle, SkipCompleted, FindIncomplete,
                Subscribe, GetSession, QuitWaiting, FetchPiece, FetchFails,
                FetchCancelled, Panic, WritePiece, WriteFails, AttemptFails,
                Mark, MarkedByOther, Announce, Settle, Count, Requeue, DropPiece
  <2>2. pc[w] # "gone"
    BY <1>1 DEF WorkerStep, Take, QuitIdle, SkipCompleted, FindIncomplete,
                Subscribe, GetSession, QuitWaiting, FetchPiece, FetchFails,
                FetchCancelled, Panic, WritePiece, WriteFails, AttemptFails,
                Mark, MarkedByOther, Announce, Settle, Count, Requeue, DropPiece
  <2>3. mainPc # "returned"
    BY <2>2 DEF MainShape
  <2>4. ASSUME doneCh PROVE completed' = Pieces /\ Unsettled' = {}
    <3>1. completed = Pieces /\ Unsettled = {}
      BY <2>4 DEF MainShape
    <3>2. ~Mark(w) /\ ~Announce(w) /\ ~Settle(w)
      BY <3>1 DEF Mark, Announce, Settle, Unsettled, LocalShape
    <3>3. completed' = completed
      BY <1>1, <3>2 DEF WorkerStep, Take, QuitIdle, SkipCompleted,
            FindIncomplete, Subscribe, GetSession, QuitWaiting, FetchPiece,
            FetchFails, FetchCancelled, Panic, WritePiece, WriteFails,
            AttemptFails, MarkedByOther, Count, Requeue, DropPiece
    <3>4. \E x \in WorkerPcs : /\ pc' = [pc EXCEPT ![w] = x]
                               /\ x \notin {"announce", "settle"}
      BY <1>1, <3>2 DEF WorkerPcs, WorkerStep, Take, QuitIdle, SkipCompleted,
            FindIncomplete, Subscribe, GetSession, QuitWaiting, FetchPiece,
            FetchFails, FetchCancelled, Panic, WritePiece, WriteFails,
            AttemptFails, MarkedByOther, Count, Requeue, DropPiece
    <3>5. Unsettled' = {}
      BY <3>1, <3>4 DEF Unsettled, TypeOK
    <3> QED
      BY <3>1, <3>3, <3>5
  <2> QED
    BY <2>1, <2>3, <2>4 DEF MainShape
<1>2. CASE InjectorStep \/ Terminated \/ UNCHANGED vars
  <2>1. UNCHANGED <<doneCh, mainPc, outcome, completed, pc>>
    BY <1>2 DEF InjectorStep, InjectTick, InjectPiece, InjectStop, Terminated
  <2> QED
    BY <2>1 DEF MainShape, Unsettled
<1>3. CASE WaitPieces
  BY <1>3, ZeroMeansDone DEF WaitPieces, MainShape, Unsettled
<1>4. CASE SeeDone \/ Deadline
  BY <1>4 DEF SeeDone, Deadline, MainShape, Unsettled
<1>5. CASE ReturnTimeout
  BY <1>5 DEF ReturnTimeout, Joined, MainShape, Unsettled
<1>6. CASE ReturnFinished
  <2>1. completed = Pieces
    BY <1>6 DEF ReturnFinished, MainShape
  <2>2. outcome' \in {"ok", "ioerror"} /\ mainPc' = "returned"
    BY <1>6, <2>1 DEF ReturnFinished
  <2> QED
    BY <1>6, <2>1, <2>2 DEF ReturnFinished, Joined, MainShape, Unsettled
<1> QED
  BY <1>1, <1>2, <1>3, <1>4, <1>5, <1>6 DEF Next, MainStep

-----------------------------------------------------------------------------
(* The theorems *)

LEMMA IndInvStep == IndInv /\ [Next]_vars => IndInv'
BY TypeStep, LocalShapeStep, AccountingStep, CompletedIsOnDiskStep,
   MainShapeStep DEF IndInv

THEOREM Invariance == Spec => []IndInv
BY InitIndInv, IndInvStep, PTL DEF Spec

\* Every state has its types; in particular the wait group never becomes
\* negative and the queue never holds more than its capacity.
THEOREM TypeCorrect == Spec => []TypeOK
BY Invariance, PTL DEF IndInv

\* The wait group and the completed counter always account for every piece.
THEOREM AccountingCorrect == Spec => []AccountingExact
BY Invariance, PTL DEF IndInv

\* A piece is marked completed only with its verified bytes in the file.
THEOREM CompletedPiecesAreOnDisk == Spec => []CompletedIsOnDisk
BY Invariance, PTL DEF IndInv

\* After the call returns no worker is left, the counter is exact, and a
\* success means the whole file is there.
THEOREM ReturnCorrect == Spec => []ReturnIsFinal
<1>1. IndInv => ReturnIsFinal
  <2> SUFFICES ASSUME IndInv, mainPc = "returned" PROVE ReturnIsFinal
    BY DEF ReturnIsFinal
  <2>1. \A w \in Workers : pc[w] = "gone"
    BY DEF IndInv, MainShape
  <2>2. Uncounted = {}
    BY <2>1 DEF Uncounted
  <2>3. count = Cardinality(completed)
    BY <2>2, FS_EmptySet, CountedFinite DEF IndInv, AccountingExact, TypeOK
  <2>4. outcome \in {"ok", "ioerror"} => disk = Pieces
    BY DEF IndInv, MainShape, CompletedIsOnDisk, TypeOK
  <2> QED
    BY <2>1, <2>3, <2>4 DEF ReturnIsFinal
<1> QED
  BY Invariance, <1>1, PTL

-----------------------------------------------------------------------------
(* The engine implements its promise *)

LEMMA PromiseStep ==
  ASSUME IndInv, [Next]_vars
  PROVE  [Promise!Next]_<<completed, outcome>>
<1> USE DEF IndInv
<1>1. ASSUME NEW w \in Workers, Mark(w)
      PROVE  Promise!Gain(piece[w]) /\ piece[w] \in Promise!AllPieces
  <2>1. outcome = "running"
    BY <1>1 DEF Mark, MainShape
  <2>2. piece[w] \in Pieces
    BY <1>1 DEF Mark, LocalShape
  <2> QED
    BY <1>1, <2>1, <2>2 DEF Mark, Promise!Gain, Promise!AllPieces
<1>2. CASE ReturnTimeout
  BY <1>2 DEF ReturnTimeout, MainShape, Promise!Next, Promise!TimeOut
<1>3. CASE ReturnFinished
  <2>1. completed = Pieces
    BY <1>3 DEF ReturnFinished, MainShape
  <2> QED
    BY <1>3, <2>1 DEF ReturnFinished, MainShape, Promise!Next, Promise!Finish,
                      Promise!AllPieces
<1>4. CASE completed' = completed /\ ~ReturnTimeout /\ ~ReturnFinished
  <2>1. outcome' = outcome
    BY <1>4 DEF Next, WorkerStep, Take, QuitIdle, SkipCompleted, FindIncomplete,
          Subscribe, GetSession, QuitWaiting, FetchPiece, FetchFails,
          FetchCancelled, Panic, WritePiece, WriteFails, AttemptFails, Mark,
          MarkedByOther, Announce, Settle, Count, Requeue, DropPiece,
          InjectorStep, InjectTick, InjectPiece, InjectStop, MainStep,
          WaitPieces, SeeDone, Deadline, Terminated
  <2> QED
    BY <1>4, <2>1
<1> QED
  BY <1>1, <1>2, <1>3, <1>4, FileSteps DEF Promise!Next

\* Whatever the workers, the injector and the timer do, the caller sees pieces
\* gained one at a time and one verdict, "ok" only with every piece, and never
\* FailIncomplete.
THEOREM Implements == Spec => KeepsPromise
<1>1. Init => Promise!Init
  BY DEF Init, Promise!Init, Promise!AllPieces
<1>2. IndInv /\ [Next]_vars => [Promise!Next]_<<completed, outcome>>
  BY PromiseStep
<1> QED
  BY Invariance, <1>1, <1>2, PTL DEF Spec, KeepsPromise, Promise!Spec

-----------------------------------------------------------------------------
(* No piece is lost *)

LEMMA IncompleteNotLostStep ==
  ASSUME IndInv, IncompleteNotLost, [Next]_vars
  PROVE  IncompleteNotLost'
<1> SUFFICES ASSUME ~ctxDone', NEW p \in Pieces, p \notin completed'
             PROVE  \/ InQueue(p)'
                    \/ \E w \in Workers : Holds(w, p)'
                    \/ LostToPanic(p)'
  BY DEF IncompleteNotLost, Incomplete
<1> USE DEF IndInv, TypeOK
<1>1. completed \subseteq completed'
  BY FileSteps DEF Mark
<1>2. ~ctxDone
  BY DEF Next, WorkerStep, Take, QuitIdle, SkipCompleted, FindIncomplete,
         Subscribe, GetSession, QuitWaiting, FetchPiece, FetchFails,
         FetchCancelled, Panic, WritePiece, WriteFails, AttemptFails, Mark,
         MarkedByOther, Announce, Settle, Count, Requeue, DropPiece,
         InjectorStep, InjectTick, InjectPiece, InjectStop, MainStep,
         WaitPieces, SeeDone, Deadline, ReturnTimeout, ReturnFinished,
         Terminated
<1>3. \/ InQueue(p)
      \/ \E w \in Workers : Holds(w, p)
      \/ LostToPanic(p)
  BY <1>1, <1>2 DEF IncompleteNotLost, Incomplete
<1>4. CASE InQueue(p)
  <2>1. PICK i \in 1..Len(queue) : queue[i] = p
    BY <1>4 DEF InQueue
  <2>2. ASSUME NEW w \in Workers, Take(w)
        PROVE  InQueue(p)' \/ Holds(w, p)'
    <3>1. CASE i = 1
      BY <2>1, <2>2, <3>1, QueueSteps DEF Take, Holds
    <3>2. CASE i # 1
      <4>1. i - 1 \in 1..Len(queue') /\ queue'[i - 1] = p
        BY <2>1, <2>2, <3>2, QueueSteps DEF Take
      <4> QED
        BY <4>1 DEF InQueue
    <3> QED
      BY <3>1, <3>2
  <2>3. ASSUME NEW q \in Pieces, queue' = Append(queue, q)
        PROVE  InQueue(p)'
    <3>1. i \in 1..Len(queue') /\ queue'[i] = p
      BY <2>1, <2>3, QueueSteps
    <3> QED
      BY <3>1 DEF InQueue
  <2>4. CASE queue' = queue
    BY <1>4, <2>4 DEF InQueue
  <2>5. \/ \E w \in Workers : Take(w)
        \/ \E q \in Pieces : queue' = Append(queue, q)
        \/ queue' = queue
    BY DEF LocalShape, Next, WorkerStep, QuitIdle, SkipCompleted,
         FindIncomplete, Subscribe, GetSession, QuitWaiting, FetchPiece,
         FetchFails, FetchCancelled, Panic, WritePiece, WriteFails,
         AttemptFails, Mark, MarkedByOther, Announce, Settle, Count, Requeue,
         DropPiece, InjectorStep, InjectTick, InjectPiece, InjectStop, MainStep,
         WaitPieces, SeeDone, Deadline, ReturnTimeout, ReturnFinished,
         Terminated
  <2> QED
    BY <2>2, <2>3, <2>4, <2>5
<1>5. ASSUME NEW v \in Workers, Holds(v, p)
      PROVE  \/ InQueue(p)'
             \/ Holds(v, p)'
             \/ LostToPanic(p)'
  <2>1. CASE pc'[v] = pc[v] /\ piece'[v] = piece[v]
    BY <1>5, <2>1 DEF Holds
  <2>2. CASE FindIncomplete(v) \/ Subscribe(v) \/ GetSession(v) \/ FetchPiece(v)
             \/ FetchFails(v) \/ FetchCancelled(v) \/ WritePiece(v)
             \/ WriteFails(v)
    BY <1>5, <2>2 DEF Holds, FindIncomplete, Subscribe, GetSession, FetchPiece,
                      FetchFails, FetchCancelled, WritePiece, WriteFails,
                      AttemptFails
  <2>3. CASE Panic(v)
    BY <1>5, <2>3 DEF Holds, Panic, LostToPanic
  <2>4. CASE Requeue(v)
    <3>1. queue' = Append(queue, p)
      BY <1>5, <2>4 DEF Holds, Requeue
    <3>2. Len(queue) + 1 \in 1..Len(queue') /\ queue'[Len(queue) + 1] = p
      BY <3>1, QueueSteps
    <3> QED
      BY <3>2 DEF InQueue
  <2>5. ~ \/ Take(v) \/ QuitIdle(v) \/ SkipCompleted(v) \/ QuitWaiting(v)
          \/ Mark(v) \/ MarkedByOther(v) \/ Announce(v) \/ Settle(v) \/ Count(v)
          \/ DropPiece(v)
    BY <1>1, <1>2, <1>5 DEF Holds, Take, QuitIdle, SkipCompleted, QuitWaiting,
          Mark, MarkedByOther, Announce, Settle, Count, DropPiece
  <2>6. ASSUME NEW w \in Workers, WorkerStep(w), w # v
        PROVE  pc'[v] = pc[v] /\ piece'[v] = piece[v]
    BY <2>6 DEF WorkerStep, Take, QuitIdle, SkipCompleted, FindIncomplete,
          Subscribe, GetSession, QuitWaiting, FetchPiece, FetchFails,
          FetchCancelled, Panic, WritePiece, WriteFails, AttemptFails, Mark,
          MarkedByOther, Announce, Settle, Count, Requeue, DropPiece, Forget
  <2>7. CASE InjectorStep \/ MainStep \/ Terminated \/ UNCHANGED vars
    BY <2>1, <2>7 DEF InjectorStep, InjectTick, InjectPiece, InjectStop,
          MainStep, WaitPieces, SeeDone, Deadline, ReturnTimeout,
          ReturnFinished, Terminated
  <2> QED
    BY <2>1, <2>2, <2>3, <2>4, <2>5, <2>6, <2>7 DEF Next, WorkerStep
<1>6. ASSUME NEW v \in Workers, pc[v] = "gone", piece[v] = p
      PROVE  LostToPanic(p)'
  <2>1. pc'[v] = "gone" /\ piece'[v] = p
    BY <1>6 DEF Next, WorkerStep, Take, QuitIdle, SkipCompleted, FindIncomplete,
          Subscribe, GetSession, QuitWaiting, FetchPiece, FetchFails,
          FetchCancelled, Panic, WritePiece, WriteFails, AttemptFails, Mark,
          MarkedByOther, Announce, Settle, Count, Requeue, DropPiece, Forget,
          InjectorStep, InjectTick, InjectPiece, InjectStop, MainStep,
          WaitPieces, SeeDone, Deadline, ReturnTimeout, ReturnFinished,
          Terminated
  <2> QED
    BY <2>1 DEF LostToPanic
<1> QED
  BY <1>3, <1>4, <1>5, <1>6 DEF LostToPanic

\* While the download runs no control path forgets an incomplete piece: it is
\* queued, in a worker's hands, or was lost with a worker that panicked.
THEOREM NoPieceLost == Spec => []IncompleteNotLost
<1>1. Init => IncompleteNotLost
  <2> SUFFICES ASSUME Init, NEW p \in Incomplete PROVE InQueue(p)
    BY DEF IncompleteNotLost
  <2>1. Incomplete \in SUBSET Pieces /\ queue \in Orderings(Incomplete)
    BY DEF Init, Incomplete
  <2> QED
    BY <2>1, OrderingFacts DEF InQueue
<1>2. IndInv /\ IncompleteNotLost /\ [Next]_vars => IncompleteNotLost'
  BY IncompleteNotLostStep
<1> QED
  BY Invariance, <1>1, <1>2, PTL DEF Spec

-----------------------------------------------------------------------------
(* One copy of each piece before the endgame *)

\* The injector exists only in the endgame.
InjectorShape == inject # -1 => endgame

LEMMA InjectorShapeStep ==
  ASSUME InjectorShape, [Next]_vars
  PROVE  InjectorShape' /\ (endgame => endgame')
<1> USE DEF InjectorShape
<1>1. ASSUME NEW w \in Workers, Count(w)
      PROVE  InjectorShape' /\ (endgame => endgame')
  BY <1>1 DEF Count
<1>2. CASE InjectorStep
  BY <1>2 DEF InjectorStep, InjectTick, InjectPiece, InjectStop
<1>3. CASE UNCHANGED <<inject, endgame>>
  BY <1>3
<1>4. ASSUME NEW w \in Workers, WorkerStep(w), ~Count(w)
      PROVE  UNCHANGED <<inject, endgame>>
  BY <1>4 DEF WorkerStep, Take, QuitIdle, SkipCompleted, FindIncomplete,
        Subscribe, GetSession, QuitWaiting, FetchPiece, FetchFails,
        FetchCancelled, Panic, WritePiece, WriteFails, AttemptFails, Mark,
        MarkedByOther, Announce, Settle, Requeue, DropPiece
<1>5. MainStep \/ Terminated \/ UNCHANGED vars => UNCHANGED <<inject, endgame>>
  BY DEF MainStep, WaitPieces, SeeDone, Deadline, ReturnTimeout,
         ReturnFinished, Terminated
<1> QED
  BY <1>1, <1>2, <1>3, <1>4, <1>5 DEF Next

SingleCopyInv == InjectorShape /\ SingleCopyBeforeEndgame

\* A worker other than w keeps what it holds, and w gains nothing except from
\* the queue.
LEMMA HoldsSteps ==
  ASSUME IndInv, NEW w \in Workers, WorkerStep(w), NEW v \in Workers,
         NEW p \in Pieces, Holds(v, p)'
  PROVE  \/ Holds(v, p)
         \/ v = w /\ Take(w) /\ p = Head(queue)
<1> USE DEF IndInv, TypeOK
<1>1. CASE v # w
  <2>1. pc'[v] = pc[v] /\ piece'[v] = piece[v]
    BY <1>1 DEF WorkerStep, Take, QuitIdle, SkipCompleted, FindIncomplete,
          Subscribe, GetSession, QuitWaiting, FetchPiece, FetchFails,
          FetchCancelled, Panic, WritePiece, WriteFails, AttemptFails, Mark,
          MarkedByOther, Announce, Settle, Count, Requeue, DropPiece, Forget
  <2> QED
    BY <2>1 DEF Holds
<1>2. CASE v = w /\ Take(w)
  BY <1>2 DEF Take, Holds
<1>3. CASE v = w /\ ~Take(w)
  <2>1. pc'[w] # "idle" /\ pc'[w] # "gone"
    BY <1>3 DEF Holds
  <2>2. pc'[w] \notin {"announce", "settle", "count"}
    BY <1>3 DEF Holds
  <2>3. \/ FindIncomplete(w) \/ Subscribe(w) \/ GetSession(w) \/ FetchPiece(w)
        \/ FetchFails(w) \/ FetchCancelled(w) \/ WritePiece(w) \/ WriteFails(w)
    BY <1>3, <2>1, <2>2 DEF WorkerStep, QuitIdle, SkipCompleted, QuitWaiting,
          Panic, Mark, MarkedByOther, Announce, Settle, Count, Requeue,
          DropPiece
  <2> QED
    BY <1>3, <2>3 DEF Holds, FindIncomplete, Subscribe, GetSession, FetchPiece,
          FetchFails, FetchCancelled, WritePiece, WriteFails, AttemptFails
<1> QED
  BY <1>1, <1>2, <1>3

LEMMA SingleCopyStep ==
  ASSUME IndInv, SingleCopyInv, [Next]_vars
  PROVE  SingleCopyInv'
<1> SUFFICES ASSUME ~endgame' PROVE SingleCopyBeforeEndgame'
  BY InjectorShapeStep DEF SingleCopyInv, SingleCopyBeforeEndgame
<1> USE DEF IndInv, TypeOK
<1>1. ~endgame /\ InjectorShape /\ inject = -1
  BY InjectorShapeStep DEF SingleCopyInv, InjectorShape
<1>2. /\ \A i, j \in 1..Len(queue) : queue[i] = queue[j] => i = j
      /\ \A w \in Workers : \A p \in Pieces : Holds(w, p) => ~InQueue(p)
      /\ \A v, w \in Workers : \A p \in Pieces :
            Holds(v, p) /\ Holds(w, p) => v = w
  BY <1>1 DEF SingleCopyInv, SingleCopyBeforeEndgame
<1>3. ASSUME NEW w \in Workers, Take(w)
      PROVE  SingleCopyBeforeEndgame'
  <2>1. /\ Len(queue') = Len(queue) - 1 /\ Len(queue) \in Nat
        /\ \A i \in 1..Len(queue') : queue'[i] = queue[i + 1]
        /\ Head(queue) = queue[1] /\ Head(queue) \in Pieces
        /\ Len(queue) >= 1
    BY <1>3, QueueSteps, EmptySeq DEF Take
  <2>2. \A i, j \in 1..Len(queue') : queue'[i] = queue'[j] => i = j
    BY <1>2, <2>1
  <2>3. ASSUME NEW p \in Pieces, InQueue(p)'
        PROVE  InQueue(p) /\ p # Head(queue)
    <3>1. PICK i \in 1..Len(queue') : queue'[i] = p
      BY <2>3 DEF InQueue
    <3>2. i + 1 \in 1..Len(queue) /\ queue[i + 1] = p /\ i + 1 # 1
      BY <2>1, <3>1
    <3>3. queue[1] # p
      BY <1>2, <2>1, <3>2
    <3> QED
      BY <2>1, <3>2, <3>3 DEF InQueue
  <2>5. InQueue(Head(queue))
    BY <2>1 DEF InQueue
  <2>6. \A v \in Workers : \A p \in Pieces :
           Holds(v, p)' => Holds(v, p) \/ (v = w /\ p = Head(queue))
    BY <1>3, HoldsSteps DEF WorkerStep
  <2>7. \A v \in Workers : \A p \in Pieces : Holds(v, p)' => ~InQueue(p)'
    BY <1>2, <2>3, <2>6
  <2>8. \A u, v \in Workers : \A p \in Pieces :
           Holds(u, p)' /\ Holds(v, p)' => u = v
    BY <1>2, <2>5, <2>6
  <2> QED
    BY <2>2, <2>7, <2>8 DEF SingleCopyBeforeEndgame
<1>4. ASSUME NEW w \in Workers, Requeue(w)
      PROVE  SingleCopyBeforeEndgame'
  <2> DEFINE p0 == piece[w]
  <2>1. p0 \in Pieces /\ Holds(w, p0) /\ queue' = Append(queue, p0)
    BY <1>4 DEF Requeue, LocalShape, Holds
  <2>2. /\ Len(queue') = Len(queue) + 1 /\ Len(queue) \in Nat
        /\ \A i \in 1..Len(queue) : queue'[i] = queue[i]
        /\ queue'[Len(queue) + 1] = p0
    BY <2>1, QueueSteps
  <2>3. ~InQueue(p0)
    BY <1>2, <2>1
  <2>4. \A i, j \in 1..Len(queue') : queue'[i] = queue'[j] => i = j
    BY <1>2, <2>2, <2>3 DEF InQueue
  <2>5. ASSUME NEW p \in Pieces, InQueue(p)', p # p0
        PROVE  InQueue(p)
    <3>1. PICK i \in 1..Len(queue') : queue'[i] = p
      BY <2>5 DEF InQueue
    <3>2. i \in 1..Len(queue) /\ queue[i] = p
      BY <2>2, <2>5, <3>1
    <3> QED
      BY <3>2 DEF InQueue
  <2>6. \A v \in Workers : \A p \in Pieces : Holds(v, p)' => Holds(v, p)
    BY <1>4, HoldsSteps DEF WorkerStep, Requeue, Take
  <2>7. \A p \in Pieces : ~Holds(w, p)'
    BY <1>4 DEF Requeue, Holds
  <2>8. \A v \in Workers : \A p \in Pieces : Holds(v, p)' => ~InQueue(p)'
    BY <1>2, <2>1, <2>5, <2>6, <2>7
  <2>9. \A u, v \in Workers : \A p \in Pieces :
           Holds(u, p)' /\ Holds(v, p)' => u = v
    BY <1>2, <2>6
  <2> QED
    BY <2>4, <2>8, <2>9 DEF SingleCopyBeforeEndgame
<1>5. ASSUME queue' = queue,
             \A v \in Workers : \A p \in Pieces : Holds(v, p)' => Holds(v, p)
      PROVE  SingleCopyBeforeEndgame'
  BY <1>2, <1>5 DEF SingleCopyBeforeEndgame, InQueue
<1>6. ASSUME NEW w \in Workers, WorkerStep(w), ~Take(w), ~Requeue(w)
      PROVE  SingleCopyBeforeEndgame'
  <2>1. queue' = queue
    BY <1>6 DEF WorkerStep, QuitIdle, SkipCompleted, FindIncomplete,
          Subscribe, GetSession, QuitWaiting, FetchPiece, FetchFails,
          FetchCancelled, Panic, WritePiece, WriteFails, AttemptFails, Mark,
          MarkedByOther, Announce, Settle, Count, DropPiece
  <2> QED
    BY <1>5, <1>6, <2>1, HoldsSteps
<1>7. CASE InjectorStep
  BY <1>1, <1>7 DEF InjectorStep, InjectTick, InjectPiece, InjectStop
<1>8. CASE MainStep \/ Terminated \/ UNCHANGED vars
  <2>1. UNCHANGED <<queue, pc, piece>>
    BY <1>8 DEF MainStep, WaitPieces, SeeDone, Deadline, ReturnTimeout,
                ReturnFinished, Terminated
  <2> QED
    BY <1>5, <2>1 DEF Holds
<1> QED
  BY <1>3, <1>4, <1>6, <1>7, <1>8 DEF Next

\* Until the injector starts, no piece is in two places, so none is fetched by
\* two workers at once.
THEOREM SingleCopy == Spec => []SingleCopyBeforeEndgame
<1>1. Init => SingleCopyInv
  <2> SUFFICES ASSUME Init PROVE SingleCopyInv
    OBVIOUS
  <2>1. Incomplete \in SUBSET Pieces /\ queue \in Orderings(Incomplete)
    BY DEF Init, Incomplete
  <2>2. \A i, j \in 1..Len(queue) : queue[i] = queue[j] => i = j
    BY <2>1, OrderingFacts
  <2>3. \A w \in Workers : \A p \in Pieces : ~Holds(w, p)
    BY DEF Init, Holds
  <2> QED
    BY <2>2, <2>3 DEF Init, SingleCopyInv, InjectorShape,
                      SingleCopyBeforeEndgame
<1>2. IndInv /\ SingleCopyInv /\ [Next]_vars => SingleCopyInv'
  BY SingleCopyStep
<1>3. SingleCopyInv => SingleCopyBeforeEndgame
  BY DEF SingleCopyInv
<1> QED
  BY Invariance, <1>1, <1>2, <1>3, PTL DEF Spec

\* Before the endgame the queue holds at most one copy of each piece, half its
\* capacity, so the send that puts a piece back never blocks.
RequeueHasRoom == ~endgame => Len(queue) < QueueCap

THEOREM RequeueNeverBlocksBeforeEndgame == Spec => []RequeueHasRoom
<1>1. IndInv /\ SingleCopyBeforeEndgame => RequeueHasRoom
  <2> SUFFICES ASSUME IndInv, SingleCopyBeforeEndgame, ~endgame
               PROVE  Len(queue) < QueueCap
    BY DEF RequeueHasRoom
  <2>1. queue \in Seq(Pieces)
    BY DEF IndInv, TypeOK
  <2>2. Len(queue) \in Nat /\ queue \in [1..Len(queue) -> Pieces]
    BY <2>1, LenProperties
  <2>3. queue \in Injection(1..Len(queue), Pieces)
    BY <2>2 DEF SingleCopyBeforeEndgame, Injection, IsInjective
  <2>4. Cardinality(1..Len(queue)) <= Cardinality(Pieces)
    BY <2>3, PiecesFinite, FS_Injection
  <2>5. Cardinality(1..Len(queue)) = Len(queue)
    BY <2>2, FS_Interval
  <2> QED
    BY <2>2, <2>4, <2>5, PiecesFinite, NumPiecesAssumption
<1> QED
  BY Invariance, SingleCopy, <1>1, PTL
=============================================================================
