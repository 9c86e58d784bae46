---------------------------- MODULE UploadProofs ----------------------------
(* Proofs about Upload, for any finite set of connections and any number   *)
(* of slots.                                                               *)
EXTENDS Upload, TLAPS, FiniteSetTheorems

-----------------------------------------------------------------------------
(* The slots *)

Slots ==
    /\ registered \subseteq Peers
    /\ unchoked \subseteq registered
    /\ SlotsCapped

\* A round fills at most MaxUnchoked slots: the optimistic peer, which is not
\* among the top ones, takes the place of one of them.
LEMMA RoundKeepsCap == ASSUME Slots, DecideUnchokes PROVE Slots'
<1>1. IsFiniteSet(registered) /\ Cardinality(registered) \in Nat
  BY PeersAssumption, FS_Subset, FS_CardinalityType DEF Slots
<1>2. Limit \in Nat /\ Limit <= MaxUnchoked
  BY <1>1, SlotsAssumption DEF Limit
<1>3. registered' = registered
  BY DEF DecideUnchokes
<1>4. CASE PlainRound
  <2>1. PICK S \in SUBSET registered : IsTop(S) /\ unchoked' = S
    BY <1>4 DEF PlainRound
  <2> QED
    BY <2>1, <1>2, <1>3, SlotsAssumption DEF IsTop, Slots, SlotsCapped
<1>5. CASE RotatedSlot
  <2>1. PICK S \in SUBSET registered, v \in registered, o \in registered :
           /\ IsTop(S) /\ IsWorst(v, S) /\ IsOptimistic(o, S)
           /\ unchoked' = (S \ {v}) \cup {o}
    BY <1>5 DEF RotatedSlot
  <2>2. v \in S
    BY <2>1 DEF IsWorst
  <2>3. IsFiniteSet(S) /\ Cardinality(S) = Limit
    BY <2>1, <1>1, FS_Subset DEF IsTop
  <2>4. IsFiniteSet(S \ {v}) /\ Cardinality(S \ {v}) = Limit - 1
    BY <2>2, <2>3, FS_RemoveElement
  <2>5. Cardinality((S \ {v}) \cup {o}) <= Limit
    BY <2>4, <1>2, FS_AddElement
  <2>6. Cardinality((S \ {v}) \cup {o}) \in Nat
    BY <2>4, FS_AddElement, FS_CardinalityType
  <2> QED
    BY <2>1, <2>5, <2>6, <1>2, <1>3, SlotsAssumption DEF Slots, SlotsCapped
<1> QED
  BY <1>4, <1>5 DEF DecideUnchokes

-----------------------------------------------------------------------------
(* Late blocks *)

\* A goroutine that will not send another block before it looks at the slot.
Barred(p) ==
    \/ hpc[p] \in {"look", "closed"}
    \/ hpc[p] = "tell" /\ p \notin want
    \/ hpc[p] \in {"read", "interested", "answer"} /\ p \in peerChoked \ want

LateOnce ==
    /\ hpc \in [Peers -> {"none", "handshake", "look", "tell", "read",
                          "interested", "answer", "serve", "closed"}]
    /\ late \in [Peers -> 0..1]
    /\ want \subseteq {p \in Peers : hpc[p] \in {"tell", "answer"}}
    /\ \A p \in Peers : late[p] = 1 => p \in unchoked \/ Barred(p)

IInv == Slots /\ LateOnce

LEMMA InitIInv == ASSUME InitUpload PROVE IInv
<1>1. Slots
  BY FS_EmptySet, SlotsAssumption
     DEF InitUpload, InitUnchoker, Slots, SlotsCapped
<1>2. LateOnce
  BY DEF InitUpload, LateOnce
<1> QED
  BY <1>1, <1>2 DEF IInv

LEMMA AcceptStep == ASSUME IInv, NEW p \in Peers, Accept(p) PROVE IInv'
<1>1. Slots'
  BY DEF IInv, Slots, SlotsCapped, Accept, RegisterPeer
<1>2. LateOnce'
  BY DEF IInv, LateOnce, Barred, Accept, RegisterPeer
<1> QED
  BY <1>1, <1>2 DEF IInv

LEMMA HandlerStep == ASSUME IInv, NEW p \in Peers, Handler(p) PROVE IInv'
<1> USE DEF unchoker
<1>1. Slots'
  <2>1. UNCHANGED <<registered, unchoked>>
    BY DEF Handler, Handshake, Close, Look, Tell, ReadIgnored, ReadInterested,
       ReadRequest, Serve, RecordUpload
  <2> QED
    BY <2>1 DEF IInv, Slots, SlotsCapped
<1>2. LateOnce'
  <2> USE DEF IInv, LateOnce, Barred
  <2>1. CASE Handshake(p)
    BY <2>1 DEF Handshake
  <2>2. CASE Close(p)
    BY <2>2 DEF Close
  <2>3. CASE Look(p)
    BY <2>3 DEF Look
  <2>4. CASE Tell(p)
    BY <2>4 DEF Tell
  <2>5. CASE ReadIgnored(p)
    BY <2>5 DEF ReadIgnored
  <2>6. CASE ReadInterested(p)
    BY <2>6 DEF ReadInterested
  <2>7. CASE ReadRequest(p)
    BY <2>7 DEF ReadRequest
  <2>8. CASE Serve(p)
    BY <2>8 DEF Serve, RecordUpload
  <2> QED
    BY <2>1, <2>2, <2>3, <2>4, <2>5, <2>6, <2>7, <2>8 DEF Handler
<1> QED
  BY <1>1, <1>2 DEF IInv

LEMMA RoundStep == ASSUME IInv, Round PROVE IInv'
<1>1. Slots'
  BY RoundKeepsCap DEF IInv, Round
<1>2. LateOnce'
  BY DEF IInv, LateOnce, Barred, Round
<1> QED
  BY <1>1, <1>2 DEF IInv

\* The inductive invariant of the unchoker composed with the connections.
THEOREM Invariance == UploadSpec => []IInv
<1>1. InitUpload => IInv
  BY InitIInv
<1>2. IInv /\ [UploadNext]_vars => IInv'
  <2>1. ASSUME IInv, UNCHANGED vars PROVE IInv'
    BY <2>1 DEF vars, unchoker, handlers, IInv, Slots, SlotsCapped, LateOnce, Barred
  <2> QED
    BY <2>1, AcceptStep, HandlerStep, RoundStep DEF UploadNext
<1> QED
  BY <1>1, <1>2, PTL DEF UploadSpec

\* DecideUnchokes never gives out more than MaxUnchoked slots.
THEOREM SlotCap == UploadSpec => []SlotsCapped
<1>1. IInv => SlotsCapped
  BY DEF IInv, Slots
<1> QED
  BY <1>1, Invariance, PTL

\* After a round has taken its slot a connection sends one more block at most:
\* the one it was asked for, or about to be asked for, when it last looked.
THEOREM OneLateBlock == UploadSpec => []LateServeBounded
<1>1. IInv => LateServeBounded
  BY DEF IInv, LateOnce, LateServeBounded
<1> QED
  BY <1>1, Invariance, PTL

=============================================================================
