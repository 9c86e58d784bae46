--------------------------- MODULE TransferProofs ---------------------------
(* Proofs about Transfer, for any pieces, blocks and window.                *)
EXTENDS Transfer, TLAPS, FiniteSetTheorems, SequenceTheorems

-----------------------------------------------------------------------------
(* The inductive invariant *)

Working == pc \in {"fetch", "read"}

\* Between fetches nothing of the last one is left, and a fetch has a piece.
Quiet ==
    ~Working => /\ inflight = {} /\ next = 1 /\ written = 0
                /\ got = [b \in Blocks |-> Nothing]
                /\ signalled = FALSE /\ after = 0

Fetching == Working => piece \in Pieces

WindowKept == Cardinality(inflight) <= window

\* What was read after the signal was read on the way to the loop's head.
SignalSeen == after # 0 => after = 1 /\ signalled /\ pc = "fetch"

\* An honest peer's blocks are the right ones, on the wire and once received.
TrueMessage ==
    {m \in Message : m.type = "piece" => m.data = <<m.piece, m.block>>}
TrueWire == honest => wire \in Seq(TrueMessage)
TrueBlocks == honest => \A b \in Received : got[b] = <<piece, b>>

IInv ==
    /\ TypeOK
    /\ BlocksAccounted
    /\ Quiet
    /\ Fetching
    /\ WindowKept
    /\ SignalSeen
    /\ TrueWire
    /\ TrueBlocks

-----------------------------------------------------------------------------
(* Facts about the data *)

LEMMA BlocksFinite ==
    /\ IsFiniteSet(Blocks) /\ Cardinality(Blocks) = NumBlocks
    /\ \A S \in SUBSET Blocks : IsFiniteSet(S) /\ Cardinality(S) \in 0..NumBlocks
<1>1. IsFiniteSet(Blocks) /\ Cardinality(Blocks) = NumBlocks
  BY BlocksAssumption, FS_Interval DEF Blocks
<1>2. ASSUME NEW S \in SUBSET Blocks
      PROVE  IsFiniteSet(S) /\ Cardinality(S) \in 0..NumBlocks
  <2>1. IsFiniteSet(S) /\ Cardinality(S) <= NumBlocks
    BY <1>1, FS_Subset
  <2> QED
    BY <2>1, BlocksAssumption, FS_CardinalityType
<1> QED
  BY <1>1, <1>2

LEMMA BlockMessages ==
    ASSUME NEW m \in Message, m.type = "piece"
    PROVE  /\ m.piece \in Pieces /\ m.block \in Blocks
           /\ m.data \in Content \cup {Junk, Short}
BY DEF Message

LEMMA BitfieldMessages ==
    ASSUME NEW m \in Message
    PROVE  /\ m.type = "bitfield" => m.pieces \subseteq Pieces
           /\ m.type = "have" => m.piece \in Pieces
BY DEF Message

LEMMA BitfieldTaken ==
    ASSUME IInv, Head(wire) \in Message, TakeBitfield,
           Head(wire).type \in {"bitfield", "have"}
    PROVE  bitfield' \subseteq Pieces /\ told' \in BOOLEAN
<1>1. bitfield \subseteq Pieces
  BY DEF IInv, TypeOK
<1>2. bitfield' \subseteq Pieces
  BY <1>1, BitfieldMessages DEF TakeBitfield
<1>3. told' = TRUE
  BY DEF TakeBitfield
<1> QED
  BY <1>2, <1>3

\* No block is in flight or received, and none has been asked for.
LEMMA NothingAccounted ==
    ASSUME inflight = {}, next = 1, written = 0,
           got = [b \in Blocks |-> Nothing]
    PROVE  BlocksAccounted /\ Received = {}
<1>1. Received = {}
  BY DEF Received
<1> QED
  BY <1>1, FS_EmptySet DEF BlocksAccounted

\* ForgetFetch leads to such a state.
LEMMA Forgotten ==
    ASSUME IInv, ForgetFetch, ~Working', window' \in MinInflight..MaxInflight
    PROVE  /\ BlocksAccounted' /\ Quiet' /\ Fetching' /\ WindowKept'
           /\ SignalSeen' /\ TrueBlocks'
           /\ piece' \in Pieces \cup {NoPiece} /\ inflight' \subseteq Blocks
           /\ next' \in 1..(NumBlocks + 1) /\ written' \in 0..NumBlocks
           /\ got' \in [Blocks -> Content \cup {Nothing, Junk}]
           /\ signalled' \in BOOLEAN /\ after' \in 0..2
<1>1. /\ inflight' = {} /\ next' = 1 /\ written' = 0 /\ signalled' = FALSE
      /\ after' = 0 /\ got' = [b \in Blocks |-> Nothing] /\ piece' = NoPiece
  BY DEF ForgetFetch
<1>2. Received' = {}
  BY <1>1 DEF Received
<1>3. BlocksAccounted'
  BY <1>1, <1>2, FS_EmptySet DEF BlocksAccounted
<1>4. Quiet' /\ Fetching' /\ SignalSeen' /\ TrueBlocks'
  BY <1>1, <1>2 DEF Quiet, Fetching, SignalSeen, TrueBlocks
<1>5. WindowKept'
  BY <1>1, FS_EmptySet, WindowAssumption DEF WindowKept
<1>6. got' \in [Blocks -> Content \cup {Nothing, Junk}]
  BY <1>1
<1>7. /\ next' \in 1..(NumBlocks + 1) /\ written' \in 0..NumBlocks
      /\ after' \in 0..2
  BY <1>1, BlocksAssumption
<1>8. /\ piece' \in Pieces \cup {NoPiece} /\ inflight' \subseteq Blocks
      /\ signalled' \in BOOLEAN
  BY <1>1, Zenon
<1> QED
  BY <1>3, <1>4, <1>5, <1>6, <1>7, <1>8, Zenon

-----------------------------------------------------------------------------
(* The steps *)

LEMMA InitIInv == ASSUME Init PROVE IInv
<1>1. TypeOK
  <2>1. wire \in Seq(Message)
    BY DEF Init
  <2>2. Flags
    BY DEF Init, Flags
  <2>3. window \in MinInflight..MaxInflight
    BY WindowAssumption DEF Init
  <2>4. got \in [Blocks -> Content \cup {Nothing, Junk}]
    BY DEF Init
  <2> QED
    BY <2>1, <2>2, <2>3, <2>4, BlocksAssumption, BoundsAssumption DEF Init, TypeOK
<1>2. BlocksAccounted /\ Received = {}
  BY NothingAccounted DEF Init
<1>3. Quiet /\ Fetching /\ SignalSeen
  BY DEF Init, Quiet, Fetching, SignalSeen, Working
<1>4. WindowKept
  BY FS_EmptySet, WindowAssumption DEF Init, WindowKept
<1>5. TrueWire /\ TrueBlocks
  BY <1>2 DEF Init, TrueWire, TrueBlocks
<1> QED
  BY <1>1, <1>2, <1>3, <1>4, <1>5 DEF IInv

LEMMA CloseKeeps == ASSUME IInv, CloseSession PROVE IInv'
<1>1. ~Working'
  BY DEF CloseSession, Working
<1>2. window' \in MinInflight..MaxInflight
  BY WindowAssumption DEF CloseSession
<1>3. ForgetFetch
  BY DEF CloseSession
<1>4. Flags'
  BY <1>1, <1>2, <1>3, Forgotten DEF CloseSession, IInv, TypeOK, Flags
<1>5. wire' \in Seq(Message) /\ TrueWire'
  BY DEF CloseSession, TrueWire
<1>6. TypeOK'
  BY <1>1, <1>2, <1>3, <1>4, <1>5, Forgotten, BoundsAssumption
     DEF CloseSession, IInv, TypeOK
<1> QED
  BY <1>1, <1>2, <1>3, <1>5, <1>6, Forgotten DEF IInv

LEMMA SetupKeeps == ASSUME IInv, SetupStep PROVE IInv'
<1>1. CASE SetupFails
  BY <1>1, CloseKeeps DEF SetupFails
<1> SUFFICES ASSUME Handshake \/ SetupInfo \/ SetupOther \/ SetupUnchoked
             PROVE  IInv'
  BY <1>1 DEF SetupStep
<1>2. ~Working /\ ~Working' /\ UNCHANGED <<window, left, fetch, honest, has, choking, asked>>
  BY DEF Handshake, SetupInfo, SetupOther, SetupUnchoked, SetupRead, Consume,
         Working, peer, fetch
<1>3. /\ wire' \in Seq(Message) /\ TrueWire'
      /\ bitfield' \subseteq Pieces /\ told' \in BOOLEAN
  <2>1. CASE Handshake
    BY <2>1 DEF Handshake, peer, IInv, TypeOK, TrueWire, Flags
  <2>2. CASE SetupInfo
    <3>1. wire # <<>> /\ wire' = Tail(wire) /\ honest' = honest
      BY <2>2 DEF SetupInfo, SetupRead, Consume, Reading
    <3>2. wire' \in Seq(Message) /\ TrueWire' /\ Head(wire) \in Message
      BY <3>1, HeadTailProperties DEF IInv, TypeOK, TrueWire
    <3> QED
      BY <2>2, <3>2, BitfieldTaken DEF SetupInfo, Reading
  <2>3. CASE SetupOther \/ SetupUnchoked
    <3>1. /\ wire # <<>> /\ wire' = Tail(wire) /\ honest' = honest
          /\ UNCHANGED <<told, bitfield>>
      BY <2>3 DEF SetupOther, SetupUnchoked, SetupRead, Consume, Reading
    <3> QED
      BY <3>1, HeadTailProperties DEF IInv, TypeOK, TrueWire, Flags
  <2> QED
    BY <2>1, <2>2, <2>3
<1>4. reads' \in 0..SetupReads
  BY BoundsAssumption DEF Handshake, SetupInfo, SetupOther, SetupUnchoked,
     SetupRead, IInv, TypeOK
<1>5. pc' \in {"setup", "idle"}
  BY DEF Handshake, SetupInfo, SetupOther, SetupUnchoked, SetupRead
<1>6. TypeOK'
  BY <1>2, <1>3, <1>4, <1>5 DEF IInv, TypeOK, Flags, fetch
<1>7. BlocksAccounted' /\ Quiet' /\ WindowKept' /\ TrueBlocks'
  BY <1>2 DEF IInv, BlocksAccounted, Received, Quiet, WindowKept, TrueBlocks, fetch
<1>8. Fetching' /\ SignalSeen'
  BY <1>2 DEF IInv, Quiet, Fetching, SignalSeen, fetch
<1> QED
  BY <1>3, <1>6, <1>7, <1>8 DEF IInv

-----------------------------------------------------------------------------
(* The remote peer *)

LEMMA SendKeeps ==
    ASSUME IInv, NEW m \in Message, Send(m), UNCHANGED <<honest, session, fetch>>,
           honest /\ m.type = "piece" => m.data = <<m.piece, m.block>>,
           has' \subseteq Pieces, choking' \in BOOLEAN, asked' \subseteq Content
    PROVE  IInv'
<1>1. wire' \in Seq(Message)
  BY AppendProperties DEF Send, IInv, TypeOK
<1>2. TrueWire'
  <2>1. ASSUME honest PROVE wire \in Seq(TrueMessage) /\ m \in TrueMessage
    BY <2>1 DEF IInv, TrueWire, TrueMessage
  <2> QED
    BY <2>1, AppendProperties DEF Send, TrueWire
<1>3. TypeOK'
  BY <1>1 DEF IInv, TypeOK, Flags, session, fetch
<1>4. BlocksAccounted' /\ Quiet' /\ Fetching' /\ WindowKept' /\ SignalSeen'
  BY DEF IInv, BlocksAccounted, Received, Quiet, Fetching, WindowKept,
         SignalSeen, Working, session, fetch
<1>5. TrueBlocks'
  BY DEF IInv, TrueBlocks, Received, fetch
<1> QED
  BY <1>1, <1>2, <1>3, <1>4, <1>5 DEF IInv

LEMMA PeerKeeps == ASSUME IInv, PeerStep PROVE IInv'
<1> USE DEF IInv, TypeOK, Flags
<1>1. CASE SendBitfield
  BY <1>1, SendKeeps DEF SendBitfield, Message
<1>2. CASE Unchoke
  BY <1>2, SendKeeps DEF Unchoke, Message
<1>3. CASE Choke
  BY <1>3, SendKeeps DEF Choke, Message
<1>4. CASE SendOther
  BY <1>4, SendKeeps DEF SendOther, Message
<1>5. ASSUME NEW p \in Pieces, GainPiece(p) PROVE IInv'
  BY <1>5, SendKeeps DEF GainPiece, Message
<1>6. ASSUME NEW r \in asked, Answer(r) PROVE IInv'
  <2>1. r \in Content /\ r = <<r[1], r[2]>> /\ r[1] \in Pieces /\ r[2] \in Blocks
    BY DEF Content
  <2>2. PICK data \in IF honest THEN {r} ELSE {r, Junk, Short} :
           Send([type |-> "piece", piece |-> r[1], block |-> r[2], data |-> data])
    BY <1>6 DEF Answer
  <2> DEFINE m == [type |-> "piece", piece |-> r[1], block |-> r[2], data |-> data]
  <2>3. m \in Message
    BY <2>1, <2>2 DEF Message
  <2>4. honest /\ m.type = "piece" => m.data = <<m.piece, m.block>>
    BY <2>1, <2>2
  <2>5. UNCHANGED <<honest, has, choking, session, fetch>> /\ asked' \subseteq Content
    BY <1>6 DEF Answer
  <2> HIDE DEF m
  <2> QED
    BY <2>2, <2>3, <2>4, <2>5, SendKeeps DEF m
<1> QED
  BY <1>1, <1>2, <1>3, <1>4, <1>5, <1>6 DEF PeerStep

-----------------------------------------------------------------------------
(* The fetch *)

LEMMA StartKeeps ==
    ASSUME IInv, NEW p \in Pieces, StartFetch(p) PROVE IInv'
<1>1. /\ ~Working /\ pc' = "fetch" /\ piece' = p
      /\ UNCHANGED <<peer, reads, told, bitfield, window, left, inflight, next,
                     got, written, signalled, after>>
  BY DEF StartFetch, Working
<1>2. TypeOK' /\ TrueWire'
  BY <1>1 DEF IInv, TypeOK, Flags, TrueWire, peer
<1>3. BlocksAccounted' /\ Quiet' /\ Fetching' /\ WindowKept'
  BY <1>1 DEF IInv, BlocksAccounted, Received, Quiet, Fetching, WindowKept, Working
<1>4. SignalSeen' /\ Received' = {}
  BY <1>1 DEF IInv, Quiet, SignalSeen, Received
<1>5. TrueBlocks'
  BY <1>4 DEF TrueBlocks
<1> QED
  BY <1>2, <1>3, <1>4, <1>5 DEF IInv

LEMMA SignalKeeps == ASSUME IInv, CompletedByOther PROVE IInv'
<1>1. /\ Working /\ signalled = FALSE /\ signalled' = TRUE
      /\ UNCHANGED <<peer, session, piece, inflight, next, got, written, after>>
  BY DEF CompletedByOther, Working, IInv, TypeOK, Flags
<1>2. TypeOK' /\ TrueWire'
  BY <1>1 DEF IInv, TypeOK, Flags, TrueWire, peer, session
<1>3. BlocksAccounted' /\ Quiet' /\ Fetching' /\ WindowKept' /\ TrueBlocks'
  BY <1>1 DEF IInv, BlocksAccounted, Received, Quiet, Fetching, WindowKept,
     TrueBlocks, Working, session, peer
<1>4. SignalSeen'
  BY <1>1 DEF IInv, SignalSeen, session
<1> QED
  BY <1>2, <1>3, <1>4 DEF IInv

LEMMA GiveUpKeeps == ASSUME IInv, GiveUpPiece PROVE IInv'
<1>1. /\ pc' = "idle" /\ left' = left \ {piece} /\ ForgetFetch
      /\ UNCHANGED <<honest, has, choking, wire, reads, told, bitfield, window>>
  BY DEF GiveUpPiece
<1>2. ~Working' /\ window' \in MinInflight..MaxInflight
  BY <1>1 DEF Working, IInv, TypeOK
<1>3. asked' \subseteq asked
  BY DEF GiveUpPiece
<1>4. TypeOK' /\ TrueWire'
  BY <1>1, <1>2, <1>3, Forgotten DEF IInv, TypeOK, Flags, TrueWire
<1> QED
  BY <1>1, <1>2, <1>4, Forgotten DEF IInv

LEMMA FinishKeeps == ASSUME IInv, FinishPiece PROVE IInv'
<1>1. /\ pc' = "idle" /\ left' = left \ {piece} /\ ForgetFetch
      /\ UNCHANGED <<peer, reads, told, bitfield>>
  BY DEF FinishPiece
<1>2. window' \in MinInflight..MaxInflight
  BY WindowAssumption DEF FinishPiece, TuneOnSuccess, IInv, TypeOK
<1>3. ~Working'
  BY <1>1 DEF Working
<1>4. TypeOK' /\ TrueWire'
  BY <1>1, <1>2, <1>3, Forgotten DEF IInv, TypeOK, Flags, TrueWire, peer
<1> QED
  BY <1>1, <1>2, <1>3, <1>4, Forgotten DEF IInv

\* The window is filled up with the next blocks, which are neither in flight
\* nor received.
LEMMA RequestKeeps == ASSUME IInv, SendRequests PROVE IInv'
<1> DEFINE last == LastToRequest
<1>1. /\ pc = "fetch" /\ ~signalled /\ RequestTo(last) /\ Working
  BY DEF SendRequests, AtLoop, Working
<1>2. /\ Cardinality(inflight) \in 0..window /\ IsFiniteSet(inflight)
      /\ window \in Nat /\ next \in 1..(NumBlocks + 1) /\ NumBlocks \in Nat
  BY BlocksFinite, BlocksAssumption, WindowAssumption DEF IInv, TypeOK, WindowKept
<1>3. /\ last \in (next - 1)..NumBlocks
      /\ last - (next - 1) + Cardinality(inflight) <= window
  BY <1>2 DEF LastToRequest
<1>4. /\ inflight' = inflight \cup (next..last) /\ next' = last + 1
      /\ pc' = "read"
      /\ UNCHANGED <<honest, has, choking, wire, reads, told, bitfield, window,
                     left, piece, got, written, signalled, after>>
  BY <1>1 DEF RequestTo
<1> HIDE DEF last
<1>5. asked' \subseteq Content
  <2>1. {piece} \X (next..last) \subseteq Content
    BY <1>1, <1>2, <1>3 DEF IInv, Fetching, Content, Blocks
  <2> QED
    BY <1>1, <2>1 DEF RequestTo, IInv, TypeOK
<1>6. inflight \cap (next..last) = {} /\ Received \cap (next..last) = {}
  BY <1>2, <1>3 DEF IInv, BlocksAccounted
<1>7. WindowKept'
  <2>1. IsFiniteSet(next..last) /\ Cardinality(next..last) = last - next + 1
    <3>1. next \in Int /\ last \in Int /\ last >= next - 1
      BY <1>2, <1>3
    <3>2. /\ IsFiniteSet(next..last)
          /\ Cardinality(next..last) = IF next > last THEN 0 ELSE last - next + 1
      BY <3>1, FS_Interval
    <3> QED
      BY <3>1, <3>2
  <2>2. Cardinality(inflight \cap (next..last)) = 0
    BY <1>6, FS_EmptySet
  <2>3. Cardinality(inflight') = Cardinality(inflight) + Cardinality(next..last)
                                 - Cardinality(inflight \cap (next..last))
    BY <1>2, <1>4, <2>1, FS_Union, Zenon
  <2>4. Cardinality(inflight') = Cardinality(inflight) + (last - next + 1)
    BY <1>2, <1>3, <2>1, <2>2, <2>3
  <2>5. Cardinality(inflight') <= window'
    BY <1>2, <1>3, <1>4, <2>4
  <2> QED
    BY <2>5 DEF WindowKept
<1>8. BlocksAccounted'
  <2>1. Received' = Received
    BY <1>4 DEF Received
  <2>2. ASSUME NEW b PROVE b \in 1..(next - 1) \/ b \in next..last <=> b \in 1..last
    BY <1>2, <1>3
  <2>3. /\ inflight \cup Received = 1..(next - 1) /\ inflight \cap Received = {}
        /\ written = Cardinality(Received)
    BY DEF IInv, BlocksAccounted
  <2>4. inflight' \cup Received' = 1..last
    BY <1>4, <2>1, <2>2, <2>3
  <2>5. inflight' \cap Received' = {}
    BY <1>4, <1>6, <2>1, <2>3
  <2>6. written' = Cardinality(Received') /\ next' - 1 = last
    BY <1>2, <1>3, <1>4, <2>1, <2>3
  <2> QED
    BY <2>4, <2>5, <2>6 DEF BlocksAccounted
<1>9. TypeOK' /\ TrueWire'
  <2>1. inflight' \subseteq Blocks /\ next' \in 1..(NumBlocks + 1)
    BY <1>2, <1>3, <1>4 DEF IInv, TypeOK, Blocks
  <2> QED
    BY <1>4, <1>5, <2>1 DEF IInv, TypeOK, Flags, TrueWire
<1>10. Quiet' /\ Fetching' /\ SignalSeen' /\ TrueBlocks'
  BY <1>1, <1>4 DEF IInv, Quiet, Fetching, SignalSeen, TrueBlocks, Received, Working
<1> QED
  BY <1>7, <1>8, <1>9, <1>10 DEF IInv

-----------------------------------------------------------------------------
(* Reading during a fetch *)

\* What every message read has in common.
LEMMA ReadCommon ==
    ASSUME IInv, ReadStep, wire # <<>>
    PROVE  /\ Head(wire) \in Message /\ wire' \in Seq(Message) /\ TrueWire'
           /\ honest => Head(wire) \in TrueMessage
           /\ Working /\ Working' /\ SignalSeen' /\ after' \in 0..2
<1>1. /\ pc = "read" /\ pc' = "fetch" /\ wire' = Tail(wire)
      /\ UNCHANGED <<honest, signalled>>
      /\ after' = IF signalled /\ after < 2 THEN after + 1 ELSE after
  BY DEF ReadStep, Consume
<1>2. Head(wire) \in Message /\ wire' \in Seq(Message)
  BY <1>1, HeadTailProperties DEF IInv, TypeOK
<1>3. TrueWire' /\ (honest => Head(wire) \in TrueMessage)
  BY <1>1, HeadTailProperties DEF IInv, TrueWire
<1>4. after = 0
  BY <1>1 DEF IInv, SignalSeen
<1>5. SignalSeen' /\ after' \in 0..2
  <2>1. CASE signalled
    BY <2>1, <1>1, <1>4 DEF SignalSeen
  <2>2. CASE ~signalled
    BY <2>2, <1>1, <1>4 DEF SignalSeen
  <2> QED
    BY <2>1, <2>2
<1> QED
  BY <1>1, <1>2, <1>3, <1>5 DEF Working

\* A message that is not a block of this fetch.
LEMMA ReadAside ==
    ASSUME IInv, ReadStep, wire # <<>>, UNCHANGED <<inflight, got, written>>,
           bitfield' \subseteq Pieces, told' \in BOOLEAN
    PROVE  IInv'
<1>1. /\ pc' = "fetch"
      /\ UNCHANGED <<honest, has, choking, asked, reads, window, left, piece,
                     next, signalled, inflight, got, written>>
  BY DEF ReadStep, Consume
<1>2. TypeOK'
  BY <1>1, ReadCommon DEF IInv, TypeOK, Flags
<1>3. BlocksAccounted' /\ Quiet' /\ Fetching' /\ WindowKept' /\ TrueBlocks'
  BY <1>1, ReadCommon DEF IInv, BlocksAccounted, Received, Quiet, Fetching,
     WindowKept, TrueBlocks
<1> QED
  BY <1>2, <1>3, ReadCommon DEF IInv

\* An accepted block moves from those in flight to those received.
LEMMA BlockKeeps == ASSUME IInv, ReadBlock PROVE IInv'
<1> DEFINE b == Head(wire).block
           data == Head(wire).data
<1>1. /\ wire # <<>> /\ Head(wire).type = "piece" /\ Head(wire).piece = piece
      /\ b \in inflight /\ data # Short /\ ReadStep
      /\ got' = [got EXCEPT ![b] = data] /\ inflight' = inflight \ {b}
      /\ written' = written + 1 /\ UNCHANGED <<told, bitfield>>
  BY DEF ReadBlock, Reading, Accepted
<1>2. /\ pc' = "fetch"
      /\ UNCHANGED <<honest, has, choking, asked, reads, window, left, piece,
                     next, signalled>>
  BY <1>1 DEF ReadStep, Consume
<1>3. b \in Blocks /\ data \in Content \cup {Junk} /\ data # Nothing
  BY <1>1, ReadCommon, BlockMessages, ContentAssumption
<1>4. honest => data = <<piece, b>>
  BY <1>1, ReadCommon DEF TrueMessage
<1> HIDE DEF b, data
<1>5. Received' = Received \cup {b} /\ b \notin Received
  BY <1>1, <1>3 DEF IInv, TypeOK, Received, BlocksAccounted
<1>6. /\ Received \subseteq Blocks /\ Received' \subseteq Blocks
      /\ inflight \subseteq Blocks
  BY <1>3, <1>5 DEF Received, IInv, TypeOK
<1>7. Cardinality(Received') = Cardinality(Received) + 1
  BY <1>5, <1>6, BlocksFinite, FS_AddElement
<1>8. BlocksAccounted'
  <2>1. written' = Cardinality(Received')
    BY <1>1, <1>7 DEF IInv, BlocksAccounted
  <2>2. inflight' \cup Received' = 1..(next' - 1) /\ inflight' \cap Received' = {}
    BY <1>1, <1>2, <1>5 DEF IInv, BlocksAccounted
  <2> QED
    BY <2>1, <2>2 DEF BlocksAccounted
<1>9. WindowKept'
  <2>1. Cardinality(inflight') = Cardinality(inflight) - 1
    BY <1>1, <1>6, BlocksFinite, FS_RemoveElement
  <2>2. Cardinality(inflight) \in Nat /\ window \in Nat
    BY <1>6, BlocksFinite, WindowAssumption DEF IInv, TypeOK
  <2> QED
    BY <2>1, <2>2, <1>2 DEF IInv, WindowKept
<1>10. TrueBlocks'
  BY <1>1, <1>2, <1>4, <1>5, <1>6 DEF IInv, TypeOK, TrueBlocks
<1>11. TypeOK'
  <2>1. written' \in 0..NumBlocks
    BY <1>6, <1>8, BlocksFinite DEF BlocksAccounted
  <2>2. got' \in [Blocks -> Content \cup {Nothing, Junk}]
    BY <1>1, <1>3 DEF IInv, TypeOK
  <2> QED
    BY <1>1, <1>2, <1>6, <2>1, <2>2, ReadCommon DEF IInv, TypeOK, Flags
<1> QED
  BY <1>1, <1>2, <1>8, <1>9, <1>10, <1>11, ReadCommon DEF IInv, Quiet, Fetching

LEMMA FetchKeeps == ASSUME IInv, FetchStep PROVE IInv'
<1>1. CASE SendRequests
  BY <1>1, RequestKeeps
<1>2. CASE GiveUpPiece
  BY <1>2, GiveUpKeeps
<1>3. CASE ReadBlock
  BY <1>3, BlockKeeps
<1>4. CASE ReadStray \/ ReadOther
  <2>1. /\ ReadStep /\ wire # <<>>
        /\ UNCHANGED <<told, bitfield, inflight, got, written>>
    BY <1>4 DEF ReadStray, ReadOther, Reading
  <2> QED
    BY <2>1, ReadAside DEF IInv, TypeOK, Flags
<1>5. CASE ReadInfo
  <2>1. /\ ReadStep /\ TakeBitfield /\ wire # <<>>
        /\ Head(wire).type \in {"bitfield", "have"}
        /\ UNCHANGED <<inflight, got, written>>
    BY <1>5 DEF ReadInfo, Reading
  <2> QED
    BY <2>1, ReadAside, ReadCommon, BitfieldTaken
<1>6. CASE ReadEnds \/ FetchFails \/ HashMismatch
  BY <1>6, CloseKeeps DEF ReadEnds, FetchFails, HashMismatch
<1>7. CASE FinishPiece
  BY <1>7, FinishKeeps
<1> QED
  BY <1>1, <1>2, <1>3, <1>4, <1>5, <1>6, <1>7 DEF FetchStep

LEMMA NextIInv == ASSUME IInv, [Next]_vars PROVE IInv'
<1>1. CASE PeerStep
  BY <1>1, PeerKeeps
<1>2. CASE SetupStep
  BY <1>2, SetupKeeps
<1>3. CASE FetchStep
  BY <1>3, FetchKeeps
<1>4. CASE BetweenStep
  BY <1>4, StartKeeps, CloseKeeps DEF BetweenStep, Drop, StartMissing
<1>5. CASE CompletedByOther
  BY <1>5, SignalKeeps
<1>6. CASE Rest \/ UNCHANGED vars
  <2>1. UNCHANGED <<peer, session, fetch>>
    BY <1>6 DEF Rest, vars
  <2>2. TypeOK' /\ BlocksAccounted' /\ Quiet' /\ Fetching'
    BY <2>1 DEF IInv, TypeOK, Flags, BlocksAccounted, Received, Quiet, Fetching,
       Working, peer, session, fetch
  <2>3. WindowKept' /\ SignalSeen' /\ TrueWire' /\ TrueBlocks'
    BY <2>1 DEF IInv, WindowKept, SignalSeen, TrueWire, TrueBlocks, Received,
       peer, session, fetch
  <2> QED
    BY <2>2, <2>3 DEF IInv
<1> QED
  BY <1>1, <1>2, <1>3, <1>4, <1>5, <1>6 DEF Next

-----------------------------------------------------------------------------
(* Theorems *)

\* Every reachable state of a session satisfies the invariant.
THEOREM Inductive == Spec => []IInv
<1>1. Init => IInv
  BY InitIInv
<1>2. IInv /\ [Next]_vars => IInv'
  BY NextIInv
<1> QED
  BY <1>1, <1>2, PTL DEF Spec

\* The variables of a session keep their types; the window stays in bounds.
THEOREM TypeCorrect == Spec => []TypeOK
<1>1. IInv => TypeOK
  BY DEF IInv
<1> QED
  BY <1>1, Inductive, PTL

\* downloadPieceFromSession neither loses a block nor counts one twice,
\* whatever the peer sends.
THEOREM Accounting == Spec => []BlocksAccounted
<1>1. IInv => BlocksAccounted
  BY DEF IInv
<1> QED
  BY <1>1, Inductive, PTL

\* The hash check of downloadPieceFromSession never fails on an honest peer,
\* whatever is still under way from a piece that was given up.
THEOREM HonestNeverBlamed == Spec => []NoFalseMismatch
<1>1. ASSUME IInv PROVE NoFalseMismatch
  <2> SUFFICES ASSUME honest, written = NumBlocks PROVE Intact
    BY DEF NoFalseMismatch
  <2>1. Received \subseteq Blocks /\ Cardinality(Received) = Cardinality(Blocks)
    BY <1>1, BlocksFinite DEF IInv, BlocksAccounted, Received
  <2>2. Received = Blocks
    BY <2>1, BlocksFinite, FS_Subset
  <2> QED
    BY <1>1, <2>2 DEF IInv, TrueBlocks, Intact
<1>2. IInv => NoFalseMismatch
  BY <1>1
<1> QED
  BY <1>2, Inductive, PTL

\* A worker reads at most one message after it was told that the piece is
\* complete.
THEOREM CancelPrompt == Spec => []CancelSeenSoon
<1>1. IInv => CancelSeenSoon
  BY DEF IInv, SignalSeen, CancelSeenSoon
<1> QED
  BY <1>1, Inductive, PTL

=============================================================================
