------------------------------ MODULE Transfer ------------------------------
(***************************************************************************)
(* A session with one peer: newPeerSession, downloadPieceFromSession and   *)
(* the tuning of the request window                                        *)
(* (src/internal/downloader/downloader.go).                                *)
(*                                                                         *)
(* A connector sets the session up and waits to be unchoked.  A worker     *)
(* then fetches one piece after another over it.  It keeps a window of     *)
(* block requests open, accepts the blocks in any order, ignores what it   *)
(* did not ask for, and gives the piece up when another worker has         *)
(* completed it: the session is kept, and answers to what it had asked may *)
(* still come while it fetches the next piece.                             *)
(*                                                                         *)
(* The connection delivers messages in order until it is closed.  A block  *)
(* of a piece is its bytes, here the pair of piece and block.  The remote  *)
(* peer is not part of the program: it keeps to the protocol, and a broken *)
(* one may also corrupt, shorten or repeat blocks.                         *)
(***************************************************************************)
EXTENDS Integers, Sequences, FiniteSets

CONSTANTS
    Pieces,             \* the pieces a worker may fetch over the session
    NumBlocks,          \* the blocks of a piece
    MinInflight,        \* minInflightPerPeer
    DefaultInflight,    \* defaultInflightPeer
    MaxInflight,        \* maxInflightPerPeer
    SetupReads,         \* the messages read before the session is given up
    MaxWire,            \* bound: messages sent by the peer and not yet read
    NoPiece, Nothing, Junk, Short

Blocks   == 1..NumBlocks
Content  == Pieces \X Blocks

ASSUME PiecesAssumption == NoPiece \notin Pieces
ASSUME BlocksAssumption == NumBlocks \in Nat \ {0}
ASSUME WindowAssumption ==
    /\ {MinInflight, DefaultInflight, MaxInflight} \subseteq Nat
    /\ MinInflight <= DefaultInflight /\ DefaultInflight <= MaxInflight
ASSUME BoundsAssumption == SetupReads \in Nat /\ MaxWire \in Nat
ASSUME ContentAssumption ==
    /\ {Nothing, Junk, Short} \cap Content = {}
    /\ Nothing # Junk /\ Nothing # Short /\ Junk # Short

VARIABLES
    \* the remote peer
    honest,     \* whether it keeps to the protocol
    has,        \* the pieces it has
    choking,    \* whether it chokes us
    asked,      \* the requests it has yet to answer
    wire,       \* its messages under way to us
    \* the session
    pc,         \* "handshake", "setup", "idle", "fetch", "read", "closed"
    reads,      \* messages read during the set-up
    told,       \* whether bitfield has been filled at all
    bitfield,   \* the pieces it says it has
    window,     \* sess.inflight
    left,       \* the pieces that are still incomplete
    \* the fetch
    piece,
    inflight,   \* the blocks requested and not received
    next,       \* nextBegin
    got,        \* pieceData
    written,
    signalled,  \* another worker has completed the piece
    after       \* messages read since, counted to 2

peer    == <<honest, has, choking, asked, wire>>
session == <<pc, reads, told, bitfield, window, left>>
fetch   == <<piece, inflight, next, got, written, signalled, after>>
vars    == <<peer, session, fetch>>

Init ==
    /\ honest \in BOOLEAN
    /\ has \in SUBSET Pieces
    /\ choking = TRUE
    /\ asked = {}
    /\ wire = <<>>
    /\ pc = "handshake"
    /\ reads = 0
    /\ told = FALSE
    /\ bitfield = {}
    /\ window = DefaultInflight
    /\ left = Pieces
    /\ piece = NoPiece
    /\ inflight = {}
    /\ next = 1
    /\ got = [b \in Blocks |-> Nothing]
    /\ written = 0
    /\ signalled = FALSE
    /\ after = 0

-----------------------------------------------------------------------------
(* The remote peer *)

Send(m) ==
    /\ pc \notin {"handshake", "closed"}
    /\ Len(wire) < MaxWire
    /\ wire' = Append(wire, m)

SendBitfield ==
    /\ Send([type |-> "bitfield", pieces |-> has])
    /\ UNCHANGED <<honest, has, choking, asked, session, fetch>>

GainPiece(p) ==
    /\ p \notin has
    /\ has' = has \cup {p}
    /\ Send([type |-> "have", piece |-> p])
    /\ UNCHANGED <<honest, choking, asked, session, fetch>>

Unchoke ==
    /\ choking
    /\ choking' = FALSE
    /\ Send([type |-> "unchoke"])
    /\ UNCHANGED <<honest, has, asked, session, fetch>>

\* A choke drops the requests that were not answered.
Choke ==
    /\ ~choking
    /\ choking' = TRUE
    /\ asked' = {}
    /\ Send([type |-> "choke"])
    /\ UNCHANGED <<honest, has, session, fetch>>

\* A keep-alive or an extended message.
SendOther ==
    /\ Send([type |-> "other"])
    /\ UNCHANGED <<honest, has, choking, asked, session, fetch>>

Answer(r) ==
    /\ r \in asked
    /\ \E data \in IF honest THEN {r} ELSE {r, Junk, Short} :
          Send([type |-> "piece", piece |-> r[1], block |-> r[2], data |-> data])
    /\ \/ asked' = asked \ {r}
       \/ ~honest /\ asked' = asked
    /\ UNCHANGED <<honest, has, choking, session, fetch>>

PeerStep ==
    \/ SendBitfield \/ Unchoke \/ Choke \/ SendOther
    \/ \E p \in Pieces : GainPiece(p)
    \/ \E r \in asked : Answer(r)

-----------------------------------------------------------------------------
(* What the session does with its end of the connection *)

ForgetFetch ==
    /\ piece' = NoPiece
    /\ inflight' = {}
    /\ next' = 1
    /\ got' = [b \in Blocks |-> Nothing]
    /\ written' = 0
    /\ signalled' = FALSE
    /\ after' = 0

\* The connection is closed.  tuneInflightOnFailure has no effect that lasts:
\* the window is dropped with the session.
CloseSession ==
    /\ pc' = "closed"
    /\ wire' = <<>>
    /\ asked' = {}
    /\ reads' = 0
    /\ told' = FALSE
    /\ bitfield' = {}
    /\ window' = DefaultInflight
    /\ ForgetFetch
    /\ UNCHANGED <<honest, has, choking, left>>

Reading(type) == wire # <<>> /\ Head(wire).type = type

Consume == wire' = Tail(wire) /\ UNCHANGED <<honest, has, choking, asked>>

\* MsgBitfield and MsgHave, in the set-up and in a fetch.
TakeBitfield ==
    IF Head(wire).type = "bitfield"
    THEN told' = TRUE /\ bitfield' = Head(wire).pieces
    ELSE told' = TRUE /\ bitfield' = bitfield \cup {Head(wire).piece}

-----------------------------------------------------------------------------
(* newPeerSession *)

\* Handshake and interest.
Handshake ==
    /\ pc = "handshake"
    /\ pc' = "setup"
    /\ UNCHANGED <<peer, reads, told, bitfield, window, left, fetch>>

SetupRead ==
    /\ pc = "setup"
    /\ reads < SetupReads
    /\ Consume

SetupInfo ==
    /\ Reading("bitfield") \/ Reading("have")
    /\ SetupRead
    /\ TakeBitfield
    /\ reads' = reads + 1
    /\ UNCHANGED <<pc, window, left, fetch>>

SetupUncounted ==   \* slip: a message without news is not counted
    /\ Reading("other") \/ Reading("piece")
    /\ SetupRead
    /\ UNCHANGED <<pc, reads, told, bitfield, window, left, fetch>>
SetupOther ==
    /\ Reading("other") \/ Reading("piece")
    /\ SetupRead
    /\ reads' = reads + 1
    /\ UNCHANGED <<pc, told, bitfield, window, left, fetch>>

SetupUnchoked ==
    /\ Reading("unchoke")
    /\ SetupRead
    /\ pc' = "idle"
    /\ reads' = 0
    /\ UNCHANGED <<told, bitfield, window, left, fetch>>

\* An error, a deadline, a choke, or too many messages without an unchoke.
SetupFails ==
    /\ pc \in {"handshake", "setup"}
    /\ CloseSession

-----------------------------------------------------------------------------
(* downloadPieceFromSession *)

\* errPeerMissingPiece costs the session.
StartFetch(p) ==
    /\ pc = "idle"
    /\ p \in left
    /\ ~told \/ p \in bitfield
    /\ pc' = "fetch"
    /\ piece' = p
    /\ UNCHANGED <<peer, reads, told, bitfield, window, left, inflight, next,
                   got, written, signalled, after>>

StartMissing(p) ==
    /\ pc = "idle"
    /\ p \in left
    /\ told /\ p \notin bitfield
    /\ CloseSession

\* Another worker completes the piece, and the bus signals this fetch.
CompletedByOther ==
    /\ pc \in {"fetch", "read"}
    /\ ~signalled
    /\ signalled' = TRUE
    /\ UNCHANGED <<peer, session, piece, inflight, next, got, written, after>>

\* The head of the loop, with blocks still missing and no signal: requests are
\* sent until the window is full.  A peer that chokes us or lacks the piece
\* ignores them.
AtLoop == pc = "fetch" /\ written < NumBlocks

RequestTo(last) ==
    /\ inflight' = inflight \cup (next..last)
    /\ next' = last + 1
    /\ asked' = IF choking \/ piece \notin has
                THEN asked ELSE asked \cup ({piece} \X (next..last))
    /\ pc' = "read"
    /\ UNCHANGED <<honest, has, choking, wire, reads, told, bitfield, window,
                   left, piece, got, written, signalled, after>>

LastToRequest ==
    LET room == window - Cardinality(inflight)
    IN  IF next - 1 + room <= NumBlocks THEN next - 1 + room ELSE NumBlocks

SendUnlooked == AtLoop /\ RequestTo(LastToRequest)   \* slip: no look at the signal
SendFirstRequests ==   \* slip: the window is not filled up again
    /\ AtLoop
    /\ ~signalled
    /\ RequestTo(IF next = 1 THEN LastToRequest ELSE next - 1)
SendRequests ==
    /\ AtLoop
    /\ ~signalled
    /\ RequestTo(LastToRequest)

\* Cancels go out for the blocks in flight.  The peer heeds them or answers
\* anyway; the session is kept and the piece is complete.
GiveUpPiece ==
    /\ AtLoop
    /\ signalled
    /\ \E heeded \in SUBSET ({piece} \X inflight) : asked' = asked \ heeded
    /\ left' = left \ {piece}
    /\ pc' = "idle"
    /\ ForgetFetch
    /\ UNCHANGED <<honest, has, choking, wire, reads, told, bitfield, window>>

ReadStep ==
    /\ pc = "read"
    /\ Consume
    /\ pc' = "fetch"
    /\ after' = IF signalled /\ after < 2 THEN after + 1 ELSE after
    /\ UNCHANGED <<reads, window, left, piece, next, signalled>>

\* A block counts if it is of this piece and in flight.
AcceptAnyPiece(m) == m.block \in inflight   \* slip: the index is not compared
AcceptTwice(m) == m.piece = piece   \* slip: what is in flight is not consulted
Accepted(m) == m.piece = piece /\ m.block \in inflight

ReadBlock ==
    /\ Reading("piece")
    /\ Accepted(Head(wire))
    /\ Head(wire).data # Short
    /\ ReadStep
    /\ got' = [got EXCEPT ![Head(wire).block] = Head(wire).data]
    /\ inflight' = inflight \ {Head(wire).block}
    /\ written' = written + 1
    /\ UNCHANGED <<told, bitfield>>

ReadStray ==
    /\ Reading("piece")
    /\ ~Accepted(Head(wire))
    /\ ReadStep
    /\ UNCHANGED <<told, bitfield, inflight, got, written>>

ReadInfo ==
    /\ \/ Reading("have")
       \/ Reading("bitfield") /\ piece \in Head(wire).pieces
    /\ ReadStep
    /\ TakeBitfield
    /\ UNCHANGED <<inflight, got, written>>

ReadOther ==
    /\ Reading("other") \/ Reading("unchoke")
    /\ ReadStep
    /\ UNCHANGED <<told, bitfield, inflight, got, written>>

\* What ends the fetch and the session: a short block, a bitfield without the
\* piece, a choke.
ReadEnds ==
    /\ pc = "read"
    /\ \/ Reading("piece") /\ Accepted(Head(wire)) /\ Head(wire).data = Short
       \/ Reading("bitfield") /\ piece \notin Head(wire).pieces
       \/ Reading("choke")
    /\ CloseSession

\* A send or a read fails, or the read deadline passes.
FetchFails ==
    /\ pc \in {"fetch", "read"}
    /\ written < NumBlocks
    /\ CloseSession

\* The hash is compared; on success the worker writes the piece, and the
\* window grows, shrinks or stays, by the time the fetch took.
Intact == \A b \in Blocks : got[b] = <<piece, b>>

TuneOnSuccess ==
    window' \in {window} \cup (IF window < MaxInflight THEN {window + 1} ELSE {})
                         \cup (IF window > MinInflight THEN {window - 1} ELSE {})

FinishPiece ==
    /\ pc = "fetch"
    /\ written = NumBlocks
    /\ Intact
    /\ TuneOnSuccess
    /\ left' = left \ {piece}
    /\ pc' = "idle"
    /\ ForgetFetch
    /\ UNCHANGED <<peer, reads, told, bitfield>>

HashMismatch ==
    /\ pc = "fetch"
    /\ written = NumBlocks
    /\ ~Intact
    /\ CloseSession

\* The worker leaves the session: it has served enough, or the run ends.
Drop ==
    /\ pc = "idle"
    /\ CloseSession

Rest == pc = "closed" /\ UNCHANGED vars

SetupStep == Handshake \/ SetupInfo \/ SetupOther \/ SetupUnchoked \/ SetupFails

FetchStep ==
    \/ SendRequests \/ GiveUpPiece
    \/ ReadBlock \/ ReadStray \/ ReadInfo \/ ReadOther \/ ReadEnds
    \/ FetchFails \/ FinishPiece \/ HashMismatch

BetweenStep == Drop \/ \E p \in Pieces : StartFetch(p) \/ StartMissing(p)

Next ==
    \/ PeerStep
    \/ SetupStep
    \/ FetchStep
    \/ BetweenStep
    \/ CompletedByOther
    \/ Rest

Spec == Init /\ [][Next]_vars

\* The goroutine that has the session goes on, its reads have a deadline, and
\* the peer answers each request that it did not ignore.  It may also send
\* other messages without end.
FairSpec ==
    /\ Spec
    /\ WF_vars(SetupStep)
    /\ WF_vars(FetchStep)
    /\ \A r \in Content : SF_vars(Answer(r))

-----------------------------------------------------------------------------
(* Properties *)

Message ==
    [type : {"bitfield"}, pieces : SUBSET Pieces]
      \cup [type : {"have"}, piece : Pieces]
      \cup [type : {"unchoke", "choke", "other"}]
      \cup [type : {"piece"}, piece : Pieces, block : Blocks,
            data : Content \cup {Junk, Short}]

Flags == {honest, choking, told, signalled} \subseteq BOOLEAN

TypeOK ==
    /\ Flags
    /\ has \subseteq Pieces
    /\ asked \subseteq Content
    /\ wire \in Seq(Message)
    /\ pc \in {"handshake", "setup", "idle", "fetch", "read", "closed"}
    /\ reads \in 0..SetupReads
    /\ bitfield \subseteq Pieces
    /\ window \in MinInflight..MaxInflight
    /\ left \subseteq Pieces
    /\ piece \in Pieces \cup {NoPiece}
    /\ inflight \subseteq Blocks
    /\ next \in 1..(NumBlocks + 1)
    /\ got \in [Blocks -> Content \cup {Nothing, Junk}]
    /\ written \in 0..NumBlocks
    /\ after \in 0..2

\* Every block up to nextBegin is in flight or received, not both, and written
\* counts the received ones, whatever is repeated, stray or out of order: the
\* loop ends when, and only when, the piece is whole.
Received == {b \in Blocks : got[b] # Nothing}

BlocksAccounted ==
    /\ inflight \cup Received = 1..(next - 1)
    /\ inflight \cap Received = {}
    /\ written = Cardinality(Received)

\* A peer that keeps to the protocol never causes a hash mismatch, for which it
\* would be quarantined: its late answers to a fetch that was given up are not
\* taken for blocks of the next one.
NoFalseMismatch == honest /\ pc = "fetch" /\ written = NumBlocks => Intact

\* "check if another worker already completed this piece": at most the message
\* being waited for is read after the signal.
CancelSeenSoon == after <= 1

\* A set-up ends, however many messages a peer sends that never unchokes.
SetupEnds == pc = "setup" ~> pc # "setup"

\* A fetch goes on for ever only if a request of it is ignored from some time
\* on, by a peer that sends other messages in time.
Owed(b) ==
    \/ <<piece, b>> \in asked
    \/ \E i \in 1..Len(wire) : /\ wire[i].type = "piece"
                               /\ wire[i].piece = piece /\ wire[i].block = b
Ignored == \E b \in inflight : ~Owed(b)

FetchEnds == <>[](pc \in {"fetch", "read"}) => <>[]Ignored

=============================================================================
