------------------------------ MODULE Metadata ------------------------------
(***************************************************************************)
(* The info dictionary of a magnet link, fetched from peers: fetchMetadata *)
(* on one connection and FetchMetadataFromPeersWithProgress on several     *)
(* (src/internal/protocol/metadata.go).                                    *)
(*                                                                         *)
(* A feeder hands the peers one by one to a few workers over an unbuffered *)
(* channel.  A worker reports what became of each peer on resultCh.  The   *)
(* caller returns at the first success and cancels the rest; goroutines    *)
(* that are in the middle of a fetch go on after that, because a fetch     *)
(* does not look at the context.                                           *)
(*                                                                         *)
(* In a fetch the pieces of the dictionary are requested one after the     *)
(* other.  What arrives is stored at the place of the piece that was asked *)
(* for last, whichever piece it is.  A stored piece is the number of the   *)
(* piece whose bytes it has, or Junk.  An honest peer answers each request *)
(* once, in any order, with messages of other kinds in between.            *)
(***************************************************************************)
EXTENDS Integers, FiniteSets, Swarm

CONSTANTS
    Workers,        \* the most workers there may be: maxConcurrentPeers
    Honest,         \* the peers that answer what they are asked, correctly
    MetaPieces,     \* numPieces of the dictionary
    MaxSkip,        \* messages read in wait for one answer
    NoPeer

ASSUME MetadataAssumption ==
    /\ IsFiniteSet(Workers)
    /\ Honest \subseteq Peers /\ NoPeer \notin Peers
    /\ MetaPieces \in Nat \ {0} /\ MaxSkip \in Nat \ {0}

Places  == 1..MetaPieces
Junk    == 0
Nothing == [i \in Places |-> Junk]     \* assembled, before anything is copied to it
Dict    == [i \in Places |-> i]        \* the bytes whose hash is the info hash

VARIABLES
    fpc,            \* the caller: "off", "receive", "join", "returned"
    outcome,        \* what it returns: "none", "info", "error"
    waiting,        \* peers the feeder has not handed over
    feeding,        \* the feeder has not closed peerCh
    cancelled,      \* the context is done
    got,            \* results received
    inbox,          \* the peers whose result is in resultCh
    verdict,        \* what became of each peer: "none", "valid", "failed", "mismatch"
    asked,          \* len(peers): the peers of this call
    \* worker w
    wpc,            \* "gone", "idle", "dial", "hello", "piece", "report"
    wpeer,
    want,           \* the piece it has asked for last
    pending,        \* the requests the peer has not answered
    skip,
    assembled

caller   == <<fpc, outcome, waiting, feeding, cancelled, got, inbox, asked>>
fetcher  == <<wpc, wpeer, want, pending, skip, assembled>>
metadata == <<caller, verdict, fetcher>>

InitMetadata ==
    /\ fpc = "off" /\ outcome = "none"
    /\ waiting = {} /\ feeding = FALSE /\ cancelled = FALSE
    /\ got = 0 /\ inbox = {} /\ asked = {}
    /\ verdict = [p \in Peers |-> "none"]
    /\ wpc = [w \in Workers |-> "gone"]
    /\ wpeer = [w \in Workers |-> NoPeer]
    /\ want = [w \in Workers |-> 0]
    /\ pending = [w \in Workers |-> {}]
    /\ skip = [w \in Workers |-> 0]
    /\ assembled = [w \in Workers |-> Nothing]

-----------------------------------------------------------------------------
(* The caller and the feeder *)

\* A worker for each peer, up to the limit.
FetchFrom(S) ==
    /\ fpc = "off"
    /\ S # {}
    /\ \E W \in SUBSET Workers :
          /\ Cardinality(W) = IF Cardinality(S) < Cardinality(Workers)
                              THEN Cardinality(S) ELSE Cardinality(Workers)
          /\ wpc' = [w \in Workers |-> IF w \in W THEN "idle" ELSE "gone"]
    /\ fpc' = "receive"
    /\ waiting' = S /\ asked' = S
    /\ feeding' = TRUE
    /\ UNCHANGED <<outcome, cancelled, got, inbox, verdict,
                   wpeer, want, pending, skip, assembled>>

FetchFromNone ==
    /\ fpc = "off"
    /\ fpc' = "returned"
    /\ outcome' = "error"
    /\ UNCHANGED <<waiting, feeding, cancelled, got, inbox, asked, verdict, fetcher>>

ReceiveInfo ==
    /\ fpc = "receive"
    /\ \E p \in inbox : verdict[p] = "valid" /\ inbox' = inbox \ {p}
    /\ fpc' = "returned"
    /\ outcome' = "info"
    /\ cancelled' = TRUE
    /\ UNCHANGED <<waiting, feeding, got, asked, verdict, fetcher>>

ReceiveError ==
    /\ fpc = "receive"
    /\ \E p \in inbox : verdict[p] # "valid" /\ inbox' = inbox \ {p}
    /\ got' = got + 1
    /\ fpc' = IF got' = Cardinality(asked) THEN "join" ELSE "receive"
    /\ UNCHANGED <<outcome, waiting, feeding, cancelled, asked, verdict, fetcher>>

\* wg.Wait, then the deferred cancel.
Join ==
    /\ fpc = "join"
    /\ \A w \in Workers : wpc[w] = "gone"
    /\ fpc' = "returned"
    /\ outcome' = "error"
    /\ cancelled' = TRUE
    /\ UNCHANGED <<waiting, feeding, got, inbox, asked, verdict, fetcher>>

\* The feeder closes peerCh when it has handed over all peers or is cancelled.
FeederEnds ==
    /\ feeding
    /\ waiting = {} \/ cancelled
    /\ feeding' = FALSE
    /\ UNCHANGED <<fpc, outcome, waiting, cancelled, got, inbox, asked, verdict, fetcher>>

-----------------------------------------------------------------------------
(* Worker w *)

\* The feeder and the worker may still meet after the cancellation.
TakePeer(w) ==
    /\ wpc[w] = "idle"
    /\ feeding
    /\ \E p \in waiting :
          /\ waiting' = waiting \ {p}
          /\ wpeer' = [wpeer EXCEPT ![w] = p]
    /\ wpc' = [wpc EXCEPT ![w] = "dial"]
    /\ UNCHANGED <<fpc, outcome, feeding, cancelled, got, inbox, asked, verdict,
                   want, pending, skip, assembled>>

NoPeerLeft(w) ==
    /\ wpc[w] = "idle"
    /\ ~feeding \/ cancelled
    /\ wpc' = [wpc EXCEPT ![w] = "gone"]
    /\ UNCHANGED <<caller, verdict, wpeer, want, pending, skip, assembled>>

\* Connection and handshake; both ends support extensions.
Dial(w) ==
    /\ wpc[w] = "dial"
    /\ wpc' = [wpc EXCEPT ![w] = "hello"]
    /\ UNCHANGED <<caller, verdict, wpeer, want, pending, skip, assembled>>

\* The fetch from the peer of w ends with verdict v; the connection is closed.
Ends(w, v) ==
    /\ verdict' = [verdict EXCEPT ![wpeer[w]] = v]
    /\ wpc' = [wpc EXCEPT ![w] = "report"]
    /\ want' = [want EXCEPT ![w] = 0]
    /\ pending' = [pending EXCEPT ![w] = {}]
    /\ skip' = [skip EXCEPT ![w] = 0]
    /\ assembled' = [assembled EXCEPT ![w] = Nothing]
    /\ UNCHANGED <<caller, wpeer>>

\* The dial or the connection fails, a deadline passes, the peer lacks the
\* extension or gives no usable size, it rejects a piece, the dictionary does
\* not decode, or the fetch panics.
FetchFails(w) ==
    /\ wpc[w] \in {"dial", "hello", "piece"}
    /\ Ends(w, "failed")

\* The extended handshake of the peer with its size: request the first piece.
RequestAll(w) ==    \* slip: all pieces are requested at once
    /\ wpc[w] = "hello"
    /\ wpc' = [wpc EXCEPT ![w] = "piece"]
    /\ want' = [want EXCEPT ![w] = 1]
    /\ pending' = [pending EXCEPT ![w] = Places]
    /\ skip' = [skip EXCEPT ![w] = 0]
    /\ UNCHANGED <<caller, verdict, wpeer, assembled>>
ReadHello(w) ==
    /\ wpc[w] = "hello"
    /\ wpc' = [wpc EXCEPT ![w] = "piece"]
    /\ want' = [want EXCEPT ![w] = 1]
    /\ pending' = [pending EXCEPT ![w] = {1}]
    /\ skip' = [skip EXCEPT ![w] = 0]
    /\ UNCHANGED <<caller, verdict, wpeer, assembled>>

\* A message of another kind; there may be MaxSkip in a row.
SkipForever(w) ==   \* slip: messages of other kinds are not counted
    /\ wpc[w] \in {"hello", "piece"}
    /\ skip' = [skip EXCEPT ![w] = 1 - @]
    /\ UNCHANGED <<caller, verdict, wpc, wpeer, want, pending, assembled>>
ReadOther(w) ==
    /\ wpc[w] \in {"hello", "piece"}
    /\ IF skip[w] + 1 < MaxSkip
       THEN /\ skip' = [skip EXCEPT ![w] = @ + 1]
            /\ UNCHANGED <<caller, verdict, wpc, wpeer, want, pending, assembled>>
       ELSE Ends(w, "failed")

\* What a data message may bring: the bytes of a piece that was requested and
\* not answered yet, or from a peer that is not honest any bytes.  (A dictionary
\* of another size than it should be can only mismatch as well.)
Incoming(w) == IF wpeer[w] \in Honest THEN pending[w] ELSE Places \cup {Junk}

\* A data message is copied to the place of the piece asked for.  After the last
\* one the hash is compared.
ReadData(w) ==
    /\ wpc[w] = "piece"
    /\ \E j \in Incoming(w) :
          LET i == want[w]
              a == [assembled[w] EXCEPT ![i] = j] IN
          IF i < MetaPieces
          THEN /\ assembled' = [assembled EXCEPT ![w] = a]
               /\ want' = [want EXCEPT ![w] = i + 1]
               /\ pending' = [pending EXCEPT ![w] = (@ \ {j}) \cup {i + 1}]
               /\ skip' = [skip EXCEPT ![w] = 0]
               /\ UNCHANGED <<caller, verdict, wpc, wpeer>>
          ELSE Ends(w, IF a = Dict THEN "valid" ELSE "mismatch")

Report(w) ==
    /\ wpc[w] = "report"
    /\ \/ inbox' = inbox \cup {wpeer[w]}
       \/ cancelled /\ UNCHANGED inbox
    /\ wpc' = [wpc EXCEPT ![w] = IF verdict[wpeer[w]] = "valid" THEN "gone" ELSE "idle"]
    /\ wpeer' = [wpeer EXCEPT ![w] = NoPeer]
    /\ UNCHANGED <<fpc, outcome, waiting, feeding, cancelled, got, asked, verdict,
                   want, pending, skip, assembled>>

WorkerStep(w) ==
    \/ TakePeer(w) \/ NoPeerLeft(w) \/ Dial(w) \/ ReadHello(w) \/ ReadOther(w)
    \/ ReadData(w) \/ FetchFails(w) \/ Report(w)

CallerStep == ReceiveInfo \/ ReceiveError \/ Join

MetadataStep == CallerStep \/ FeederEnds \/ \E w \in Workers : WorkerStep(w)
=============================================================================
