------------------------------ MODULE Lifecycle ------------------------------
(***************************************************************************)
(* One run of the command, from the mapping of the port to its exit, and   *)
(* what it lets others know: main and its announcer                        *)
(* (src/cmd/torrent-client/main.go), discoveryLoop and the progress hook   *)
(* of the engine (src/internal/downloader/downloader.go), announces        *)
(* (src/internal/tracker/tracker.go), src/internal/portmap/portmap.go.     *)
(*                                                                         *)
(* The engine only says when pieces are completed and what it returns:     *)
(* Download shows that it returns when its workers have ended, and without *)
(* an error only if every piece is there.  Lengths are counted in pieces.  *)
(* What is sent is recorded as if it always arrived: a lost announce tells *)
(* less.  An announce and its retries are one step, of which main gets an  *)
(* answer or none.  The order of a tracker list makes no difference.       *)
(***************************************************************************)
EXTENDS Integers, Sequences, FiniteSets

CONSTANTS
    Own,            \* trackers that the torrent or the magnet link names
    Public,         \* publicTrackerFallback
    Preferred,      \* preferredMagnetTrackers
    MaxMagnet,      \* maxMagnetTrackers: 6
    DHT,            \* the nodes of the DHT, as one listener
    Pieces,         \* how many there are
    Workers,
    Rounds,         \* maxRounds of gatherPeers: 3
    FewPeers,       \* 5
    TargetPeers,    \* 80
    Idle, Marked    \* what a worker does

Trackers == Own \cup Public

ASSUME ListsAssumption ==
    /\ Preferred \subseteq Public /\ DHT \notin Trackers
    /\ {"off", "look", "wait"} \cap Trackers = {}
    /\ IsFiniteSet(Trackers) /\ MaxMagnet \in Nat /\ Cardinality(Preferred) <= MaxMagnet
ASSUME NumbersAssumption ==
    /\ {Pieces, Rounds, FewPeers, TargetPeers} \subseteq Nat \ {0}
    /\ Idle # Marked /\ {Idle, Marked} \cap Nat = {}
    /\ IsFiniteSet(Workers)

VARIABLES
    \* main
    kind,           \* of the input: "file" or "magnet"
    private,        \* what the info dictionary says
    known,          \* main has the info dictionary
    pc, status,     \* where main is; its exit code
    deferred,       \* deferred calls, the last first to run
    mapper,         \* protocol of the mapping that main knows of
    mapping,        \* protocol of the mapping the router holds
    list,           \* trackerURLs
    todo,           \* trackers main has still to announce to
    round, found,   \* of gatherPeers; peers found so far
    left,           \* leftBytes
    farewell,       \* left, as loaded for the last announce
    \* the announcer of main
    announcing, announced, \* trackers still to announce to; left, as loaded
    ticking,        \* it was started
    \* the engine
    engine,         \* "idle", "running", "ok", "failed"
    done,           \* pieces that are there
    counted,        \* downloadedBytes
    hook,           \* what each worker is about to do: count, or report a count
    finder, finding, finds, \* discoveryLoop: where it is; trackers to do; its list
    \* history, of what is sent
    said,           \* events but "started", for each tracker
    claim,          \* the least "left", for each tracker
    told            \* who was told of the torrent when it was known

input   == <<kind, private>>
ticker  == <<announcing, announced, ticking>>
count   == <<done, counted, hook>>
loop    == <<finder, finding, finds>>
router  == <<mapper, mapping>>
gather  == <<list, todo, round, found>>
history == <<said, claim, told>>
vars == <<input, known, pc, status, deferred, router, gather, left, farewell,
          ticker, engine, count, loop, history>>

Lesser(a, b) == IF a < b THEN a ELSE b

\* AnnounceUDPWithRequest or AnnounceToHTTPTrackerWithRequest, an event with an
\* amount left.  Before a magnet's length is known it says that nothing is left.
Tell(t, event, amount) ==
    /\ said' = IF event \in {"", "started"} THEN said ELSE [said EXCEPT ![t] = Append(@, event)]
    /\ claim' = IF known THEN [claim EXCEPT ![t] = Lesser(@, amount)] ELSE claim
    /\ told' = IF known THEN told \cup {t} ELSE told
AskDHT == told' = (IF known THEN told \cup {DHT} ELSE told) /\ UNCHANGED <<said, claim>>

\* buildTrackerList of main and of the engine, for what a torrent file names.
FileList == Own \cup (IF private THEN {} ELSE Public)
\* buildMagnetTrackerURLList: the preferred ones, then those of the link.
MagnetLists ==
    {L \in SUBSET Trackers :
        /\ Preferred \subseteq L /\ Cardinality(L) <= MaxMagnet
        /\ L = Trackers \/ Cardinality(L) = MaxMagnet
        /\ Own \subseteq L \/ L \subseteq Preferred \cup Own}

Init ==
    /\ kind \in {"file", "magnet"} /\ private \in BOOLEAN /\ known = FALSE
    /\ pc = "start" /\ status = -1 /\ deferred = <<"cancel">>
    /\ mapper = "none" /\ mapping = "none"
    /\ list = {} /\ todo = {} /\ round = 0 /\ found = 0
    /\ left = 0 /\ farewell = 0
    /\ announcing = {} /\ announced = 0 /\ ticking = FALSE
    /\ engine = "idle" /\ done \in 0..Pieces /\ counted = 0
    /\ hook = [w \in Workers |-> Idle]
    /\ finder = "off" /\ finding = {} /\ finds = {}
    /\ said = [t \in Trackers |-> <<>>] /\ claim = [t \in Trackers |-> Pieces] /\ told = {}

-----------------------------------------------------------------------------
(* main, up to the download *)

Exit(code) == pc' = "exited" /\ status' = code

\* MapPort.  The router may have added a mapping although no answer arrived.
MapPort ==
    /\ pc = "start"
    /\ \/ UNCHANGED router
       \/ \E protocol \in {"upnp", "natpmp"} :
             mapping' = protocol /\ mapper' \in {protocol, "none"}
    /\ deferred' = Append(deferred, "unmap")
    /\ pc' = "input"
    /\ UNCHANGED <<input, known, status, gather, left, farewell, ticker, engine, count, loop, history>>

\* The seed store can be opened, or not.
OpenStore == deferred' \in {deferred, Append(deferred, "close")}

OpenFile ==
    /\ pc = "input" /\ kind = "file"
    /\ known' = TRUE /\ left' = Pieces
    /\ list' = FileList
    /\ OpenStore
    /\ todo' = list' /\ round' = 0 /\ pc' = "gather"
    /\ UNCHANGED <<input, status, router, found, farewell, ticker, engine, count, loop, history>>

OpenMagnet ==
    /\ pc = "input" /\ kind = "magnet"
    /\ list' \in MagnetLists
    /\ todo' = list' /\ round' = 0 /\ pc' = "gather"
    /\ UNCHANGED <<input, known, status, deferred, router, found, left, farewell, ticker, engine, count, loop, history>>

\* The input cannot be read, the metadata cannot be fetched, or there are no peers.
GiveUp ==
    /\ pc \in {"input", "metadata"} \/ (pc = "ready" /\ found = 0)
    /\ Exit(1)
    /\ UNCHANGED <<input, known, deferred, router, gather, left, farewell, ticker, engine, count, loop, history>>

Gather(t) ==
    /\ pc = "gather" /\ t \in todo /\ found < TargetPeers
    /\ Tell(t, "started", IF known THEN Pieces ELSE 0)
    /\ found' \in found..TargetPeers
    /\ todo' = todo \ {t}
    /\ UNCHANGED <<input, known, pc, status, deferred, router, list, round, left, farewell, ticker, engine, count, loop>>

EndRound ==
    /\ pc = "gather" /\ (todo = {} \/ found = TargetPeers)
    /\ IF found < TargetPeers /\ round + 1 < Rounds
       THEN round' = round + 1 /\ todo' = list /\ pc' = pc
       ELSE pc' = "dht" /\ todo' = {} /\ round' = round
    /\ UNCHANGED <<input, known, status, deferred, router, list, found, left, farewell, ticker, engine, count, loop, history>>

\* A magnet link may name peers itself.  The DHT is asked when there are few.
FindMore ==
    /\ pc = "dht"
    /\ \E named \in found..(IF kind = "magnet" THEN TargetPeers ELSE found) :
          IF named < FewPeers /\ (kind = "magnet" \/ ~private)
          THEN AskDHT /\ found' \in named..TargetPeers
          ELSE UNCHANGED history /\ found' = named
    /\ pc' = IF kind = "magnet" THEN "metadata" ELSE "ready"
    /\ UNCHANGED <<input, known, status, deferred, router, list, todo, round, left, farewell, ticker, engine, count, loop>>

\* FetchMetadataFromPeersWithProgress: see Metadata.
FetchMetadata ==
    /\ pc = "metadata" /\ found > 0
    /\ known' = TRUE /\ left' = Pieces
    /\ OpenStore
    /\ pc' = "ready"
    /\ UNCHANGED <<input, status, router, gather, farewell, ticker, engine, count, loop, history>>

Start ==
    /\ pc = "ready" /\ found > 0
    /\ ticking' = (list # {})
    /\ deferred' = Append(deferred, "stopped")
    /\ pc' = "download"
    /\ UNCHANGED <<input, known, status, router, gather, left, farewell, announcing, announced, engine, count, loop, history>>

-----------------------------------------------------------------------------
(* The engine: DownloadTorrentWithOptions *)

\* It fails early, finds everything there, or starts discoveryLoop and the workers.
EngineStart ==
    /\ pc = "download" /\ engine = "idle"
    /\ \/ engine' \in {"failed"} \cup (IF done = Pieces THEN {"ok"} ELSE {})
          /\ UNCHANGED <<left, counted, loop>>
       \/ /\ done < Pieces
          /\ engine' = "running"
          /\ counted' = done /\ left' = Pieces - done
          /\ finds' = IF kind = "file" THEN FileList ELSE IF private THEN {} ELSE Public
          /\ finder' = "look" /\ finding' = finds'
    /\ UNCHANGED <<input, known, pc, status, deferred, router, gather, farewell, ticker, done, hook, history>>

\* A worker marks a piece, counts it, and reports what it counted: workers overtake
\* each other in between.
MarkAgain(w) ==     \* slip: a second copy of a piece is counted too
    /\ engine = "running" /\ hook[w] = Idle
    /\ done > 0
    /\ done' \in {done} \cup ((done + 1)..Lesser(done + 1, Pieces))
    /\ hook' = [hook EXCEPT ![w] = Marked]
    /\ UNCHANGED <<input, known, pc, status, deferred, router, gather, left, farewell, ticker, engine, counted, loop, history>>
Mark(w) ==
    /\ engine = "running" /\ hook[w] = Idle
    /\ done < Pieces
    /\ done' = done + 1
    /\ hook' = [hook EXCEPT ![w] = Marked]
    /\ UNCHANGED <<input, known, pc, status, deferred, router, gather, left, farewell, ticker, engine, counted, loop, history>>

Count(w) ==
    /\ hook[w] = Marked
    /\ counted' = counted + 1
    /\ hook' = [hook EXCEPT ![w] = counted + 1]
    /\ UNCHANGED <<input, known, pc, status, deferred, router, gather, left, farewell, ticker, engine, done, loop, history>>

ProgressHook(w) ==
    /\ hook[w] \notin {Idle, Marked}
    /\ left' = IF hook[w] > Pieces THEN 0 ELSE Pieces - hook[w]
    /\ hook' = [hook EXCEPT ![w] = Idle]
    /\ UNCHANGED <<input, known, pc, status, deferred, router, gather, farewell, ticker, engine, done, counted, loop, history>>

\* The workers have ended.  It may fail with every piece there, when the time is up
\* or the copies cannot be made.
EngineReturn ==
    /\ engine = "running" /\ \A w \in Workers : hook[w] = Idle
    /\ engine' \in {"failed"} \cup (IF done = Pieces THEN {"ok"} ELSE {})
    /\ UNCHANGED <<input, known, pc, status, deferred, router, gather, left, farewell, ticker, count, loop, history>>

\* discoveryLoop.  It looks at the context before each tracker, not before the DHT,
\* and outlives the engine.
Look(t) ==
    /\ finder = "look" /\ engine = "running" /\ t \in finding
    /\ finder' = t /\ finding' = finding \ {t}
    /\ UNCHANGED <<input, known, pc, status, deferred, router, gather, left, farewell, ticker, engine, count, finds, history>>

Discover(t) ==
    /\ finder = t /\ pc # "exited"
    /\ Tell(t, "", Pieces)
    /\ finder' = "look"
    /\ UNCHANGED <<input, known, pc, status, deferred, router, gather, left, farewell, ticker, engine, count, finding, finds>>

AskAnyway ==    \* slip: the DHT is asked about every torrent
    /\ finder = "look" /\ finding = {} /\ pc # "exited"
    /\ AskDHT
    /\ finder' = "wait"
    /\ UNCHANGED <<input, known, pc, status, deferred, router, gather, left, farewell, ticker, engine, count, finding, finds>>
DiscoverDHT ==
    /\ finder = "look" /\ finding = {} /\ pc # "exited"
    /\ IF private THEN UNCHANGED history ELSE AskDHT
    /\ finder' = "wait"
    /\ UNCHANGED <<input, known, pc, status, deferred, router, gather, left, farewell, ticker, engine, count, finding, finds>>

\* Cancelled before a tracker it goes back to its select; there it ends, unless the
\* ticker is chosen.
DiscoverAgain ==
    /\ finder \in {"look", "wait"} /\ pc # "exited"
    /\ \/ finder = "look" /\ engine # "running" /\ finding # {}
          /\ finder' = "wait" /\ finding' = finding
       \/ finder = "wait" /\ engine # "running" /\ finder' = "off" /\ finding' = {}
       \/ finder = "wait" /\ finder' = "look" /\ finding' = finds
    /\ UNCHANGED <<input, known, pc, status, deferred, router, gather, left, farewell, ticker, engine, count, finds, history>>

-----------------------------------------------------------------------------
(* The announcer, and main after the download *)

Tick ==
    /\ ticking /\ announcing = {} /\ pc # "exited"
    /\ announcing' = list /\ announced' = left
    /\ UNCHANGED <<input, known, pc, status, deferred, router, gather, left, farewell, ticking, engine, count, loop, history>>

Announce(t) ==
    /\ t \in announcing /\ pc # "exited"
    /\ Tell(t, "", announced)
    /\ announcing' = announcing \ {t}
    /\ UNCHANGED <<input, known, pc, status, deferred, router, gather, left, farewell, announced, ticking, engine, count, loop>>

\* os.Exit runs no deferred call.
Verdict ==
    /\ pc = "download" /\ engine \in {"ok", "failed"}
    /\ IF engine = "ok" THEN pc' = "completed" /\ todo' = list /\ farewell' = 0 /\ UNCHANGED status
       ELSE Exit(1) /\ UNCHANGED <<todo, farewell>>
    /\ UNCHANGED <<input, known, deferred, router, list, round, found, left, ticker, engine, count, loop, history>>

\* "completed" from main, "stopped" from its first deferred call.
AnnounceEvent(t) ==
    /\ pc \in {"completed", "stopped"} /\ t \in todo
    /\ Tell(t, pc, farewell)
    /\ todo' = todo \ {t}
    /\ UNCHANGED <<input, known, pc, status, deferred, router, list, round, found, left, farewell, ticker, engine, count, loop>>

\* UnmapPort: a NAT-PMP mapping is left to expire.
LeaveAtOnce ==      \* slip: success exits like failure does
    /\ pc = "completed" /\ todo = {}
    /\ Exit(0)
    /\ UNCHANGED <<input, known, deferred, todo, router, list, round, found, left, farewell, ticker, engine, count, loop, history>>
RunDeferred ==
    /\ pc \in {"completed", "stopped"} /\ todo = {}
    /\ IF deferred = <<>> THEN Exit(0) /\ UNCHANGED <<deferred, todo, farewell, mapping>>
       ELSE LET call == deferred[Len(deferred)] IN
            /\ deferred' = SubSeq(deferred, 1, Len(deferred) - 1)
            /\ pc' = "stopped" /\ UNCHANGED status
            /\ IF call = "stopped" THEN todo' = list /\ farewell' = left
               ELSE UNCHANGED <<todo, farewell>>
            /\ mapping' = IF call = "unmap" /\ mapper = "upnp" THEN "none" ELSE mapping
    /\ UNCHANGED <<input, known, mapper, list, round, found, left, ticker, engine, count, loop, history>>

Next ==
    \/ MapPort \/ OpenFile \/ OpenMagnet \/ GiveUp \/ EndRound \/ FindMore \/ FetchMetadata \/ Start
    \/ EngineStart \/ EngineReturn \/ Verdict \/ RunDeferred
    \/ DiscoverDHT \/ DiscoverAgain \/ Tick
    \/ \E w \in Workers : Mark(w) \/ Count(w) \/ ProgressHook(w)
    \/ \E t \in Trackers : Gather(t) \/ Look(t) \/ Discover(t) \/ Announce(t) \/ AnnounceEvent(t)

Spec == Init /\ [][Next]_vars

-----------------------------------------------------------------------------
(* Properties *)

\* No tracker is ever told that less is left than is, by main, its announcer or
\* discoveryLoop, although reports of progress overtake each other and are loaded
\* at any time; "completed" is said only of a whole torrent.  (More may be said to
\* be left: the last report may be an old one, and nobody reports when all was there
\* from the start.)  downloader.go:629-636, main.go:272-275, 286-295, 331-340.
ClaimsBacked == \A t \in Trackers : claim[t] >= Pieces - done

\* Once it is known that a torrent is private the DHT is not asked about it any more,
\* and a private torrent file is announced to its own trackers only (README.md:26,
\* README.md:179).  A private magnet link is different: main goes on announcing it
\* to the public trackers it began with.
PrivateUnseen ==
    private => told \subseteq Own \cup (IF kind = "magnet" THEN Public ELSE {})

\* A run that succeeds says "completed" and then "stopped", once, to every tracker of
\* its list, and leaves no mapping that it knows of unless it expires by itself.  A
\* run that fails says neither.
Farewell ==
    /\ pc = "exited" /\ status = 0 =>
          /\ \A t \in list : said[t] = <<"completed", "stopped">>
          /\ ~(mapper = "upnp" /\ mapping = "upnp")
    /\ engine # "ok" => \A t \in Trackers : said[t] = <<>>
=============================================================================
