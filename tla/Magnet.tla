------------------------------- MODULE Magnet -------------------------------
(***************************************************************************)
(* The start from a magnet link (src/cmd/torrent-client/main.go): peers    *)
(* from the trackers and the link; if these are few, rounds of DHT lookups *)
(* (Lookup); then the metadata from all of them (Metadata).                *)
(***************************************************************************)
EXTENDS Lookup, Metadata

CONSTANTS
    FewPeers,       \* with fewer than these the DHT is asked
    DHTRounds       \* rounds of discoverDHTPeers

ASSUME MagnetAssumption == FewPeers \in Nat /\ DHTRounds \in Nat \ {0}

VARIABLES
    mpc,            \* "trackers", "dht", "fetch", "ready", "exit"
    peers,          \* the peers main knows, without duplicates
    dhtPeers,       \* those of discoverDHTPeers
    rounds          \* lookups still to do

main == <<mpc, peers, dhtPeers, rounds>>
vars == <<main, lookup, metadata>>

Init ==
    /\ InitLookup
    /\ InitMetadata
    /\ mpc = "trackers"
    /\ peers = {} /\ dhtPeers = {}
    /\ rounds = 0

\* gatherPeers and the addresses in the link.
Gather ==
    /\ mpc = "trackers"
    /\ peers' \in SUBSET Peers
    /\ IF Cardinality(peers') < FewPeers
       THEN mpc' = "dht" /\ rounds' = DHTRounds
       ELSE mpc' = "fetch" /\ UNCHANGED rounds
    /\ UNCHANGED <<dhtPeers, lookup, metadata>>

StartLookup ==
    /\ mpc = "dht"
    /\ rounds > 0
    /\ Seed
    /\ rounds' = rounds - 1
    /\ UNCHANGED <<mpc, peers, dhtPeers, metadata>>

\* GetPeers returns; with enough peers there is no further round.
EndLookup ==
    /\ mpc = "dht"
    /\ Copy
    /\ dhtPeers' = dhtPeers \cup found
    /\ rounds' = IF Cardinality(dhtPeers') >= MaxPeers THEN 0 ELSE rounds
    /\ UNCHANGED <<mpc, peers, metadata>>

EndDHT ==
    /\ mpc = "dht"
    /\ rounds = 0
    /\ lpc = "over"
    /\ peers' = peers \cup dhtPeers
    /\ mpc' = "fetch"
    /\ UNCHANGED <<dhtPeers, rounds, lookup, metadata>>

StartFetch ==
    /\ mpc = "fetch"
    /\ FetchFrom(peers) \/ (peers = {} /\ FetchFromNone)
    /\ UNCHANGED <<main, lookup>>

\* With the metadata main goes on, without it exits.
EndFetch ==
    /\ mpc = "fetch"
    /\ fpc = "returned"
    /\ mpc' = IF outcome = "info" THEN "ready" ELSE "exit"
    /\ UNCHANGED <<peers, dhtPeers, rounds, lookup, metadata>>

LookupRuns ==
    /\ \/ StartRound \/ OutOfTime \/ RoundEnds
       \/ \E n \in Nodes : QueryStep(n)
    /\ UNCHANGED <<main, metadata>>

TimePasses == Expire /\ UNCHANGED <<main, metadata>>

FetchRuns == mpc # "exit" /\ MetadataStep /\ UNCHANGED <<main, lookup>>

\* main goes on to the download, or the process has ended.
Rest == mpc \in {"ready", "exit"} /\ UNCHANGED vars

MainStep == Gather \/ StartLookup \/ EndLookup \/ EndDHT \/ StartFetch \/ EndFetch

Next == MainStep \/ LookupRuns \/ TimePasses \/ FetchRuns \/ Rest

Spec == Init /\ [][Next]_vars

\* Every goroutine runs, and each query, dial and read ends by its deadline.
\* Nothing is assumed of the deadline of a lookup.
Fairness ==
    /\ WF_vars(MainStep)
    /\ WF_vars(LookupRuns)
    /\ WF_vars(CallerStep /\ mpc # "exit" /\ UNCHANGED <<main, lookup>>)
    /\ WF_vars(FeederEnds /\ mpc # "exit" /\ UNCHANGED <<main, lookup>>)
    /\ \A w \in Workers :
          WF_vars(WorkerStep(w) /\ mpc # "exit" /\ UNCHANGED <<main, lookup>>)

FairSpec == Spec /\ Fairness

-----------------------------------------------------------------------------
(* Properties *)

\* main gives up only when every peer that it heard of, from a tracker, the link
\* or any query of any lookup, was tried and failed (metadata.go:292-352,
\* dht.go:160-174, main.go:483-504).
NoPeerForgotten ==
    mpc = "exit" => \A p \in peers \cup heard : verdict[p] \in {"failed", "mismatch"}

\* The dictionary of a peer that answers what it is asked is never found corrupt,
\* although the pieces are stored without a look at their number
\* (metadata.go:222-229): at most one request is unanswered.
MismatchDeserved == \A p \in Honest : verdict[p] # "mismatch"

\* The start ends, one way or the other, and when it succeeded every goroutine of
\* the fetch ends as well, although nobody waits for them (metadata.go:319-344).
StartEnds ==
    <>[](/\ mpc \in {"ready", "exit"}
         /\ ~feeding
         /\ \A w \in Workers : wpc[w] = "gone")
=============================================================================
