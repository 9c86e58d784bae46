------------------------------- MODULE Lookup -------------------------------
(***************************************************************************)
(* One DHT lookup: GetPeers (src/internal/dht/dht.go).  Rounds of parallel *)
(* get_peers queries, each to the closest candidates not queried before,   *)
(* until no candidate is left, enough peers are known or the deadline has  *)
(* passed.                                                                 *)
(*                                                                         *)
(* A node is its distance to the info hash.  What a node answers is any    *)
(* set of peers and of nodes.  The goroutine of a query adds the peers and *)
(* then the nodes in two critical sections, so that the queries of a round *)
(* interleave between them.                                                *)
(***************************************************************************)
EXTENDS Integers, FiniteSets, Swarm

CONSTANTS
    Nodes,          \* the distances of the nodes that may be heard of
    NumSeeds,       \* Len(bootstrapAddrs)
    Alpha,          \* queries of a round
    MaxCandidates,
    MaxPeers,       \* the caller's limit
    MaxAnswer       \* bound: nodes, and peers, in one answer

ASSUME NodesAssumption  == Nodes \subseteq Nat /\ IsFiniteSet(Nodes)
ASSUME LookupAssumption == {NumSeeds, Alpha, MaxCandidates, MaxPeers, MaxAnswer} \subseteq Nat

VARIABLES
    lpc,            \* "off", "round", "wait", "copy", "over"
    candidates,     \* the candidate list, which is always sorted
    queried,        \* the addresses marked queried
    seenAddrs,
    found,          \* peers, without duplicates
    query,          \* state of the query to each node: "none", "asked", "peers", "nodes", "done"
    answer,         \* what the node answered
    expired,        \* the deadline has passed
    heard           \* history: the peers of every answer that was read

lookup == <<lpc, candidates, queried, seenAddrs, found, query, answer, expired, heard>>

Silence == [peers |-> {}, nodes |-> {}]

\* The first k of a sorted list.
Closest(S, k) == {n \in S : Cardinality({m \in S : m < n}) < k}

InitLookup ==
    /\ lpc = "off"
    /\ candidates = {} /\ queried = {} /\ seenAddrs = {} /\ found = {}
    /\ query = [n \in Nodes |-> "none"]
    /\ answer = [n \in Nodes |-> Silence]
    /\ expired = FALSE
    /\ heard = {}

\* The bootstrap nodes get random IDs: they may be at any distance.
Seed ==
    /\ lpc \in {"off", "over"}
    /\ \E S \in SUBSET Nodes :
          /\ Cardinality(S) = NumSeeds
          /\ seenAddrs' = S
          /\ candidates' = Closest(S, MaxCandidates)
    /\ lpc' = "round"
    /\ found' = {}
    /\ UNCHANGED <<queried, query, answer, expired, heard>>

Expire ==
    /\ lpc \in {"round", "wait"}
    /\ ~expired
    /\ expired' = TRUE
    /\ UNCHANGED <<lpc, candidates, queried, seenAddrs, found, query, answer, heard>>

-----------------------------------------------------------------------------
(* A round *)

Batch == Closest(candidates \ queried, Alpha)

\* The batch is marked before the number of peers is looked at.
StartRound ==
    /\ lpc = "round"
    /\ ~expired
    /\ queried' = queried \cup Batch
    /\ IF Batch = {} \/ Cardinality(found) >= MaxPeers
       THEN /\ lpc' = "copy"
            /\ UNCHANGED query
       ELSE /\ lpc' = "wait"
            /\ query' = [n \in Nodes |-> IF n \in Batch THEN "asked" ELSE query[n]]
    /\ UNCHANGED <<candidates, seenAddrs, found, answer, expired, heard>>

OutOfTime ==
    /\ lpc = "round"
    /\ expired
    /\ lpc' = "copy"
    /\ UNCHANGED <<candidates, queried, seenAddrs, found, query, answer, expired, heard>>

\* wg.Wait returns.
RoundEndsEarly ==   \* slip: the next round does not wait for all queries
    /\ lpc = "wait"
    /\ \E n \in Nodes : query[n] = "done"
    /\ lpc' = "round"
    /\ UNCHANGED <<candidates, queried, seenAddrs, found, query, answer, expired, heard>>
RoundEnds ==
    /\ lpc = "wait"
    /\ \A n \in Nodes : query[n] \in {"none", "done"}
    /\ lpc' = "round"
    /\ UNCHANGED <<candidates, queried, seenAddrs, found, query, answer, expired, heard>>

-----------------------------------------------------------------------------
(* The query to node n *)

Answered(n) ==
    /\ query[n] = "asked"
    /\ \E pp \in SUBSET Peers, nn \in SUBSET Nodes :
          /\ Cardinality(nn) <= MaxAnswer /\ Cardinality(pp) <= MaxAnswer
          /\ answer' = [answer EXCEPT ![n] = [peers |-> pp, nodes |-> nn]]
          /\ heard' = heard \cup pp
    /\ query' = [query EXCEPT ![n] = "peers"]
    /\ UNCHANGED <<lpc, candidates, queried, seenAddrs, found, expired>>

\* No answer, or one that cannot be used.
QueryFails(n) ==
    /\ query[n] = "asked"
    /\ query' = [query EXCEPT ![n] = "done"]
    /\ UNCHANGED <<lpc, candidates, queried, seenAddrs, found, answer, expired, heard>>

AddPeers(n) ==
    /\ query[n] = "peers"
    /\ found' = found \cup answer[n].peers
    /\ query' = [query EXCEPT ![n] = "nodes"]
    /\ UNCHANGED <<lpc, candidates, queried, seenAddrs, answer, expired, heard>>

\* Nodes not seen before are appended, the list is sorted and cut.
AddKnown(n) ==      \* slip: an address seen before is entered anew, as not queried
    /\ query[n] = "nodes"
    /\ seenAddrs' = seenAddrs \cup answer[n].nodes
    /\ candidates' = Closest(candidates \cup answer[n].nodes, MaxCandidates)
    /\ queried' = queried \ answer[n].nodes
    /\ query' = [query EXCEPT ![n] = "done"]
    /\ answer' = [answer EXCEPT ![n] = Silence]
    /\ UNCHANGED <<lpc, found, expired, heard>>
AddCut(n) ==        \* slip: the list is cut before the new nodes are sorted in
    /\ query[n] = "nodes"
    /\ LET new  == answer[n].nodes \ seenAddrs
           room == MaxCandidates - Cardinality(candidates) IN
          /\ seenAddrs' = seenAddrs \cup new
          /\ candidates' = candidates \cup Closest(new, room)
    /\ query' = [query EXCEPT ![n] = "done"]
    /\ answer' = [answer EXCEPT ![n] = Silence]
    /\ UNCHANGED <<lpc, queried, found, expired, heard>>
AddNodes(n) ==
    /\ query[n] = "nodes"
    /\ LET new == answer[n].nodes \ seenAddrs IN
          /\ seenAddrs' = seenAddrs \cup new
          /\ candidates' = Closest(candidates \cup new, MaxCandidates)
    /\ query' = [query EXCEPT ![n] = "done"]
    /\ answer' = [answer EXCEPT ![n] = Silence]
    /\ UNCHANGED <<lpc, queried, found, expired, heard>>

-----------------------------------------------------------------------------

\* The caller gets a copy of the peers; nothing else of the lookup remains.
Copy ==
    /\ lpc = "copy"
    /\ lpc' = "over"
    /\ candidates' = {} /\ queried' = {} /\ seenAddrs' = {}
    /\ query' = [n \in Nodes |-> "none"]
    /\ answer' = [n \in Nodes |-> Silence]
    /\ expired' = FALSE
    /\ UNCHANGED <<found, heard>>

QueryStep(n) == Answered(n) \/ QueryFails(n) \/ AddPeers(n) \/ AddNodes(n)

-----------------------------------------------------------------------------
(* Properties *)

\* However the queries of a round interleave, the cut list holds the closest of
\* all the addresses ever seen: no answer pushes out a closer node for good
\* (dht.go:95-114).
ClosestKept == candidates = Closest(seenAddrs, MaxCandidates)

\* No node is asked twice in a lookup, also when it was cut from the list and is
\* then reported again (dht.go:99).
AskedOnce == [][\A n \in Nodes : query[n] \in {"peers", "nodes", "done"}
                                    => query'[n] # "asked"]_lookup
=============================================================================
