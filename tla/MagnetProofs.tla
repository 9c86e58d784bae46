---------------------------- MODULE MagnetProofs ----------------------------
(***************************************************************************)
(* Theorems about Magnet, with its modules Lookup and Metadata, for every  *)
(* number of nodes, peers, workers and pieces and every limit.             *)
(*                                                                         *)
(* The inductive invariant follows a peer from the answer that tells of it *)
(* to its verdict: Remembered up to the start of the fetch, Accounted from *)
(* there to the last result.                                               *)
(***************************************************************************)
EXTENDS Magnet, FiniteSetTheorems, TLAPS

-----------------------------------------------------------------------------
(* The inductive invariant: the lookup *)

LookupType ==
    /\ lpc \in {"off", "round", "wait", "copy", "over"}
    /\ seenAddrs \subseteq Nodes /\ queried \subseteq Nodes
    /\ found \subseteq Peers /\ heard \subseteq Peers
    /\ query \in [Nodes -> {"none", "asked", "peers", "nodes", "done"}]
    /\ answer \in [Nodes -> [peers : SUBSET Peers, nodes : SUBSET Nodes]]
    /\ expired \in BOOLEAN

\* A query marks its node first, and no query outlives its round.
Queries ==
    /\ \A n \in Nodes : query[n] # "none" => n \in queried
    /\ lpc # "wait" => \A n \in Nodes : query[n] \in {"none", "done"}

-----------------------------------------------------------------------------
(* The inductive invariant: the fetch *)

FetchType ==
    /\ fpc \in {"off", "receive", "join", "returned"}
    /\ outcome \in {"none", "info", "error"}
    /\ asked \subseteq Peers /\ waiting \subseteq asked /\ inbox \subseteq asked
    /\ feeding \in BOOLEAN /\ cancelled \in BOOLEAN
    /\ got \in Nat
    /\ verdict \in [Peers -> {"none", "valid", "failed", "mismatch"}]
    /\ wpc \in [Workers -> {"gone", "idle", "dial", "hello", "piece", "report"}]
    /\ wpeer \in [Workers -> Peers \cup {NoPeer}]
    /\ want \in [Workers -> 0..MetaPieces]
    /\ pending \in [Workers -> SUBSET Places]
    /\ skip \in [Workers -> Nat]
    /\ assembled \in [Workers -> [Places -> 0..MetaPieces]]

Holds(w, p) == wpc[w] \notin {"gone", "idle"} /\ wpeer[w] = p

\* The peers that workers are busy with: every one has one worker.
Held == {p \in asked : \E w \in Workers : Holds(w, p)}

Handed ==
    /\ \A w \in Workers : wpc[w] \notin {"gone", "idle"} => wpeer[w] \in asked
    /\ \A v, w \in Workers, p \in asked : Holds(v, p) /\ Holds(w, p) => v = w
    /\ waiting \cap inbox = {} /\ waiting \cap Held = {} /\ inbox \cap Held = {}

\* An honest peer owes the answer to the last request, and no other.
Assembling ==
    \A w \in Workers : wpc[w] = "piece" =>
        /\ want[w] \in Places
        /\ wpeer[w] \in Honest => /\ pending[w] = {want[w]}
                                  /\ \A i \in 1..(want[w] - 1) : assembled[w][i] = i

Bad == {"failed", "mismatch"}

\* The peers whose results the caller has received.
Heeded == asked \ (waiting \cup inbox \cup Held)

Judged ==
    /\ \A w \in Workers : wpc[w] = "report" => verdict[wpeer[w]] # "none"
    /\ \A p \in inbox : verdict[p] # "none"
    /\ \A p \in Heeded : verdict[p] \in Bad

\* While the caller receives, each of its peers waits, is held, is reported or was
\* counted.
Accounted ==
    /\ fpc = "off" => /\ asked = {} /\ got = 0 /\ ~cancelled /\ outcome = "none"
                      /\ \A w \in Workers : wpc[w] = "gone"
    /\ fpc \in {"receive", "join"} =>
          /\ outcome = "none" /\ ~cancelled
          /\ got = Cardinality(Heeded)
          /\ Judged
    /\ fpc = "join" => got = Cardinality(asked)
    /\ fpc = "returned" => outcome # "none"
    /\ outcome = "error" =>
          /\ fpc = "returned"
          /\ \A w \in Workers : wpc[w] = "gone"
          /\ \A p \in asked : verdict[p] \in Bad

HonestJudged == \A p \in Honest : verdict[p] # "mismatch"

-----------------------------------------------------------------------------
(* The inductive invariant: main *)

MainType ==
    /\ mpc \in {"trackers", "dht", "fetch", "ready", "exit"}
    /\ peers \subseteq Peers /\ dhtPeers \subseteq Peers
    /\ rounds \in Nat

\* Every peer that was heard of is on its way to main.
Remembered ==
    /\ mpc = "trackers" => heard = {} /\ lpc = "off"
    /\ mpc = "dht" =>
          heard \subseteq dhtPeers \cup found
                          \cup UNION {answer[n].peers : n \in {n \in Nodes : query[n] = "peers"}}
    /\ mpc \notin {"trackers", "dht"} => heard \subseteq peers
    /\ mpc # "dht" => lpc \in {"off", "over"}
    /\ lpc \in {"off", "over"} => found \subseteq dhtPeers

\* The fetch is from all of them.
Fetched ==
    /\ fpc # "off" => mpc \in {"fetch", "ready", "exit"} /\ asked = peers
    /\ mpc = "exit" => outcome = "error"

IInv ==
    /\ LookupType /\ ClosestKept /\ Queries
    /\ FetchType /\ Handed /\ Assembling /\ Accounted /\ HonestJudged
    /\ MainType /\ Remembered /\ Fetched

-----------------------------------------------------------------------------
(* The closest of a set of nodes *)

LEMMA LeastNat == ASSUME NEW S \in SUBSET Nat, S # {}
                  PROVE  \E m \in S : \A n \in S : m <= n
<1> DEFINE R == OpToRel(<, Nat)
<1>1. IsWellFoundedOn(R, Nat)
  BY NatLessThanWellFounded
<1>2. \A m, n \in Nat : <<m, n>> \in R <=> m < n
  BY DEF OpToRel
<1> HIDE DEF R
<1>3. PICK m \in S : \A n \in S : ~ (<<n, m>> \in R)
  BY <1>1, WFMin
<1>4. m \in Nat /\ S \subseteq Nat
  OBVIOUS
<1>5. \A n \in S : ~ (n < m)
  BY <1>2, <1>3, <1>4
<1> QED
  BY <1>4, <1>5

\* What is below a node in a smaller set.
LEMMA FewerBelow == ASSUME NEW T \in SUBSET Nat, IsFiniteSet(T), NEW S \in SUBSET T, NEW n \in Nat
                    PROVE  /\ Cardinality({m \in S : m < n}) \in Nat
                           /\ Cardinality({m \in T : m < n}) \in Nat
                           /\ Cardinality({m \in S : m < n}) <= Cardinality({m \in T : m < n})
<1> DEFINE BS == {m \in S : m < n}
           BT == {m \in T : m < n}
<1>1. BT \in SUBSET T /\ BS \in SUBSET BT
  OBVIOUS
<1> HIDE DEF BS, BT
<1>2. IsFiniteSet(BT)
  BY <1>1, FS_Subset
<1>3. IsFiniteSet(BS) /\ Cardinality(BS) <= Cardinality(BT)
  BY <1>1, <1>2, FS_Subset
<1>4. Cardinality(BS) \in Nat /\ Cardinality(BT) \in Nat
  BY <1>2, <1>3, FS_CardinalityType
<1> QED
  BY <1>3, <1>4 DEF BS, BT

\* Nothing is lost when a list is cut before more nodes come.
LEMMA ClosestUnion ==
    ASSUME NEW A \in SUBSET Nat, IsFiniteSet(A), NEW B \in SUBSET Nat, IsFiniteSet(B), NEW k \in Nat
    PROVE  Closest(Closest(A, k) \cup B, k) = Closest(A \cup B, k)
<1> DEFINE C == Closest(A, k)
           U == A \cup B
           V == C \cup B
           Below(S, n) == {m \in S : m < n}
<1>1. /\ C \subseteq A /\ V \in SUBSET U /\ A \in SUBSET U /\ U \in SUBSET Nat
      /\ \A n \in A : n \in C <=> Cardinality(Below(A, n)) < k
  BY DEF Closest
<1>2. IsFiniteSet(U)
  BY FS_Union
<1>3. IsFiniteSet(V)
  BY <1>1, <1>2, FS_Subset
<1>4. Closest(U, k) = {n \in U : Cardinality(Below(U, n)) < k}
      /\ Closest(V, k) = {n \in V : Cardinality(Below(V, n)) < k}
  BY DEF Closest
<1> HIDE DEF C
<1>5. ASSUME NEW n \in U, Cardinality(Below(U, n)) < k
      PROVE  n \in V /\ Cardinality(Below(V, n)) < k
  <2>1. /\ Cardinality(Below(A, n)) <= Cardinality(Below(U, n))
        /\ Cardinality(Below(V, n)) <= Cardinality(Below(U, n))
        /\ Cardinality(Below(A, n)) \in Nat /\ Cardinality(Below(V, n)) \in Nat
        /\ Cardinality(Below(U, n)) \in Nat
    BY <1>1, <1>2, FewerBelow
  <2> QED
    BY <1>1, <1>5, <2>1
<1>6. ASSUME NEW n \in V, Cardinality(Below(V, n)) < k, Cardinality(Below(U, n)) >= k
      PROVE  FALSE
  <2> DEFINE Lost == {m \in A \ C : m < n}
  <2>1. Lost # {}
    <3> SUFFICES ASSUME Lost = {} PROVE FALSE
      OBVIOUS
    <3>1. Below(U, n) = Below(V, n)
      BY <1>1
    <3>2. Cardinality(Below(U, n)) \in Nat
      BY <1>1, <1>2, FewerBelow
    <3> QED
      BY <3>1, <3>2, <1>6
  <2>2. PICK m \in Lost : \A l \in Lost : m <= l
    <3>1. Lost \in SUBSET Nat
      OBVIOUS
    <3> HIDE DEF Lost
    <3> QED
      BY <2>1, <3>1, LeastNat
  <2>3. m \in A /\ m \notin C /\ m < n /\ m \in Nat /\ n \in Nat
    BY <1>1, <2>2
  <2>4. ASSUME NEW l \in Below(A, m) PROVE l \in Below(V, n)
    <3>1. l \in A /\ l \in Nat /\ l < m /\ l < n
      BY <2>3, <2>4
    <3>2. l \notin Lost
      BY <2>2, <2>3, <3>1
    <3> QED
      BY <3>1, <3>2
  <2>5. IsFiniteSet(Below(V, n)) /\ Below(A, m) \in SUBSET Below(V, n)
    <3>1. Below(V, n) \in SUBSET V
      OBVIOUS
    <3>2. IsFiniteSet(Below(V, n))
      BY <3>1, <1>3, FS_Subset
    <3> QED
      BY <3>2, <2>4
  <2>6. Cardinality(Below(A, m)) <= Cardinality(Below(V, n))
    BY <2>5, FS_Subset
  <2>7. Cardinality(Below(A, m)) \in Nat /\ Cardinality(Below(V, n)) \in Nat
    BY <1>1, <1>2, <2>3, FewerBelow
  <2>8. ~ (Cardinality(Below(A, m)) < k)
    BY <1>1, <2>3
  <2> QED
    BY <1>6, <2>6, <2>7, <2>8
<1>7. ASSUME NEW n \in V, Cardinality(Below(V, n)) < k
      PROVE  n \in U /\ Cardinality(Below(U, n)) < k
  <2>1. Cardinality(Below(U, n)) \in Nat
    BY <1>1, <1>2, FewerBelow
  <2> QED
    BY <2>1, <1>1, <1>6, <1>7
<1>8. Closest(V, k) = Closest(U, k)
  <2> HIDE DEF U, V, Below
  <2> QED
    BY <1>4, <1>5, <1>7
<1> QED
  BY <1>8 DEF C

-----------------------------------------------------------------------------
(* The start, and what a step leaves alone *)

LEMMA InitIInv == Init => IInv
<1> SUFFICES ASSUME Init PROVE IInv
  OBVIOUS
<1> USE DEF Init, InitLookup, InitMetadata
<1>1. LookupType /\ Queries
  BY DEF LookupType, Queries, Silence
<1>2. ClosestKept
  BY DEF ClosestKept, Closest
<1>3. FetchType
  <2>1. Nothing \in [Places -> 0..MetaPieces] /\ 0 \in 0..MetaPieces
    BY MetadataAssumption DEF Nothing, Junk
  <2> QED
    BY <2>1 DEF FetchType
<1>4. Handed /\ Assembling /\ Accounted /\ HonestJudged
  BY MetadataAssumption DEF Handed, Held, Holds, Assembling, Accounted, HonestJudged
<1>5. MainType /\ Remembered /\ Fetched
  BY DEF MainType, Remembered, Fetched
<1> QED
  BY <1>1, <1>2, <1>3, <1>4, <1>5 DEF IInv

LookupInv == LookupType /\ ClosestKept /\ Queries
FetchInv  == FetchType /\ Handed /\ Assembling /\ Accounted /\ HonestJudged

LEMMA LookupRests == LookupInv /\ UNCHANGED lookup => LookupInv'
BY DEF LookupInv, LookupType, ClosestKept, Queries, lookup

LEMMA FetchRests == FetchInv /\ UNCHANGED metadata => FetchInv'
<1> SUFFICES ASSUME FetchInv, UNCHANGED metadata PROVE FetchInv'
  OBVIOUS
<1> USE DEF FetchInv, metadata, caller, fetcher
<1>1. FetchType'
  BY DEF FetchType
<1>2. Held' = Held /\ \A w, p : Holds(w, p)' = Holds(w, p)
  BY DEF Held, Holds
<1>3. Handed'
  BY <1>2 DEF Handed
<1>4. Assembling' /\ HonestJudged'
  BY DEF Assembling, HonestJudged
<1>5. Accounted'
  BY <1>2 DEF Accounted, Judged, Heeded
<1> QED
  BY <1>1, <1>3, <1>4, <1>5

-----------------------------------------------------------------------------
(* A lookup *)

\* The union of what the queries in the state "peers" were told.
Told == UNION {answer[n].peers : n \in {n \in Nodes : query[n] = "peers"}}

LEMMA SeedStep == ASSUME LookupInv, Seed PROVE LookupInv'
<1> USE DEF LookupInv, Seed
<1>1. LookupType' /\ Queries'
  BY DEF LookupType, Queries
<1>2. ClosestKept'
  BY DEF ClosestKept
<1> QED
  BY <1>1, <1>2

LEMMA RoundStep == ASSUME LookupInv, StartRound \/ OutOfTime \/ RoundEnds \/ Expire
                   PROVE  LookupInv'
<1> USE DEF LookupInv
<1>1. CASE StartRound
  <2>1. Batch \subseteq Nodes
    BY DEF Batch, Closest, ClosestKept, LookupType
  <2>2. LookupType'
    BY <1>1, <2>1 DEF StartRound, LookupType
  <2>3. Queries'
    BY <1>1, <2>1 DEF StartRound, LookupType, Queries
  <2>4. ClosestKept'
    BY <1>1 DEF StartRound, ClosestKept
  <2> QED
    BY <2>2, <2>3, <2>4
<1>2. CASE OutOfTime
  BY <1>2 DEF OutOfTime, LookupType, Queries, ClosestKept
<1>3. CASE RoundEnds
  BY <1>3 DEF RoundEnds, LookupType, Queries, ClosestKept
<1>4. CASE Expire
  BY <1>4 DEF Expire, LookupType, Queries, ClosestKept
<1> QED
  BY <1>1, <1>2, <1>3, <1>4

LEMMA QueryKeeps == ASSUME LookupInv, NEW n \in Nodes, QueryStep(n)
                    PROVE  LookupInv' /\ lpc = "wait"
<1> USE DEF LookupInv
<1>1. lpc = "wait"
  BY DEF QueryStep, Answered, QueryFails, AddPeers, AddNodes, Queries, LookupType
<1>2. CASE Answered(n)
  <2>1. PICK pp \in SUBSET Peers, nn \in SUBSET Nodes :
           /\ answer' = [answer EXCEPT ![n] = [peers |-> pp, nodes |-> nn]]
           /\ heard' = heard \cup pp
    BY <1>2 DEF Answered
  <2>2. LookupType'
    BY <1>2, <2>1 DEF Answered, LookupType
  <2> QED
    BY <1>1, <1>2, <2>2 DEF Answered, LookupType, Queries, ClosestKept
<1>3. CASE QueryFails(n)
  BY <1>1, <1>3 DEF QueryFails, LookupType, Queries, ClosestKept
<1>4. CASE AddPeers(n)
  BY <1>1, <1>4 DEF AddPeers, LookupType, Queries, ClosestKept
<1>5. CASE AddNodes(n)
  <2> DEFINE new == answer[n].nodes \ seenAddrs
  <2>1. /\ seenAddrs' = seenAddrs \cup new
        /\ candidates' = Closest(candidates \cup new, MaxCandidates)
    BY <1>5 DEF AddNodes
  <2>2. new \in SUBSET Nodes /\ seenAddrs \in SUBSET Nodes
    BY DEF LookupType
  <2>3. ClosestKept'
    <3>1. IsFiniteSet(seenAddrs) /\ IsFiniteSet(new)
      BY <2>2, NodesAssumption, FS_Subset
    <3>2. seenAddrs \in SUBSET Nat /\ new \in SUBSET Nat /\ MaxCandidates \in Nat
      BY <2>2, NodesAssumption, LookupAssumption
    <3>3. Closest(Closest(seenAddrs, MaxCandidates) \cup new, MaxCandidates)
             = Closest(seenAddrs \cup new, MaxCandidates)
      BY <3>1, <3>2, ClosestUnion
    <3> QED
      BY <2>1, <3>3 DEF ClosestKept
  <2>4. LookupType'
    BY <1>5, <2>1, <2>2 DEF AddNodes, LookupType, Silence
  <2>5. Queries'
    BY <1>1, <1>5 DEF AddNodes, LookupType, Queries
  <2> QED
    BY <2>3, <2>4, <2>5, <1>1
<1> QED
  BY <1>2, <1>3, <1>4, <1>5 DEF QueryStep

LEMMA CopyStep == ASSUME LookupInv, Copy PROVE LookupInv' /\ Told = {}
<1> USE DEF LookupInv, Copy
<1>1. LookupType' /\ Queries'
  BY DEF LookupType, Queries, Silence
<1>2. ClosestKept'
  BY DEF ClosestKept, Closest
<1>3. Told = {}
  BY DEF Told, Queries
<1> QED
  BY <1>1, <1>2, <1>3

\* What was heard in a query stays told until it is found.
LEMMA ToldKept == ASSUME LookupInv, NEW n \in Nodes, QueryStep(n),
                         NEW P, heard \subseteq P \cup found \cup Told
                  PROVE  heard' \subseteq P \cup found' \cup Told'
<1> USE DEF LookupInv
<1>a. \A p : p \in Told <=> \E m \in Nodes : query[m] = "peers" /\ p \in answer[m].peers
  BY DEF Told
<1>b. \A p : p \in Told' <=> \E m \in Nodes : query'[m] = "peers" /\ p \in answer'[m].peers
  BY DEF Told
<1>1. CASE Answered(n)
  <2>1. PICK pp \in SUBSET Peers, nn \in SUBSET Nodes :
           /\ answer' = [answer EXCEPT ![n] = [peers |-> pp, nodes |-> nn]]
           /\ heard' = heard \cup pp
    BY <1>1 DEF Answered
  <2>2. query[n] = "asked" /\ query' = [query EXCEPT ![n] = "peers"] /\ found' = found
    BY <1>1 DEF Answered
  <2>3. Told \subseteq Told' /\ pp \subseteq Told'
    BY <1>a, <1>b, <2>1, <2>2 DEF LookupType
  <2> QED
    BY <2>1, <2>2, <2>3
<1>2. CASE QueryFails(n)
  <2>1. Told \subseteq Told'
    BY <1>a, <1>b, <1>2 DEF QueryFails, LookupType
  <2> QED
    BY <1>2, <2>1 DEF QueryFails
<1>3. CASE AddPeers(n)
  <2>1. Told \subseteq Told' \cup found'
    BY <1>a, <1>b, <1>3 DEF AddPeers, LookupType
  <2> QED
    BY <1>3, <2>1 DEF AddPeers
<1>4. CASE AddNodes(n)
  <2>1. Told \subseteq Told'
    BY <1>a, <1>b, <1>4 DEF AddNodes, LookupType
  <2> QED
    BY <1>4, <2>1 DEF AddNodes
<1> QED
  BY <1>1, <1>2, <1>3, <1>4 DEF QueryStep

-----------------------------------------------------------------------------
(* The caller of the fetch *)

LEMMA Finite == ASSUME FetchType
                PROVE  /\ IsFiniteSet(asked) /\ IsFiniteSet(Heeded)
                       /\ Cardinality(asked) \in Nat /\ Cardinality(Heeded) \in Nat
<1>1. asked \in SUBSET Peers /\ Heeded \in SUBSET asked
  BY DEF FetchType, Heeded
<1>2. IsFiniteSet(asked) /\ IsFiniteSet(Heeded)
  BY <1>1, PeersAssumption, FS_Subset
<1> QED
  BY <1>2, FS_CardinalityType

LEMMA BeginStep == ASSUME FetchInv, NEW S \in SUBSET Peers, FetchFrom(S) PROVE FetchInv'
<1> USE DEF FetchInv
<1>1. /\ fpc' = "receive" /\ waiting' = S /\ asked' = S /\ feeding' = TRUE
      /\ UNCHANGED <<outcome, cancelled, got, inbox, verdict,
                     wpeer, want, pending, skip, assembled>>
      /\ asked = {} /\ got = 0 /\ ~cancelled /\ outcome = "none"
  BY DEF FetchFrom, Accounted
<1>2. wpc' \in [Workers -> {"gone", "idle"}]
  BY DEF FetchFrom
<1>3. inbox = {}
  BY <1>1 DEF FetchType
<1>4. FetchType'
  BY <1>1, <1>2, <1>3 DEF FetchType
<1>5. Held' = {} /\ Heeded' = {}
  BY <1>1, <1>2 DEF Held, Holds, Heeded
<1>6. Handed'
  BY <1>1, <1>2, <1>3, <1>5 DEF Handed, Holds
<1>7. Assembling' /\ HonestJudged'
  BY <1>1, <1>2 DEF Assembling, HonestJudged
<1>8. Judged'
  BY <1>1, <1>2, <1>3, <1>5 DEF Judged
<1>9. Accounted'
  BY <1>1, <1>5, <1>8, FS_EmptySet DEF Accounted
<1> QED
  BY <1>4, <1>6, <1>7, <1>9

LEMMA BeginNoneStep == ASSUME FetchInv, FetchFromNone PROVE FetchInv'
<1> USE DEF FetchInv, FetchFromNone, fetcher
<1>1. FetchType'
  BY DEF FetchType
<1>2. Handed'
  BY DEF Handed, Held, Holds
<1>3. Assembling' /\ HonestJudged'
  BY DEF Assembling, HonestJudged
<1>4. Accounted'
  BY DEF Accounted
<1> QED
  BY <1>1, <1>2, <1>3, <1>4

LEMMA CallerKeeps == ASSUME FetchInv, CallerStep PROVE FetchInv'
<1> USE DEF FetchInv, fetcher
<1>a. Held' = Held /\ \A w, p : Holds(w, p)' = Holds(w, p)
  BY DEF CallerStep, ReceiveInfo, ReceiveError, Join, Held, Holds
<1>1. CASE ReceiveInfo
  <2>1. FetchType'
    BY <1>1 DEF ReceiveInfo, FetchType
  <2>2. Handed'
    BY <1>1, <1>a DEF ReceiveInfo, Handed
  <2>3. Assembling' /\ HonestJudged'
    BY <1>1 DEF ReceiveInfo, Assembling, HonestJudged
  <2>4. Accounted'
    BY <1>1 DEF ReceiveInfo, Accounted
  <2> QED
    BY <2>1, <2>2, <2>3, <2>4
<1>2. CASE ReceiveError
  <2>1. PICK p \in inbox : verdict[p] # "valid" /\ inbox' = inbox \ {p}
    BY <1>2 DEF ReceiveError
  <2>2. FetchType'
    BY <1>2, <2>1 DEF ReceiveError, FetchType
  <2>3. Handed'
    BY <1>2, <1>a, <2>1 DEF ReceiveError, Handed
  <2>4. Assembling' /\ HonestJudged'
    BY <1>2 DEF ReceiveError, Assembling, HonestJudged
  <2>5. Heeded' = Heeded \cup {p} /\ p \notin Heeded
    BY <1>2, <1>a, <2>1 DEF ReceiveError, Heeded, FetchType, Handed
  <2>6. Judged /\ got = Cardinality(Heeded) /\ outcome = "none" /\ ~cancelled
    BY <1>2 DEF ReceiveError, Accounted
  <2>7. Judged'
    BY <1>2, <2>1, <2>5, <2>6 DEF Judged, ReceiveError, FetchType, Bad
  <2>8. got' = Cardinality(Heeded')
    BY <1>2, <2>5, <2>6, Finite, FS_AddElement DEF ReceiveError
  <2>9. Accounted'
    BY <1>2, <2>6, <2>7, <2>8 DEF ReceiveError, Accounted
  <2> QED
    BY <2>2, <2>3, <2>4, <2>9
<1>3. CASE Join
  <2>1. FetchType'
    BY <1>3 DEF Join, FetchType
  <2>2. Handed'
    BY <1>3, <1>a DEF Join, Handed
  <2>3. Assembling' /\ HonestJudged'
    BY <1>3 DEF Join, Assembling, HonestJudged
  <2>4. \A p \in asked : verdict[p] \in Bad
    <3>1. Cardinality(Heeded) = Cardinality(asked) /\ Heeded \in SUBSET asked /\ Judged
      BY <1>3 DEF Join, Accounted, Heeded
    <3>2. Heeded = asked
      BY <3>1, Finite, FS_Subset
    <3> QED
      BY <3>1, <3>2 DEF Judged
  <2>5. Accounted'
    BY <1>3, <2>4 DEF Join, Accounted
  <2> QED
    BY <2>1, <2>2, <2>3, <2>5
<1> QED
  BY <1>1, <1>2, <1>3 DEF CallerStep

LEMMA FeederStep == ASSUME FetchInv, FeederEnds PROVE FetchInv'
<1> USE DEF FetchInv, FeederEnds, fetcher
<1>a. Held' = Held /\ \A w, p : Holds(w, p)' = Holds(w, p)
  BY DEF Held, Holds
<1>1. FetchType'
  BY DEF FetchType
<1>2. Handed'
  BY <1>a DEF Handed
<1>3. Assembling' /\ HonestJudged'
  BY DEF Assembling, HonestJudged
<1>4. Accounted'
  BY <1>a DEF Accounted, Judged, Heeded
<1> QED
  BY <1>1, <1>2, <1>3, <1>4

-----------------------------------------------------------------------------
(* A worker of the fetch *)

\* A worker that goes on with its peer, or without one, disturbs no account.
LEMMA AccountsKept ==
    ASSUME FetchInv, FetchType', NEW w \in Workers, caller' = caller, wpeer' = wpeer,
           wpc[w] # "gone",
           \A v \in Workers \ {w} : wpc'[v] = wpc[v],
           wpc[w] \in {"gone", "idle"} <=> wpc'[w] \in {"gone", "idle"},
           \A p \in Peers : \/ verdict'[p] = verdict[p]
                            \/ wpc[w] # "idle" /\ wpeer[w] = p /\ verdict'[p] # "none",
           wpc'[w] = "report" => verdict'[wpeer[w]] # "none"
    PROVE  Handed' /\ Accounted'
<1> USE DEF FetchInv, caller
<1>1. \A v \in Workers : \A p : Holds(v, p)' = Holds(v, p)
  BY DEF Holds
<1>2. Held' = Held /\ Heeded' = Heeded
  BY <1>1 DEF Held, Heeded
<1>3. Handed'
  BY <1>1, <1>2 DEF Handed
<1>4. \A p \in asked : p \notin Held => verdict'[p] = verdict[p]
  BY DEF Held, Holds, FetchType
<1>5. outcome # "error" /\ fpc # "off"
  BY DEF Accounted
<1>6. ASSUME Judged PROVE Judged'
  <2>1. ASSUME NEW v \in Workers, wpc'[v] = "report" PROVE verdict'[wpeer[v]] # "none"
    <3>1. CASE v = w
      BY <3>1, <2>1
    <3>2. CASE v # w
      BY <3>2, <2>1, <1>6 DEF Judged, Handed, FetchType
    <3> QED
      BY <3>1, <3>2
  <2>2. \A p \in inbox : p \in asked /\ p \notin Held
    BY DEF Handed, FetchType
  <2>3. \A p \in Heeded : p \in asked /\ p \notin Held
    BY DEF Heeded
  <2> QED
    BY <2>1, <2>2, <2>3, <1>2, <1>4, <1>6 DEF Judged
<1>7. Accounted'
  BY <1>2, <1>5, <1>6 DEF Accounted
<1> QED
  BY <1>3, <1>7

LEMMA EndsStep == ASSUME FetchInv, NEW w \in Workers, wpc[w] \in {"dial", "hello", "piece"},
                         NEW v \in {"valid", "failed", "mismatch"}, Ends(w, v),
                         v = "mismatch" => wpeer[w] \notin Honest
                  PROVE  FetchInv'
<1> USE DEF FetchInv
<1>1. wpeer[w] \in asked /\ wpeer[w] \in Peers
  BY DEF Handed, FetchType
<1>2. /\ verdict' = [verdict EXCEPT ![wpeer[w]] = v]
      /\ wpc' = [wpc EXCEPT ![w] = "report"]
      /\ UNCHANGED <<caller, wpeer>>
  BY DEF Ends
<1>3. FetchType'
  <2>1. Nothing \in [Places -> 0..MetaPieces] /\ 0 \in 0..MetaPieces
    BY MetadataAssumption DEF Nothing, Junk
  <2> QED
    BY <1>1, <2>1 DEF Ends, FetchType, caller
<1>4. Handed' /\ Accounted'
  <2>1. /\ caller' = caller /\ wpeer' = wpeer /\ wpc[w] # "gone"
        /\ \A u \in Workers \ {w} : wpc'[u] = wpc[u]
        /\ wpc[w] \notin {"gone", "idle"} /\ wpc'[w] \notin {"gone", "idle"}
        /\ \A p \in Peers : \/ verdict'[p] = verdict[p]
                            \/ wpeer[w] = p /\ verdict'[p] # "none"
        /\ verdict'[wpeer[w]] # "none"
    BY <1>1, <1>2 DEF FetchType
  <2> HIDE DEF FetchInv
  <2> QED
    BY <2>1, <1>3, AccountsKept
<1>5. Assembling'
  BY <1>2 DEF Ends, Assembling, FetchType
<1>6. HonestJudged'
  BY <1>1, <1>2, MetadataAssumption DEF HonestJudged, FetchType
<1> QED
  BY <1>3, <1>4, <1>5, <1>6

LEMMA TakeStep == ASSUME FetchInv, NEW w \in Workers, TakePeer(w) PROVE FetchInv'
<1> USE DEF FetchInv
<1>1. PICK p \in waiting : waiting' = waiting \ {p} /\ wpeer' = [wpeer EXCEPT ![w] = p]
  BY DEF TakePeer
<1>2. /\ wpc[w] = "idle" /\ wpc' = [wpc EXCEPT ![w] = "dial"]
      /\ UNCHANGED <<fpc, outcome, feeding, cancelled, got, inbox, asked, verdict,
                     want, pending, skip, assembled>>
  BY DEF TakePeer
<1>3. p \in asked /\ p \in Peers /\ p \notin Held /\ p \notin inbox
  BY DEF FetchType, Handed
<1>4. FetchType'
  BY <1>1, <1>2, <1>3 DEF FetchType
<1>5. \A v \in Workers, q \in asked : Holds(v, q)' <=> (Holds(v, q) \/ (v = w /\ q = p))
  <2>1. /\ wpc'[w] = "dial" /\ wpeer'[w] = p
        /\ \A v \in Workers \ {w} : wpc'[v] = wpc[v] /\ wpeer'[v] = wpeer[v]
    BY <1>1, <1>2 DEF FetchType
  <2> QED
    BY <2>1, <1>2 DEF Holds
<1>6. Held' = Held \cup {p}
  BY <1>2, <1>3, <1>5 DEF Held
<1>7. Handed'
  <2>1. \A v \in Workers : wpc'[v] \notin {"gone", "idle"} => wpeer'[v] \in asked'
    BY <1>1, <1>2, <1>3 DEF Handed, FetchType
  <2>2. \A u, v \in Workers, q \in asked : Holds(u, q)' /\ Holds(v, q)' => u = v
    <3>1. \A v \in Workers : ~ Holds(v, p)
      BY <1>3 DEF Held
    <3> QED
      BY <3>1, <1>5 DEF Handed
  <2>3. waiting' \cap inbox' = {} /\ waiting' \cap Held' = {} /\ inbox' \cap Held' = {}
    BY <1>1, <1>2, <1>3, <1>6 DEF Handed
  <2> QED
    BY <2>1, <2>2, <2>3, <1>2 DEF Handed
<1>8. Assembling' /\ HonestJudged'
  BY <1>1, <1>2 DEF Assembling, HonestJudged, FetchType
<1>9. Heeded' = Heeded
  BY <1>1, <1>2, <1>6 DEF Heeded
<1>10. outcome # "error" /\ fpc # "off"
  BY <1>2 DEF Accounted
<1>11. ASSUME Judged PROVE Judged'
  BY <1>1, <1>2, <1>9, <1>11 DEF Judged, FetchType
<1>12. Accounted'
  BY <1>2, <1>9, <1>10, <1>11 DEF Accounted
<1> QED
  BY <1>4, <1>7, <1>8, <1>12

LEMMA NoPeerStep == ASSUME FetchInv, NEW w \in Workers, NoPeerLeft(w) PROVE FetchInv'
<1> USE DEF FetchInv, NoPeerLeft
<1>1. FetchType'
  BY DEF FetchType, caller
<1>2. Handed' /\ Accounted'
  <2>1. /\ caller' = caller /\ wpeer' = wpeer /\ wpc[w] # "gone"
        /\ \A v \in Workers \ {w} : wpc'[v] = wpc[v]
        /\ wpc[w] \in {"gone", "idle"} /\ wpc'[w] \in {"gone", "idle"}
        /\ \A p \in Peers : verdict'[p] = verdict[p]
        /\ wpc'[w] # "report"
    BY DEF FetchType
  <2> HIDE DEF FetchInv, NoPeerLeft
  <2> QED
    BY <2>1, <1>1, AccountsKept
<1>3. Assembling' /\ HonestJudged'
  BY DEF Assembling, HonestJudged, FetchType
<1> QED
  BY <1>1, <1>2, <1>3

\* The steps of a fetch before its end.
LEMMA TalkStep == ASSUME FetchInv, NEW w \in Workers, Dial(w) \/ ReadHello(w) PROVE FetchInv'
<1> USE DEF FetchInv
<1>1. FetchType'
  <2>1. {1} \in SUBSET Places /\ 1 \in 0..MetaPieces
    BY MetadataAssumption DEF Places
  <2>2. CASE Dial(w)
    BY <2>2 DEF FetchType, caller, Dial
  <2>3. CASE ReadHello(w)
    BY <2>1, <2>3 DEF FetchType, caller, ReadHello
  <2> QED
    BY <2>2, <2>3
<1>2. Handed' /\ Accounted'
  <2>1. /\ caller' = caller /\ wpeer' = wpeer /\ wpc[w] # "gone"
        /\ \A v \in Workers \ {w} : wpc'[v] = wpc[v]
        /\ wpc[w] \notin {"gone", "idle"} /\ wpc'[w] \notin {"gone", "idle"}
        /\ \A p \in Peers : verdict'[p] = verdict[p]
        /\ wpc'[w] # "report"
    BY DEF FetchType, Dial, ReadHello
  <2> HIDE DEF FetchInv
  <2> QED
    BY <2>1, <1>1, AccountsKept
<1>3. HonestJudged'
  BY DEF HonestJudged, Dial, ReadHello
<1>4. Assembling'
  <2>1. CASE Dial(w)
    BY <2>1 DEF Dial, Assembling, FetchType
  <2>2. CASE ReadHello(w)
    BY <2>2, MetadataAssumption DEF ReadHello, Assembling, FetchType, Places
  <2> QED
    BY <2>1, <2>2
<1> QED
  BY <1>1, <1>2, <1>3, <1>4

LEMMA OtherStep == ASSUME FetchInv, NEW w \in Workers, ReadOther(w) PROVE FetchInv'
<1>1. CASE skip[w] + 1 < MaxSkip
  <2> USE DEF FetchInv
  <2>1. /\ skip' = [skip EXCEPT ![w] = @ + 1]
        /\ UNCHANGED <<caller, verdict, wpc, wpeer, want, pending, assembled>>
        /\ wpc[w] \in {"hello", "piece"}
    BY <1>1 DEF ReadOther
  <2>2. FetchType'
    BY <2>1 DEF FetchType, caller
  <2>3. Handed' /\ Accounted'
    <3>1. /\ caller' = caller /\ wpeer' = wpeer /\ wpc[w] # "gone"
          /\ \A v \in Workers \ {w} : wpc'[v] = wpc[v]
          /\ wpc[w] \notin {"gone", "idle"} /\ wpc'[w] \notin {"gone", "idle"}
          /\ \A p \in Peers : verdict'[p] = verdict[p]
          /\ wpc'[w] # "report"
      BY <2>1
    <3> HIDE DEF FetchInv
    <3> QED
      BY <3>1, <2>2, AccountsKept
  <2>4. Assembling' /\ HonestJudged'
    BY <2>1 DEF Assembling, HonestJudged
  <2> QED
    BY <2>2, <2>3, <2>4
<1>2. CASE ~ (skip[w] + 1 < MaxSkip)
  BY <1>2, EndsStep DEF ReadOther
<1> QED
  BY <1>1, <1>2

LEMMA DataStep == ASSUME FetchInv, NEW w \in Workers, ReadData(w) PROVE FetchInv'
<1> USE DEF FetchInv
<1> DEFINE i == want[w]
<1>1. PICK j \in Incoming(w) :
         LET a == [assembled[w] EXCEPT ![i] = j] IN
         IF i < MetaPieces
         THEN /\ assembled' = [assembled EXCEPT ![w] = a]
              /\ want' = [want EXCEPT ![w] = i + 1]
              /\ pending' = [pending EXCEPT ![w] = (@ \ {j}) \cup {i + 1}]
              /\ skip' = [skip EXCEPT ![w] = 0]
              /\ UNCHANGED <<caller, verdict, wpc, wpeer>>
         ELSE Ends(w, IF a = Dict THEN "valid" ELSE "mismatch")
  BY DEF ReadData
<1> DEFINE a == [assembled[w] EXCEPT ![i] = j]
<1>2. wpc[w] = "piece" /\ i \in Places /\ i \in 1..MetaPieces
  BY DEF ReadData, Assembling, Places
<1>3. MetaPieces \in Nat \ {0}
  BY MetadataAssumption
<1>4. assembled[w] \in [Places -> 0..MetaPieces] /\ pending[w] \in SUBSET Places
  BY DEF FetchType
<1>5. j \in 0..MetaPieces
  BY <1>3, <1>4 DEF Incoming, Places, Junk
<1>6. a \in [Places -> 0..MetaPieces]
  BY <1>4, <1>5
<1>7. wpeer[w] \in Honest => /\ j = i /\ pending[w] = {i}
                            /\ \A k \in 1..i : a[k] = k
  <2> SUFFICES ASSUME wpeer[w] \in Honest
               PROVE  j = i /\ pending[w] = {i} /\ \A k \in 1..i : a[k] = k
    OBVIOUS
  <2>1. j = i /\ pending[w] = {i} /\ \A k \in 1..(i - 1) : assembled[w][k] = k
    BY <1>2 DEF Assembling, Incoming
  <2>2. ASSUME NEW k \in 1..i PROVE a[k] = k
    <3>1. k \in Places /\ (k = i \/ k \in 1..(i - 1))
      BY <1>2, <1>3 DEF Places
    <3> QED
      BY <1>4, <2>1, <3>1
  <2> QED
    BY <2>1, <2>2
<1>8. CASE i < MetaPieces
  <2>1. /\ assembled' = [assembled EXCEPT ![w] = a]
        /\ want' = [want EXCEPT ![w] = i + 1]
        /\ pending' = [pending EXCEPT ![w] = (@ \ {j}) \cup {i + 1}]
        /\ skip' = [skip EXCEPT ![w] = 0]
        /\ UNCHANGED <<caller, verdict, wpc, wpeer>>
    BY <1>1, <1>8
  <2> HIDE DEF a, i
  <2>2. i + 1 \in Places /\ i + 1 \in 0..MetaPieces /\ 0 \in Nat
    BY <1>2, <1>3, <1>8 DEF Places
  <2>3. FetchType'
    BY <2>1, <2>2, <1>6 DEF FetchType, caller
  <2>4. Handed' /\ Accounted'
    <3>1. /\ caller' = caller /\ wpeer' = wpeer /\ wpc[w] # "gone"
          /\ \A v \in Workers \ {w} : wpc'[v] = wpc[v]
          /\ wpc[w] \notin {"gone", "idle"} /\ wpc'[w] \notin {"gone", "idle"}
          /\ \A p \in Peers : verdict'[p] = verdict[p]
          /\ wpc'[w] # "report"
      BY <1>2, <2>1
    <3> HIDE DEF FetchInv
    <3> QED
      BY <3>1, <2>3, AccountsKept
  <2>5. HonestJudged'
    BY <2>1 DEF HonestJudged
  <2>6. Assembling'
    <3> SUFFICES ASSUME NEW v \in Workers, wpc'[v] = "piece"
                 PROVE  /\ want'[v] \in Places
                        /\ wpeer'[v] \in Honest =>
                              /\ pending'[v] = {want'[v]}
                              /\ \A k \in 1..(want'[v] - 1) : assembled'[v][k] = k
      BY DEF Assembling
    <3>1. CASE v = w
      <4>1. want'[w] = i + 1 /\ assembled'[w] = a /\ pending'[w] = (pending[w] \ {j}) \cup {i + 1}
        BY <2>1 DEF FetchType
      <4>2. 1..(want'[w] - 1) = 1..i
        BY <4>1, <1>2
      <4> QED
        BY <3>1, <4>1, <4>2, <2>1, <2>2, <1>7
    <3>2. CASE v # w
      <4>1. want'[v] = want[v] /\ assembled'[v] = assembled[v] /\ pending'[v] = pending[v]
            /\ wpc[v] = "piece" /\ wpeer'[v] = wpeer[v]
        BY <3>2, <2>1 DEF FetchType
      <4> QED
        BY <4>1 DEF Assembling
    <3> QED
      BY <3>1, <3>2
  <2> QED
    BY <2>3, <2>4, <2>5, <2>6
<1>9. CASE ~ (i < MetaPieces)
  <2>1. Ends(w, IF a = Dict THEN "valid" ELSE "mismatch")
    BY <1>1, <1>9
  <2>2. wpeer[w] \in Honest => a = Dict
    <3> SUFFICES ASSUME wpeer[w] \in Honest PROVE a = Dict
      OBVIOUS
    <3>1. i = MetaPieces
      BY <1>2, <1>3, <1>9
    <3> QED
      BY <1>6, <1>7, <3>1 DEF Dict, Places
  <2> HIDE DEF a
  <2>3. CASE a = Dict
    BY <2>1, <2>3, <1>2, EndsStep
  <2>4. CASE a # Dict
    BY <2>1, <2>2, <2>4, <1>2, EndsStep
  <2> QED
    BY <2>3, <2>4
<1> QED
  BY <1>8, <1>9

LEMMA ReportStep == ASSUME FetchInv, NEW w \in Workers, Report(w) PROVE FetchInv'
<1> USE DEF FetchInv
<1> DEFINE p == wpeer[w]
<1>1. /\ wpc[w] = "report"
      /\ inbox' = inbox \cup {p} \/ (cancelled /\ inbox' = inbox)
      /\ wpc' = [wpc EXCEPT ![w] = IF verdict[p] = "valid" THEN "gone" ELSE "idle"]
      /\ wpeer' = [wpeer EXCEPT ![w] = NoPeer]
      /\ UNCHANGED <<fpc, outcome, waiting, feeding, cancelled, got, asked, verdict,
                     want, pending, skip, assembled>>
  BY DEF Report
<1>2. p \in asked /\ p \in Held
  BY <1>1 DEF Handed, Held, Holds
<1>3. FetchType'
  BY <1>1, <1>2 DEF FetchType
<1>4. \A v \in Workers : \A q : Holds(v, q)' <=> Holds(v, q) /\ v # w
  BY <1>1 DEF Holds, FetchType
<1>5. Held' = Held \ {p}
  <2>1. ASSUME NEW q \in asked PROVE q \in Held' <=> q \in Held /\ q # p
    <3>1. q \in Held' <=> \E v \in Workers : Holds(v, q) /\ v # w
      BY <1>1, <1>4 DEF Held
    <3>2. Holds(w, p) /\ (Holds(w, q) => q = p)
      BY <1>1 DEF Holds
    <3> QED
      BY <3>1, <3>2, <1>2 DEF Held, Handed
  <2> QED
    BY <2>1, <1>1 DEF Held
<1> HIDE DEF p
<1>6. Handed'
  <2>1. \A v \in Workers : wpc'[v] \notin {"gone", "idle"} => wpeer'[v] \in asked'
    BY <1>1 DEF Handed, FetchType
  <2>2. \A u, v \in Workers, q \in asked : Holds(u, q)' /\ Holds(v, q)' => u = v
    BY <1>4 DEF Handed
  <2>3. waiting' \cap inbox' = {} /\ waiting' \cap Held' = {} /\ inbox' \cap Held' = {}
    BY <1>1, <1>2, <1>5 DEF Handed
  <2> QED
    BY <2>1, <2>2, <2>3, <1>1 DEF Handed
<1>7. Assembling' /\ HonestJudged'
  BY <1>1 DEF Assembling, HonestJudged, FetchType
<1>8. outcome # "error" /\ fpc # "off"
  BY <1>1 DEF Accounted
<1>9. ASSUME ~ cancelled, Judged PROVE Heeded' = Heeded /\ Judged'
  <2>1. inbox' = inbox \cup {p} /\ verdict[p] # "none"
    BY <1>1, <1>9 DEF Judged, p
  <2>2. Heeded' = Heeded
    BY <1>1, <1>2, <1>5, <2>1 DEF Heeded
  <2>3. Judged'
    <3>1. \A v \in Workers : wpc'[v] = "report" => v # w /\ wpc[v] = "report" /\ wpeer'[v] = wpeer[v]
      BY <1>1 DEF FetchType
    <3> QED
      BY <3>1, <1>1, <1>9, <2>1, <2>2 DEF Judged
  <2> QED
    BY <2>2, <2>3
<1>10. Accounted'
  BY <1>1, <1>8, <1>9 DEF Accounted
<1> QED
  BY <1>3, <1>6, <1>7, <1>10

LEMMA WorkerKeeps == ASSUME FetchInv, NEW w \in Workers, WorkerStep(w) PROVE FetchInv'
<1>1. CASE FetchFails(w)
  BY <1>1, EndsStep DEF FetchFails
<1> QED
  BY <1>1, TakeStep, NoPeerStep, TalkStep, OtherStep, DataStep, ReportStep DEF WorkerStep

-----------------------------------------------------------------------------
(* The steps *)

LEMMA FetchKeeps == ASSUME FetchInv, MetadataStep
                    PROVE  FetchInv' /\ asked' = asked /\ (fpc = "off" <=> fpc' = "off")
<1>1. FetchInv'
  BY CallerKeeps, FeederStep, WorkerKeeps DEF MetadataStep
<1>2. asked' = asked /\ (fpc = "off" <=> fpc' = "off")
  BY DEF MetadataStep, CallerStep, ReceiveInfo, ReceiveError, Join, FeederEnds, WorkerStep,
     TakePeer, NoPeerLeft, Dial, ReadHello, ReadOther, ReadData, FetchFails, Ends, Report, caller
<1> QED
  BY <1>1, <1>2

LEMMA Parts == IInv <=> LookupInv /\ FetchInv /\ MainType /\ Remembered /\ Fetched
BY DEF IInv, LookupInv, FetchInv

LEMMA ToldNothing == ASSUME LookupInv, lpc # "wait" PROVE Told = {}
BY DEF LookupInv, Queries, Told

LEMMA RememberedIs ==
    Remembered <=>
        /\ mpc = "trackers" => heard = {} /\ lpc = "off"
        /\ mpc = "dht" => heard \subseteq dhtPeers \cup found \cup Told
        /\ mpc \notin {"trackers", "dht"} => heard \subseteq peers
        /\ mpc # "dht" => lpc \in {"off", "over"}
        /\ lpc \in {"off", "over"} => found \subseteq dhtPeers
BY DEF Remembered, Told

LEMMA RememberedThen ==
    Remembered' <=>
        /\ mpc' = "trackers" => heard' = {} /\ lpc' = "off"
        /\ mpc' = "dht" => heard' \subseteq dhtPeers' \cup found' \cup Told'
        /\ mpc' \notin {"trackers", "dht"} => heard' \subseteq peers'
        /\ mpc' # "dht" => lpc' \in {"off", "over"}
        /\ lpc' \in {"off", "over"} => found' \subseteq dhtPeers'
BY DEF Remembered, Told

LEMMA MainKeeps == ASSUME IInv, MainStep PROVE IInv'
<1>1. LookupInv /\ FetchInv /\ MainType /\ Remembered /\ Fetched
  BY Parts
<1>2. Remembered <=>
        /\ mpc = "trackers" => heard = {} /\ lpc = "off"
        /\ mpc = "dht" => heard \subseteq dhtPeers \cup found \cup Told
        /\ mpc \notin {"trackers", "dht"} => heard \subseteq peers
        /\ mpc # "dht" => lpc \in {"off", "over"}
        /\ lpc \in {"off", "over"} => found \subseteq dhtPeers
  BY RememberedIs
<1> SUFFICES LookupInv' /\ FetchInv' /\ MainType' /\ Remembered' /\ Fetched'
  BY DEF IInv, LookupInv, FetchInv
<1>3. CASE Gather
  <2>1. UNCHANGED lookup /\ UNCHANGED metadata
    BY <1>3 DEF Gather
  <2>2. LookupInv' /\ FetchInv'
    BY <1>1, <2>1, LookupRests, FetchRests
  <2>3. MainType'
    BY <1>1, <1>3, MagnetAssumption DEF Gather, MainType
  <2>4. Fetched'
    BY <1>1, <1>3, <2>1 DEF Gather, Fetched, metadata, caller
  <2>5. Remembered'
    BY <1>1, <1>2, <1>3, <2>1, RememberedThen DEF Gather, lookup
  <2> QED
    BY <2>2, <2>3, <2>4, <2>5
<1>4. CASE StartLookup
  <2>1. UNCHANGED metadata /\ Seed
    BY <1>4 DEF StartLookup
  <2>2. LookupInv' /\ FetchInv'
    BY <1>1, <2>1, SeedStep, FetchRests
  <2>3. MainType'
    BY <1>1, <1>4 DEF StartLookup, MainType
  <2>4. Fetched'
    BY <1>1, <1>4, <2>1 DEF StartLookup, Fetched, metadata, caller
  <2>5. Told' = Told
    BY <2>1 DEF Seed, Told
  <2>6. Remembered'
    BY <1>1, <1>2, <1>4, <2>1, <2>5, RememberedThen DEF StartLookup, Seed
  <2> QED
    BY <2>2, <2>3, <2>4, <2>6
<1>5. CASE EndLookup
  <2>1. UNCHANGED metadata /\ Copy
    BY <1>5 DEF EndLookup
  <2>2. LookupInv' /\ FetchInv' /\ Told = {}
    BY <1>1, <2>1, CopyStep, FetchRests
  <2>3. MainType'
    BY <1>1, <1>5 DEF EndLookup, MainType, LookupInv, LookupType
  <2>4. Fetched'
    BY <1>1, <1>5, <2>1 DEF EndLookup, Fetched, metadata, caller
  <2>5. Remembered'
    BY <1>1, <1>2, <1>5, <2>1, <2>2, RememberedThen DEF EndLookup, Copy
  <2> QED
    BY <2>2, <2>3, <2>4, <2>5
<1>6. CASE EndDHT
  <2>1. UNCHANGED lookup /\ UNCHANGED metadata
    BY <1>6 DEF EndDHT
  <2>2. LookupInv' /\ FetchInv'
    BY <1>1, <2>1, LookupRests, FetchRests
  <2>3. MainType'
    BY <1>1, <1>6 DEF EndDHT, MainType
  <2>4. Fetched'
    BY <1>1, <1>6, <2>1 DEF EndDHT, Fetched, metadata, caller
  <2>5. Told = {}
    BY <1>1, <1>6, ToldNothing DEF EndDHT
  <2>6. Remembered'
    BY <1>1, <1>2, <1>6, <2>1, <2>5, RememberedThen DEF EndDHT, lookup
  <2> QED
    BY <2>2, <2>3, <2>4, <2>6
<1>7. CASE StartFetch
  <2>1. UNCHANGED lookup /\ UNCHANGED main
    BY <1>7 DEF StartFetch
  <2>2. FetchInv' /\ asked' = peers
    <3>1. CASE FetchFrom(peers)
      BY <1>1, <3>1, BeginStep DEF MainType, FetchFrom
    <3>2. CASE peers = {} /\ FetchFromNone
      BY <1>1, <3>2, BeginNoneStep DEF FetchFromNone, FetchInv, Accounted
    <3> QED
      BY <3>1, <3>2, <1>7 DEF StartFetch
  <2>3. LookupInv'
    BY <1>1, <2>1, LookupRests
  <2>4. MainType' /\ Remembered' /\ mpc' = "fetch"
    BY <1>1, <1>7, <2>1 DEF StartFetch, MainType, Remembered, main, lookup
  <2>5. Fetched'
    BY <2>1, <2>2, <2>4 DEF Fetched, main
  <2> QED
    BY <2>2, <2>3, <2>4, <2>5
<1>8. CASE EndFetch
  <2>1. UNCHANGED lookup /\ UNCHANGED metadata
    BY <1>8 DEF EndFetch
  <2>2. LookupInv' /\ FetchInv'
    BY <1>1, <2>1, LookupRests, FetchRests
  <2>3. MainType' /\ Remembered'
    BY <1>1, <1>8, <2>1 DEF EndFetch, MainType, Remembered, lookup
  <2>4. Fetched'
    BY <1>1, <1>8, <2>1 DEF EndFetch, Fetched, metadata, caller, FetchInv, FetchType, Accounted
  <2> QED
    BY <2>2, <2>3, <2>4
<1> QED
  BY <1>3, <1>4, <1>5, <1>6, <1>7, <1>8 DEF MainStep

LEMMA LookupKeeps == ASSUME IInv, LookupRuns \/ TimePasses PROVE IInv'
<1>1. LookupInv /\ FetchInv /\ MainType /\ Remembered /\ Fetched
  BY Parts
<1>2. UNCHANGED main /\ UNCHANGED metadata
  BY DEF LookupRuns, TimePasses
<1>3. FetchInv' /\ MainType' /\ Fetched'
  BY <1>1, <1>2, FetchRests DEF MainType, Fetched, main, metadata, caller
<1>4. LookupInv' /\ Remembered'
  <2>1. ASSUME NEW n \in Nodes, QueryStep(n) PROVE LookupInv' /\ Remembered'
    <3>1. LookupInv' /\ lpc = "wait" /\ lpc' = "wait"
      BY <1>1, <2>1, QueryKeeps DEF QueryStep, Answered, QueryFails, AddPeers, AddNodes
    <3>2. mpc = "dht"
      BY <1>1, <3>1 DEF Remembered
    <3>3. heard' \subseteq dhtPeers \cup found' \cup Told'
      BY <1>1, <2>1, <3>2, RememberedIs, ToldKept
    <3> QED
      BY <1>2, <3>1, <3>2, <3>3, RememberedThen DEF main
  <2>2. CASE StartRound \/ OutOfTime \/ RoundEnds \/ Expire
    <3>1. LookupInv'
      BY <1>1, <2>2, RoundStep
    <3>2. /\ lpc \in {"round", "wait"} /\ lpc' \in {"round", "wait", "copy"}
          /\ heard' = heard /\ found' = found
      BY <2>2 DEF StartRound, OutOfTime, RoundEnds, Expire
    <3>3. Told \subseteq Told'
      <4>1. \A n \in Nodes : query[n] = "peers" => query'[n] = "peers" /\ answer' = answer
        <5>1. Batch \cap queried = {} /\ Batch \subseteq Nodes
          BY <1>1 DEF Batch, Closest, LookupInv, ClosestKept, LookupType
        <5> QED
          BY <1>1, <2>2, <5>1 DEF StartRound, OutOfTime, RoundEnds, Expire, LookupInv, Queries
      <4> QED
        BY <4>1 DEF Told
    <3>4. mpc = "dht" /\ heard \subseteq dhtPeers \cup found \cup Told
      BY <1>1, <3>2, RememberedIs
    <3> QED
      BY <1>2, <3>1, <3>2, <3>3, <3>4, RememberedThen DEF main
  <2> QED
    BY <2>1, <2>2 DEF LookupRuns, TimePasses
<1> QED
  BY <1>3, <1>4 DEF IInv, LookupInv, FetchInv

LEMMA FetchRunsKeeps == ASSUME IInv, FetchRuns PROVE IInv'
<1>1. LookupInv /\ FetchInv /\ MainType /\ Remembered /\ Fetched
  BY Parts
<1>2. UNCHANGED lookup /\ UNCHANGED main /\ MetadataStep /\ mpc # "exit"
  BY DEF FetchRuns
<1>3. FetchInv' /\ asked' = asked /\ (fpc = "off" <=> fpc' = "off")
  BY <1>1, <1>2, FetchKeeps
<1>4. LookupInv'
  BY <1>1, <1>2, LookupRests
<1>5. MainType' /\ Remembered'
  BY <1>1, <1>2 DEF MainType, Remembered, main, lookup
<1>6. Fetched'
  BY <1>1, <1>2, <1>3 DEF Fetched, main
<1> QED
  BY <1>3, <1>4, <1>5, <1>6 DEF IInv, LookupInv, FetchInv

LEMMA Resting == ASSUME IInv, UNCHANGED vars PROVE IInv'
<1>1. LookupInv /\ FetchInv /\ MainType /\ Remembered /\ Fetched
  BY Parts
<1>2. UNCHANGED lookup /\ UNCHANGED main /\ UNCHANGED metadata
  BY DEF vars
<1>3. LookupInv' /\ FetchInv'
  BY <1>1, <1>2, LookupRests, FetchRests
<1>4. MainType' /\ Remembered' /\ Fetched'
  BY <1>1, <1>2 DEF MainType, Remembered, Fetched, main, lookup, metadata, caller
<1> QED
  BY <1>3, <1>4 DEF IInv, LookupInv, FetchInv

-----------------------------------------------------------------------------
(* Theorems *)

\* The inductive invariant holds in every reachable state: whatever the nodes and
\* the peers answer, and however queries and workers interleave.
THEOREM MagnetInvariance == Spec => []IInv
<1>1. IInv /\ [Next]_vars => IInv'
  BY MainKeeps, LookupKeeps, FetchRunsKeeps, Resting DEF Next, Rest
<1> QED
  BY <1>1, InitIInv, PTL DEF Spec

\* The cut list of a lookup holds the closest of all the nodes ever seen, for every
\* length of the list and every interleaving of the answers.
THEOREM ListIsClosest == Spec => []ClosestKept
<1>1. IInv => ClosestKept
  BY DEF IInv
<1> QED
  BY <1>1, MagnetInvariance, PTL

\* A lookup asks no node a second time.
THEOREM NobodyAskedTwice == Spec => AskedOnce
<1> DEFINE Once == \A n \in Nodes : query[n] \in {"peers", "nodes", "done"} => query'[n] # "asked"
<1>1. ASSUME IInv, Next PROVE Once
  <2>1. CASE query' = query
    BY <2>1
  <2>2. CASE Copy
    BY <2>2 DEF Copy
  <2>3. CASE StartRound
    <3>1. \A n \in Batch : query[n] = "none"
      BY <1>1 DEF IInv, Queries, Batch, Closest, ClosestKept, LookupType
    <3> QED
      BY <2>3, <3>1 DEF StartRound
  <2>4. ASSUME NEW n \in Nodes, QueryStep(n) PROVE Once
    BY <1>1, <2>4 DEF QueryStep, Answered, QueryFails, AddPeers, AddNodes, IInv, LookupType
  <2>5. query' = query \/ Copy \/ StartRound \/ (\E n \in Nodes : QueryStep(n))
    BY <1>1 DEF Next, MainStep, Gather, StartLookup, Seed, EndLookup, EndDHT, StartFetch, EndFetch,
       LookupRuns, OutOfTime, RoundEnds, TimePasses, Expire, FetchRuns, Rest, vars, lookup
  <2> QED
    BY <2>1, <2>2, <2>3, <2>4, <2>5
<1>2. ASSUME UNCHANGED vars PROVE UNCHANGED lookup
  BY <1>2 DEF vars
<1>3. IInv /\ [Next]_vars => [Once]_lookup
  BY <1>1, <1>2
<1> QED
  BY <1>3, MagnetInvariance, PTL DEF Spec, AskedOnce

\* A start that gives up has tried every peer that it heard of, in vain: no peer is
\* lost between the answers, the rounds, the feeder, the workers and the results.
THEOREM EveryPeerTried == Spec => []NoPeerForgotten
<1>1. IInv => NoPeerForgotten
  BY DEF IInv, NoPeerForgotten, Fetched, Accounted, Remembered, Bad
<1> QED
  BY <1>1, MagnetInvariance, PTL

\* No honest peer's dictionary is found corrupt, for every number of pieces.
THEOREM HonestNotBlamed == Spec => []MismatchDeserved
<1>1. IInv => MismatchDeserved
  BY DEF IInv, HonestJudged, MismatchDeserved
<1> QED
  BY <1>1, MagnetInvariance, PTL
=============================================================================
