------------------------------ MODULE Unchoke -------------------------------
(***************************************************************************)
(* The upload slots: UnchokeRound (src/internal/choke/choke.go) as main    *)
(* uses it.  Every inbound connection registers its remote address, every  *)
(* uploaded block is recorded, and a ticker decides every ten seconds who  *)
(* holds the slots.  Each operation holds the mutex, and is one action.    *)
(*                                                                         *)
(* Peers are ranked by what was uploaded to them and then by their last    *)
(* activity: main never calls RecordDownload, so that the first criterion  *)
(* of the sort is the same for all.  It never calls RemovePeer either, so  *)
(* a peer stays registered after its connection has closed.                *)
(***************************************************************************)
EXTENDS Integers, Sequences, FiniteSets

CONSTANTS
    Peers,                  \* remote addresses: one for each connection
    MaxUnchoked,            \* 4 in main
    OptimisticInterval,     \* rounds from one optimistic unchoke to the next
    MaxTotal,               \* bound: uploaded blocks that are told apart
    NoPeer

ASSUME PeersAssumption    == IsFiniteSet(Peers) /\ NoPeer \notin Peers
ASSUME SlotsAssumption    == MaxUnchoked \in Nat
ASSUME IntervalAssumption == OptimisticInterval \in Nat \ {0}
ASSUME TotalAssumption    == MaxTotal \in Nat

VARIABLES
    registered,     \* the keys of ur.peers
    unchoked,       \* those whose Choked is false
    total,          \* TotalUploaded, in blocks
    active,         \* the registered peers, the last one active first
    round,          \* roundNumber, modulo OptimisticInterval
    lastOptimistic

unchoker == <<registered, unchoked, total, active, round, lastOptimistic>>

InitUnchoker ==
    /\ registered = {}
    /\ unchoked = {}
    /\ total = [p \in Peers |-> 0]
    /\ active = <<>>
    /\ round = 0
    /\ lastOptimistic = NoPeer

-----------------------------------------------------------------------------

Others(p) == SelectSeq(active, LAMBDA q : q # p)

\* RegisterPeer of an address that is not registered yet.
RegisterPeer(p) ==
    /\ p \notin registered
    /\ registered' = registered \cup {p}
    /\ active' = <<p>> \o active
    /\ UNCHANGED <<unchoked, total, round, lastOptimistic>>

RecordUpload(p) ==
    /\ total' = [total EXCEPT ![p] = IF @ < MaxTotal THEN @ + 1 ELSE @]
    /\ active' = <<p>> \o Others(p)
    /\ UNCHANGED <<registered, unchoked, round, lastOptimistic>>

\* sortPeersByDownloadRate.
Place(p) == CHOOSE i \in 1..Len(active) : active[i] = p

Better(p, q) ==
    \/ total[p] > total[q]
    \/ total[p] = total[q] /\ Place(p) < Place(q)

Limit == IF MaxUnchoked < Cardinality(registered)
         THEN MaxUnchoked ELSE Cardinality(registered)

\* The first Limit peers in that order.
IsTop(S) ==
    /\ Cardinality(S) = Limit
    /\ \A p \in S, q \in registered \ S : Better(p, q)

\* The first peer after them that did not have the optimistic slot last time,
\* or simply the first one.
IsOptimistic(o, S) ==
    LET Fresh == registered \ (S \cup {lastOptimistic})
        From  == IF Fresh = {} THEN registered \ S ELSE Fresh
    IN  o \in From /\ \A q \in From \ {o} : Better(o, q)

IsWorst(v, S) == v \in S /\ \A p \in S \ {v} : Better(p, v)

OptimisticRound == (round + 1) % OptimisticInterval = 0

\* DecideUnchokes, in a round that leaves the slots to the top peers and in one
\* that gives the slot of the worst of them away.
PlainRound ==
    /\ ~(OptimisticRound /\ Limit > 0 /\ Cardinality(registered) > Limit)
    /\ \E S \in SUBSET registered : IsTop(S) /\ unchoked' = S
    /\ lastOptimistic' = IF registered # {} /\ Limit = 0 THEN NoPeer ELSE lastOptimistic

AddedSlot ==   \* slip: the optimistic peer comes on top of the others
    /\ OptimisticRound /\ Limit > 0 /\ Cardinality(registered) > Limit
    /\ \E S \in SUBSET registered : \E o \in registered :
          /\ IsTop(S) /\ IsOptimistic(o, S)
          /\ unchoked' = S \cup {o}
          /\ lastOptimistic' = o
RotatedSlot ==
    /\ OptimisticRound /\ Limit > 0 /\ Cardinality(registered) > Limit
    /\ \E S \in SUBSET registered : \E v, o \in registered :
          /\ IsTop(S) /\ IsWorst(v, S) /\ IsOptimistic(o, S)
          /\ unchoked' = (S \ {v}) \cup {o}
          /\ lastOptimistic' = o

DecideUnchokes ==
    /\ round' = (round + 1) % OptimisticInterval
    /\ PlainRound \/ RotatedSlot
    /\ UNCHANGED <<registered, total, active>>

-----------------------------------------------------------------------------
(* The unchoker alone, with uploads to peers that hold a slot *)

Init == InitUnchoker

Next ==
    \/ \E p \in Peers : RegisterPeer(p)
    \/ \E p \in unchoked : RecordUpload(p)
    \/ DecideUnchokes

Spec == Init /\ [][Next]_unchoker

\* The ticker goes on ticking.
FairSpec == Spec /\ WF_unchoker(DecideUnchokes)

-----------------------------------------------------------------------------
(* Properties *)

UnchokerTypeOK ==
    /\ registered \subseteq Peers
    /\ unchoked \subseteq registered
    /\ total \in [Peers -> 0..MaxTotal]
    /\ Len(active) = Cardinality(registered)
    /\ registered = {active[i] : i \in 1..Len(active)}
    /\ round \in 0..(OptimisticInterval - 1)
    /\ lastOptimistic \in registered \cup {NoPeer}

\* The slots are "strictly capped at MaxUnchoked" (choke.go), in the optimistic
\* rounds too.
SlotsCapped == Cardinality(unchoked) <= MaxUnchoked

\* "occasionally rotate one slot to an unexplored peer" (choke.go): every peer
\* gets a slot at some time.  It fails: the slot alternates between the first
\* two of the peers that wait.
OptimisticExplores == \A p \in Peers : p \in registered ~> p \in unchoked

=============================================================================
