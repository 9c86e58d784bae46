----------------------------- MODULE PieceOrder -----------------------------
(***************************************************************************)
(* The order in which the pieces are queued: buildRarestFirstOrder asks    *)
(* some of the peers for their bitfields, one after the other, before the  *)
(* workers start (src/internal/downloader/downloader.go).  A bitfield is a *)
(* sequence of bytes; the first piece is the highest bit of the first one. *)
(***************************************************************************)
EXTENDS Integers, Sequences, FiniteSets, FiniteSetsExt

CONSTANTS
    Peers,          \* the peers the download starts with
    ProbeLimit,     \* 24: how many of them are asked
    Telling         \* bound: the pieces that peers may have

VARIABLES
    asked,          \* peers that have been asked
    availability,   \* how many of them have each piece
    order,          \* the result, or the empty sequence
    owned           \* history: what the peers that answered have

orderVars == <<asked, availability, order, owned>>

Bit(i) == 2 ^ (7 - (i % 8))

bitfieldHasPiece(bitfield, i) ==
    /\ i \div 8 < Len(bitfield)
    /\ (bitfield[(i \div 8) + 1] \div Bit(i)) % 2 = 1

\* A bitfield that is too short grows.
SetAfresh(bitfield, i) ==       \* slip: the bytes there were are not copied
    [k \in 1..(IF Len(bitfield) > i \div 8 THEN Len(bitfield) ELSE (i \div 8) + 1) |->
        IF k = (i \div 8) + 1 THEN Bit(i) ELSE 0]
setBitfieldPiece(bitfield, i) ==
    LET grown == [k \in 1..(IF Len(bitfield) > i \div 8 THEN Len(bitfield) ELSE (i \div 8) + 1) |->
                    IF k <= Len(bitfield) THEN bitfield[k] ELSE 0]
    IN  IF bitfieldHasPiece(grown, i) THEN grown
        ELSE [grown EXCEPT ![(i \div 8) + 1] = @ + Bit(i)]

\* What a peer that has the pieces of S sends.
Bitfield(S) == FoldSet(LAMBDA i, bitfield : setBitfieldPiece(bitfield, i), <<>>, S)

OrderInit(n) ==
    /\ asked = {}
    /\ availability = [i \in 0..(n - 1) |-> 0]
    /\ order = <<>>
    /\ owned = <<>>

\* probePeerBitfield and what is made of its answer.  It fails when the peer cannot
\* be reached, or its bitfield is not among its first eight messages.
Probe(p) ==
    /\ order = <<>>
    /\ p \notin asked /\ Cardinality(asked) < ProbeLimit
    /\ asked' = asked \cup {p}
    /\ \/ UNCHANGED <<availability, owned>>
       \/ \E S \in SUBSET (Telling \cap DOMAIN availability) :
             /\ availability' = [i \in DOMAIN availability |->
                    IF bitfieldHasPiece(Bitfield(S), i) THEN availability[i] + 1
                    ELSE availability[i]]
             /\ owned' = Append(owned, S)
    /\ UNCHANGED order

\* The comparison of sort.Slice.
FewestFirst(a, b) ==        \* slip: pieces that nobody has come first
    IF availability[a] = availability[b] THEN a < b ELSE availability[a] < availability[b]
Before(a, b) ==
    IF availability[a] = availability[b] THEN a < b
    ELSE availability[a] # 0 /\ (availability[b] = 0 \/ availability[a] < availability[b])

\* sort.Slice: each piece comes after all those that are before it.
Rank(i) == Cardinality({j \in DOMAIN availability : Before(j, i)})

Build ==
    /\ order = <<>>
    /\ asked = Peers \/ Cardinality(asked) = ProbeLimit
    /\ order' = [k \in 1..Cardinality(DOMAIN availability) |->
                    CHOOSE i \in DOMAIN availability : Rank(i) = k - 1]
    /\ UNCHANGED <<asked, availability, owned>>

OrderNext == Build \/ \E p \in Peers : Probe(p)

\* n pieces, for some n.
OrderSpec == (\E n \in Nat : OrderInit(n)) /\ [][OrderNext]_orderVars

-----------------------------------------------------------------------------
(* Properties *)

Holders(i) == Cardinality({k \in DOMAIN owned : i \in owned[k]})

\* The queue starts with the pieces that fewest of the peers that answered have,
\* and those that none of them has come last, equals by number; no piece is left
\* out or comes twice, whether bytes of a bitfield are missing or not
\* (downloader.go:1683-1727, 1651-1658, 1736-1751).
RarestFirst ==
    order # <<>> =>
        /\ {order[k] : k \in DOMAIN order} = DOMAIN availability
        /\ Len(order) = Cardinality(DOMAIN availability)
        /\ \A j, k \in DOMAIN order : j < k =>
              \/ Holders(order[k]) = 0 /\ Holders(order[j]) > 0
              \/ Holders(order[j]) = Holders(order[k]) /\ order[j] < order[k]
              \/ Holders(order[j]) \in 1..(Holders(order[k]) - 1)
=============================================================================
