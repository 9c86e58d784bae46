--------------------------- MODULE LifecycleProofs ---------------------------
(***************************************************************************)
(* Theorems about Lifecycle, for every list of trackers, every length and  *)
(* every finite set of workers.                                            *)
(***************************************************************************)
EXTENDS Lifecycle, FiniteSetTheorems, TLAPS

\* Workers that have marked a piece and not counted it yet.
Uncounted == {w \in Workers : hook[w] = Marked}

CountsOK ==
    /\ done \in 0..Pieces /\ counted \in Nat
    /\ hook \in [Workers -> Nat \cup {Idle, Marked}]

AmountsOK ==
    /\ left \in Nat /\ announced \in Nat /\ farewell \in Nat
    /\ claim \in [Trackers -> Int]

\* The count never runs ahead of the pieces, and no report ahead of the count.
CountBehind ==
    /\ counted + Cardinality(Uncounted) <= done
    /\ \A w \in Workers : hook[w] \in Nat => hook[w] <= counted
    /\ engine = "idle" => \A w \in Workers : hook[w] = Idle
    /\ engine = "ok" => done = Pieces

\* What main and its announcer have loaded, and are about to say, was true once;
\* since then less may be left.
AmountsBacked ==
    /\ known => left >= Pieces - done
    /\ announcing # {} => announced >= Pieces - done
    /\ pc = "completed" \/ (pc = "stopped" /\ todo # {}) => farewell >= Pieces - done

\* Nothing but "started" is said before the length is known.
KnownSince ==
    /\ ticking => known
    /\ pc \in {"ready", "download", "completed", "stopped"} => known
    /\ pc \in {"gather", "dht"} /\ kind # "magnet" => known

Truth == CountsOK /\ AmountsOK /\ CountBehind /\ AmountsBacked /\ KnownSince /\ ClaimsBacked

LEMMA ConstantsAre == /\ Pieces \in Nat /\ Pieces > 0 /\ IsFiniteSet(Workers)
                      /\ Idle # Marked /\ Idle \notin Nat /\ Marked \notin Nat
BY NumbersAssumption

LEMMA TruthInit == Init => Truth
<1> SUFFICES ASSUME Init PROVE Truth
  OBVIOUS
<1>1. Uncounted = {}
  BY ConstantsAre DEF Init, Uncounted
<1>2. Cardinality(Uncounted) = 0
  BY <1>1, FS_EmptySet
<1>3. CountsOK /\ CountBehind
  BY <1>2, ConstantsAre DEF Init, CountsOK, CountBehind
<1>4. AmountsOK /\ ClaimsBacked
  BY ConstantsAre DEF Init, AmountsOK, ClaimsBacked
<1>5. AmountsBacked /\ KnownSince
  BY DEF Init, AmountsBacked, KnownSince
<1> QED
  BY <1>3, <1>4, <1>5 DEF Truth

\* An amount that is still left may be told.
LEMMA TellBacked ==
    ASSUME Truth, NEW t \in Trackers, NEW event, NEW amount \in Nat,
           known => amount >= Pieces - done, Tell(t, event, amount), UNCHANGED done
    PROVE  claim' \in [Trackers -> Int] /\ ClaimsBacked'
<1>1. claim' = IF known THEN [claim EXCEPT ![t] = Lesser(@, amount)] ELSE claim
  BY DEF Tell
<1>2. /\ claim \in [Trackers -> Int]
      /\ \A u \in Trackers : claim[u] >= Pieces - done
  BY DEF Truth, AmountsOK, ClaimsBacked
<1>3. CASE ~known
  BY <1>1, <1>2, <1>3 DEF ClaimsBacked
<1>4. CASE known
  <2>1. claim[t] \in Int /\ Lesser(claim[t], amount) \in Int
        /\ Lesser(claim[t], amount) \in {claim[t], amount}
    BY <1>2 DEF Lesser
  <2>2. claim' = [claim EXCEPT ![t] = Lesser(claim[t], amount)]
    BY <1>1, <1>4
  <2>3. Lesser(claim[t], amount) >= Pieces - done
    BY <2>1, <1>2, <1>4
  <2> QED
    BY <2>1, <2>2, <2>3, <1>2 DEF ClaimsBacked
<1> QED
  BY <1>3, <1>4

LEMMA UncountedFinite == IsFiniteSet(Uncounted) /\ Cardinality(Uncounted) \in Nat
<1>1. Uncounted \subseteq Workers
  BY DEF Uncounted
<1> QED
  BY <1>1, ConstantsAre, FS_Subset, FS_CardinalityType

\* What does not touch the counts leaves CountsOK and CountBehind as they are.
LEMMA CountsStay ==
    ASSUME Truth, UNCHANGED <<done, counted, hook, engine>>
    PROVE  CountsOK' /\ CountBehind'
BY DEF Truth, CountsOK, CountBehind, Uncounted

LEMMA TruthMark == ASSUME Truth, NEW w \in Workers, Mark(w) PROVE Truth'
<1>1. CountsOK' /\ AmountsOK' /\ AmountsBacked' /\ KnownSince' /\ ClaimsBacked'
  BY ConstantsAre DEF Mark, Truth, CountsOK, AmountsOK, AmountsBacked, KnownSince,
     ClaimsBacked, ticker, history, gather, input
<1>2. CountBehind'
  <2>1. Uncounted' = Uncounted \cup {w} /\ w \notin Uncounted
    BY ConstantsAre DEF Mark, Truth, CountsOK, Uncounted
  <2>2. Cardinality(Uncounted') = Cardinality(Uncounted) + 1
    BY <2>1, UncountedFinite, FS_AddElement
  <2>3. done' = done + 1 /\ counted' = counted /\ engine = "running" /\ engine' = engine
    BY DEF Mark
  <2>4. \A v \in Workers : hook'[v] \in Nat => hook'[v] <= counted'
    BY ConstantsAre DEF Mark, Truth, CountsOK, CountBehind
  <2> QED
    BY <2>2, <2>3, <2>4, UncountedFinite, ConstantsAre DEF Truth, CountsOK, CountBehind
<1> QED
  BY <1>1, <1>2 DEF Truth

LEMMA TruthCount == ASSUME Truth, NEW w \in Workers, Count(w) PROVE Truth'
<1>1. CountsOK' /\ AmountsOK' /\ AmountsBacked' /\ KnownSince' /\ ClaimsBacked'
  BY ConstantsAre DEF Count, Truth, CountsOK, AmountsOK, AmountsBacked, KnownSince,
     ClaimsBacked, ticker, history, gather, input
<1>2. CountBehind'
  <2>1. Uncounted' = Uncounted \ {w} /\ w \in Uncounted
    BY ConstantsAre DEF Count, Truth, CountsOK, Uncounted
  <2>2. Cardinality(Uncounted') = Cardinality(Uncounted) - 1
    BY <2>1, UncountedFinite, FS_RemoveElement
  <2>3. done' = done /\ counted' = counted + 1 /\ engine' = engine /\ hook[w] # Idle
    BY ConstantsAre DEF Count
  <2>4. \A v \in Workers : hook'[v] \in Nat => hook'[v] <= counted'
    BY ConstantsAre DEF Count, Truth, CountsOK, CountBehind
  <2>5. engine # "idle"
    BY <2>3 DEF Truth, CountBehind
  <2> QED
    BY <2>2, <2>3, <2>4, <2>5, UncountedFinite, ConstantsAre DEF Truth, CountsOK, CountBehind
<1> QED
  BY <1>1, <1>2 DEF Truth

\* A report is at most the count, and so what it leaves at least what is left.
LEMMA TruthHook == ASSUME Truth, NEW w \in Workers, ProgressHook(w) PROVE Truth'
<1>1. hook[w] \in Nat /\ hook[w] <= counted /\ counted \in 0..done /\ done \in 0..Pieces
  BY UncountedFinite DEF ProgressHook, Truth, CountsOK, CountBehind
<1>2. left' \in Nat /\ left' >= Pieces - done
  <2>1. left' = IF hook[w] > Pieces THEN 0 ELSE Pieces - hook[w]
    BY DEF ProgressHook
  <2> QED
    BY <2>1, <1>1, ConstantsAre
<1>3. AmountsOK' /\ AmountsBacked' /\ KnownSince' /\ ClaimsBacked'
  BY <1>2, ConstantsAre DEF ProgressHook, Truth, AmountsOK, AmountsBacked, KnownSince,
     ClaimsBacked, ticker, history, gather, input
<1>4. Uncounted' = Uncounted
  BY <1>1, ConstantsAre DEF ProgressHook, Truth, CountsOK, Uncounted
<1>5. CountsOK' /\ CountBehind'
  BY <1>4, ConstantsAre DEF ProgressHook, Truth, CountsOK, CountBehind
<1> QED
  BY <1>3, <1>5 DEF Truth

LEMMA TruthEngineStart == ASSUME Truth, EngineStart PROVE Truth'
<1>1. \A w \in Workers : hook[w] = Idle
  BY DEF EngineStart, Truth, CountBehind
<1>2. Uncounted = {} /\ Uncounted' = {}
  BY <1>1, ConstantsAre DEF EngineStart, Uncounted
<1>3. Cardinality(Uncounted') = 0
  BY <1>2, FS_EmptySet
<1>4. CountsOK' /\ CountBehind'
  <2>1. /\ done' = done /\ hook' = hook /\ done \in 0..Pieces
        /\ hook \in [Workers -> Nat \cup {Idle, Marked}]
    BY DEF EngineStart, Truth, CountsOK
  <2>2. counted' \in 0..done /\ engine' # "idle" /\ (engine' = "ok" => done = Pieces)
    <3>1. counted \in 0..done
      BY <1>2, <2>1, UncountedFinite DEF Truth, CountsOK, CountBehind
    <3> QED
      BY <3>1, <2>1 DEF EngineStart
  <2>3. CountsOK'
    BY <2>1, <2>2 DEF CountsOK
  <2>4. \A w \in Workers : hook'[w] \notin Nat
    BY <1>1, <2>1, ConstantsAre
  <2>5. counted' + Cardinality(Uncounted') <= done'
    <3>1. done' \in Nat /\ counted' \in Nat /\ counted' <= done'
      BY <2>1, <2>2, ConstantsAre
    <3>2. \A a, b \in Nat : a <= b => a + 0 <= b
      OBVIOUS
    <3> QED
      BY <3>1, <3>2, <1>3
  <2> QED
    BY <2>1, <2>2, <2>3, <2>4, <2>5 DEF CountBehind
<1>5. AmountsOK' /\ AmountsBacked' /\ KnownSince' /\ ClaimsBacked'
  BY ConstantsAre DEF EngineStart, Truth, CountsOK, AmountsOK, AmountsBacked, KnownSince,
     ClaimsBacked, ticker, history, gather, input
<1> QED
  BY <1>4, <1>5 DEF Truth

LEMMA TruthEngineReturn == ASSUME Truth, EngineReturn PROVE Truth'
<1>1. CountsOK' /\ CountBehind'
  BY DEF EngineReturn, count, Truth, CountsOK, CountBehind, Uncounted
<1>2. AmountsOK' /\ AmountsBacked' /\ KnownSince' /\ ClaimsBacked'
  BY DEF EngineReturn, count, Truth, AmountsOK, AmountsBacked, KnownSince, ClaimsBacked,
     ticker, history, gather, input
<1> QED
  BY <1>1, <1>2 DEF Truth

\* The steps that tell a tracker something.
LEMMA TruthTell ==
    ASSUME Truth, NEW t \in Trackers, Gather(t) \/ Discover(t) \/ Announce(t) \/ AnnounceEvent(t)
    PROVE  Truth'
<1>1. CountsOK' /\ CountBehind'
  BY CountsStay DEF Gather, Discover, Announce, AnnounceEvent, count
<1>2. claim' \in [Trackers -> Int] /\ ClaimsBacked'
  <2>1. CASE Gather(t)
    <3> DEFINE amount == IF known THEN Pieces ELSE 0
    <3>1. Tell(t, "started", amount) /\ UNCHANGED done
      BY <2>1 DEF Gather, count
    <3>2. amount \in Nat /\ (known => amount >= Pieces - done)
      BY ConstantsAre DEF Truth, CountsOK
    <3> HIDE DEF amount
    <3> QED
      BY <3>1, <3>2, TellBacked
  <2>2. CASE Discover(t)
    <3>1. Tell(t, "", Pieces) /\ UNCHANGED done
      BY <2>2 DEF Discover, count
    <3>2. Pieces \in Nat /\ Pieces >= Pieces - done
      BY ConstantsAre DEF Truth, CountsOK
    <3> QED
      BY <3>1, <3>2, TellBacked
  <2>3. CASE Announce(t)
    <3>1. Tell(t, "", announced) /\ UNCHANGED done /\ announcing # {}
      BY <2>3 DEF Announce, count
    <3> QED
      BY <3>1, TellBacked DEF Truth, AmountsOK, AmountsBacked
  <2>4. CASE AnnounceEvent(t)
    <3>1. Tell(t, pc, farewell) /\ UNCHANGED done /\ pc \in {"completed", "stopped"} /\ todo # {}
      BY <2>4 DEF AnnounceEvent, count
    <3> QED
      BY <3>1, TellBacked DEF Truth, AmountsOK, AmountsBacked
  <2> QED
    BY <2>1, <2>2, <2>3, <2>4
<1>3. /\ UNCHANGED <<known, kind, left, announced, farewell, ticking, pc>>
      /\ announcing' \subseteq announcing /\ done' = done
      /\ todo' = todo \/ todo # {} \/ pc = "gather"
  BY DEF Gather, Discover, Announce, AnnounceEvent, ticker, count, gather, input
<1>4. AmountsOK' /\ AmountsBacked' /\ KnownSince'
  BY <1>2, <1>3 DEF Truth, AmountsOK, AmountsBacked, KnownSince
<1> QED
  BY <1>1, <1>2, <1>4 DEF Truth

\* The steps of main that tell trackers nothing.
LEMMA TruthMain ==
    ASSUME Truth, \/ MapPort \/ OpenFile \/ OpenMagnet \/ GiveUp \/ EndRound \/ FindMore \/ FetchMetadata
                  \/ Start \/ Verdict \/ RunDeferred
    PROVE  Truth'
<1>1. UNCHANGED <<done, counted, hook, engine, claim, announcing, announced>>
  BY DEF MapPort, OpenFile, OpenMagnet, GiveUp, EndRound, FindMore, FetchMetadata, Start, Verdict, RunDeferred,
     count, history, ticker, AskDHT
<1>2. CountsOK' /\ CountBehind'
  BY <1>1, CountsStay
<1>3. ClaimsBacked'
  BY <1>1 DEF Truth, ClaimsBacked
<1>4. CASE MapPort \/ GiveUp \/ EndRound \/ FindMore
  <2>1. /\ UNCHANGED <<known, kind, left, farewell, ticking>>
        /\ \/ pc' \in {"input", "metadata", "exited"}
           \/ pc = "gather" /\ pc' \in {"gather", "dht"}
           \/ pc = "dht" /\ kind # "magnet" /\ pc' = "ready"
    BY <1>4 DEF MapPort, GiveUp, EndRound, FindMore, Exit, ticker, input
  <2> QED
    BY <2>1, <1>1, <1>2, <1>3 DEF Truth, AmountsOK, AmountsBacked, KnownSince
<1>5. CASE OpenFile \/ OpenMagnet \/ FetchMetadata
  BY <1>5, <1>1, <1>2, <1>3, ConstantsAre DEF OpenFile, OpenMagnet, FetchMetadata, Truth, CountsOK,
     AmountsOK, AmountsBacked, KnownSince, ticker, gather, count, input
<1>6. CASE Start
  BY <1>6, <1>1, <1>2, <1>3 DEF Start, Truth, AmountsOK, AmountsBacked, KnownSince, gather, count, input
<1>7. CASE Verdict
  BY <1>7, <1>1, <1>2, <1>3, ConstantsAre DEF Verdict, Exit, Truth, CountsOK, CountBehind,
     AmountsOK, AmountsBacked, KnownSince, ticker, count, input
<1>8. CASE RunDeferred
  <2>1. known /\ known' = known /\ left' = left /\ ticking' = ticking /\ pc' \in {"stopped", "exited"}
    BY <1>8 DEF RunDeferred, Exit, ticker, Truth, KnownSince
  <2>2. (todo' = {} /\ farewell' = farewell) \/ farewell' = left
    BY <1>8 DEF RunDeferred, Exit
  <2> QED
    BY <2>1, <2>2, <1>1, <1>2, <1>3 DEF Truth, AmountsOK, AmountsBacked, KnownSince
<1> QED
  BY <1>4, <1>5, <1>6, <1>7, <1>8

\* The steps of discoveryLoop that tell trackers nothing, and the ticker.
LEMMA TruthLoops ==
    ASSUME Truth, \/ DiscoverDHT \/ DiscoverAgain \/ Tick \/ UNCHANGED vars
                  \/ \E t \in Trackers : Look(t)
    PROVE  Truth'
<1>1. CountsOK' /\ CountBehind'
  BY CountsStay DEF DiscoverDHT, DiscoverAgain, Tick, Look, vars, count
<1>2. CASE DiscoverDHT \/ DiscoverAgain \/ UNCHANGED vars \/ \E t \in Trackers : Look(t)
  BY <1>2, <1>1 DEF DiscoverDHT, DiscoverAgain, Look, AskDHT, vars, Truth, AmountsOK,
     AmountsBacked, KnownSince, ClaimsBacked, ticker, history, gather, count, input
<1>3. CASE Tick
  BY <1>3, <1>1 DEF Tick, Truth, AmountsOK, AmountsBacked, KnownSince, ClaimsBacked, history,
     gather, count, input
<1> QED
  BY <1>2, <1>3

LEMMA TruthStep == Truth /\ [Next]_vars => Truth'
BY TruthMark, TruthCount, TruthHook, TruthEngineStart, TruthEngineReturn, TruthTell, TruthMain,
   TruthLoops DEF Next

\* downloader.go:629-636, main.go:272-340: however reports of progress overtake each
\* other, and whenever they are loaded, nobody claims less to be left than there is.
THEOREM NothingOverclaimed == Spec => []ClaimsBacked
<1>1. Truth => ClaimsBacked
  BY DEF Truth
<1> QED
  BY <1>1, TruthInit, TruthStep, PTL DEF Spec

-----------------------------------------------------------------------------
(* Who is told *)

\* Who may be told of the torrent.
Allowed == Own \cup (IF private /\ kind = "file" THEN {} ELSE Public)

ListsAllowed ==
    /\ list \subseteq Allowed /\ todo \subseteq Allowed /\ announcing \subseteq Allowed
    /\ finds \subseteq Allowed /\ finding \subseteq Allowed
    /\ finder \in Trackers => finder \in Allowed

\* main does not know the info dictionary before it has gathered peers for it.
MagnetUnknown ==
    kind = "magnet" /\ pc \in {"start", "input", "gather", "dht", "metadata"} => ~known

Discreet == ListsAllowed /\ MagnetUnknown /\ (private => told \subseteq Allowed)

LEMMA DiscreetInit == Init => Discreet
BY ListsAssumption DEF Init, Discreet, ListsAllowed, MagnetUnknown

\* Telling somebody who may be told.
LEMMA TellAllowed ==
    ASSUME Discreet, NEW t \in Allowed, NEW event, NEW amount, Tell(t, event, amount),
           UNCHANGED input
    PROVE  (private => told \subseteq Allowed)'
BY DEF Discreet, Tell, Allowed, input

LEMMA DiscreetStep == Discreet /\ [Next]_vars => Discreet'
<1> SUFFICES ASSUME Discreet, [Next]_vars PROVE Discreet'
  OBVIOUS
<1>1. CASE MapPort \/ GiveUp \/ EndRound \/ FetchMetadata \/ Start
  <2>1. /\ UNCHANGED <<input, told, list, announcing, finds, finding, finder>>
        /\ todo' \in {todo, list, {}}
    BY <1>1 DEF MapPort, GiveUp, EndRound, FetchMetadata, Start, gather, history, loop, ticker
  <2>2. MagnetUnknown'
    BY <1>1 DEF MapPort, GiveUp, EndRound, FetchMetadata, Start, Exit, Discreet, MagnetUnknown, input
  <2> QED
    BY <2>1, <2>2 DEF Discreet, ListsAllowed, Allowed, input
<1>2. CASE OpenFile \/ OpenMagnet
  <2>1. /\ UNCHANGED <<input, told, announcing, finds, finding, finder>>
        /\ todo' = list' /\ list' \subseteq Allowed
    BY <1>2 DEF OpenFile, OpenMagnet, FileList, MagnetLists, Trackers, Allowed, history, loop, ticker
  <2>2. MagnetUnknown'
    BY <1>2 DEF OpenFile, OpenMagnet, Discreet, MagnetUnknown, input
  <2> QED
    BY <2>1, <2>2 DEF Discreet, ListsAllowed, Allowed, input
<1>3. CASE FindMore
  <2>1. UNCHANGED <<input, known, list, todo, announcing, finds, finding, finder>>
    BY <1>3 DEF FindMore, loop, ticker
  <2>2. private => told' = told
    <3>1. pc = "dht" /\ (UNCHANGED history \/ (AskDHT /\ (kind = "magnet" \/ ~private)))
      BY <1>3 DEF FindMore
    <3> QED
      BY <3>1 DEF AskDHT, history, Discreet, MagnetUnknown
  <2>3. MagnetUnknown'
    BY <1>3, <2>1 DEF FindMore, Discreet, MagnetUnknown, input
  <2> QED
    BY <2>1, <2>2, <2>3 DEF Discreet, ListsAllowed, Allowed, input
<1>4. CASE EngineStart
  <2>1. /\ UNCHANGED <<input, told, known, pc, list, todo, announcing>>
        /\ \/ UNCHANGED loop
           \/ /\ finds' = IF kind = "file" THEN FileList ELSE IF private THEN {} ELSE Public
              /\ finder' = "look" /\ finding' = finds'
    BY <1>4 DEF EngineStart, gather, history, ticker
  <2> QED
    BY <2>1, ListsAssumption
       DEF Discreet, ListsAllowed, MagnetUnknown, Allowed, FileList, input, loop
<1>5. CASE EngineReturn \/ \E w \in Workers : Mark(w) \/ Count(w) \/ ProgressHook(w)
  BY <1>5 DEF EngineReturn, Mark, Count, ProgressHook, gather, history, ticker, loop, input,
     Discreet, ListsAllowed, MagnetUnknown, Allowed
<1>6. CASE Verdict \/ RunDeferred
  <2>1. /\ UNCHANGED <<input, told, known, list, announcing, finds, finding, finder>>
        /\ todo' \in {todo, list}
        /\ pc' \in {"completed", "stopped", "exited"}
    BY <1>6 DEF Verdict, RunDeferred, Exit, history, loop, ticker
  <2> QED
    BY <2>1 DEF Discreet, ListsAllowed, MagnetUnknown, Allowed, input
<1>7. CASE DiscoverDHT
  BY <1>7, ListsAssumption DEF DiscoverDHT, gather, history, ticker, input, Discreet,
     ListsAllowed, MagnetUnknown, Allowed
<1>8. CASE DiscoverAgain \/ Tick
  BY <1>8, ListsAssumption DEF DiscoverAgain, Tick, gather, history, ticker, loop, input,
     Discreet, ListsAllowed, MagnetUnknown, Allowed
<1>9. ASSUME NEW t \in Trackers, Look(t) PROVE Discreet'
  BY <1>9 DEF Look, gather, history, ticker, input, Discreet, ListsAllowed, MagnetUnknown, Allowed
<1>10. ASSUME NEW t \in Trackers, Gather(t) \/ Discover(t) \/ Announce(t) \/ AnnounceEvent(t)
       PROVE  Discreet'
  <2>1. t \in Allowed /\ UNCHANGED <<input, known, pc, list, finds>>
        /\ todo' \subseteq todo /\ announcing' \subseteq announcing /\ finding' = finding
        /\ finder' \in {finder, "look"}
    BY <1>10 DEF Gather, Discover, Announce, AnnounceEvent, Discreet, ListsAllowed, gather,
       loop, ticker
  <2>2. \E event, amount : Tell(t, event, amount)
    BY <1>10 DEF Gather, Discover, Announce, AnnounceEvent
  <2>3. (private => told \subseteq Allowed)'
    BY <2>1, <2>2, TellAllowed
  <2> QED
    BY <2>1, <2>3, ListsAssumption DEF Discreet, ListsAllowed, MagnetUnknown, Allowed, input
<1>11. CASE UNCHANGED vars
  BY <1>11 DEF vars, gather, history, ticker, loop, input, Discreet, ListsAllowed,
     MagnetUnknown, Allowed
<1> QED
  BY <1>1, <1>2, <1>3, <1>4, <1>5, <1>6, <1>7, <1>8, <1>9, <1>10, <1>11 DEF Next

\* main.go:257-263, 410-416, downloader.go:1621-1649, 1930: once the info dictionary
\* is known to say private, whoever announces, only those are told who may be.
THEOREM PrivateStaysPrivate == Spec => []PrivateUnseen
<1>1. ASSUME Discreet, kind \in {"file", "magnet"} PROVE PrivateUnseen
  BY <1>1 DEF Discreet, Allowed, PrivateUnseen
<1>2. Init => kind \in {"file", "magnet"}
  BY DEF Init
<1>3. kind \in {"file", "magnet"} /\ [Next]_vars => (kind \in {"file", "magnet"})'
  BY DEF Next, vars, input, MapPort, OpenFile, OpenMagnet, GiveUp, EndRound, FindMore,
     FetchMetadata, Start, EngineStart, EngineReturn, Verdict, RunDeferred, DiscoverDHT,
     DiscoverAgain, Tick, Mark, Count, ProgressHook, Gather, Look, Discover, Announce,
     AnnounceEvent
<1> QED
  BY <1>1, <1>2, <1>3, DiscreetInit, DiscreetStep, PTL DEF Spec

-----------------------------------------------------------------------------
(* Goodbye *)

\* main has had a download that succeeded.
Ended == pc \in {"completed", "stopped"} \/ (pc = "exited" /\ status = 0)

Calls == {"cancel", "unmap", "close", "stopped"}
Due(calls, call) == \E i \in DOMAIN calls : calls[i] = call

\* What main still has to do when it returns: "stopped" comes first.
DeferredOK ==
    /\ deferred \in Seq(Calls)
    /\ pc \notin {"start", "stopped", "exited"} => Due(deferred, "unmap")
    /\ pc \notin {"download", "completed", "exited"} => ~Due(deferred, "stopped")
    /\ pc \in {"download", "completed"} =>
          /\ deferred # <<>> /\ deferred[Len(deferred)] = "stopped"
          /\ \A i \in 1..(Len(deferred) - 1) : deferred[i] # "stopped"
    /\ pc = "stopped" /\ ~Due(deferred, "unmap") => ~(mapper = "upnp" /\ mapping = "upnp")
    /\ pc = "exited" /\ status = 0 => ~(mapper = "upnp" /\ mapping = "upnp")
    /\ pc # "exited" => status # 0

SaidOK ==
    /\ list \subseteq Trackers
    /\ said \in [Trackers -> Seq({"completed", "stopped"})]
    /\ Ended => engine = "ok"
    /\ ~Ended => \A t \in Trackers : said[t] = <<>>
    /\ pc = "completed" =>
          \A t \in list : said[t] = IF t \in todo THEN <<>> ELSE <<"completed">>
    /\ pc = "stopped" =>
          \A t \in list : said[t] = IF t \in todo THEN <<"completed">> ELSE <<"completed", "stopped">>
    /\ pc = "exited" /\ status = 0 => \A t \in list : said[t] = <<"completed", "stopped">>

LEMMA GoodbyeInit == Init => DeferredOK /\ SaidOK
<1> SUFFICES ASSUME Init PROVE DeferredOK /\ SaidOK
  OBVIOUS
<1>1. deferred = <<"cancel">> /\ Len(deferred) = 1 /\ deferred[1] = "cancel" /\ DOMAIN deferred = {1}
  BY DEF Init
<1> QED
  BY <1>1 DEF Init, DeferredOK, SaidOK, Ended, Due, Calls

\* A call more, or one less.
LEMMA DueMore == ASSUME NEW calls \in Seq(Calls), NEW call \in Calls, NEW more, more = Append(calls, call)
                 PROVE  /\ more \in Seq(Calls) /\ more # <<>>
                        /\ more[Len(more)] = call
                        /\ \A c : Due(more, c) <=> (Due(calls, c) \/ c = call)
                        /\ (~Due(calls, "stopped")) => \A i \in 1..(Len(more) - 1) : more[i] # "stopped"
<1>1. Len(calls) \in Nat /\ DOMAIN calls = 1..Len(calls)
  OBVIOUS
<1>2. /\ more \in Seq(Calls) /\ Len(more) = Len(calls) + 1
      /\ DOMAIN more = 1..(Len(calls) + 1)
  OBVIOUS
<1>3. /\ more[Len(calls) + 1] = call
      /\ \A i \in 1..Len(calls) : more[i] = calls[i]
  OBVIOUS
<1>4. more # <<>>
  BY <1>1, <1>2
<1>5. \A c : Due(more, c) <=> (Due(calls, c) \/ c = call)
  BY <1>1, <1>2, <1>3 DEF Due
<1>6. (~Due(calls, "stopped")) => \A i \in 1..(Len(more) - 1) : more[i] # "stopped"
  BY <1>1, <1>2, <1>3 DEF Due
<1> QED
  BY <1>2, <1>3, <1>4, <1>5, <1>6

LEMMA DueLess == ASSUME NEW calls \in Seq(Calls), calls # <<>>,
                        NEW less, less = SubSeq(calls, 1, Len(calls) - 1)
                 PROVE  /\ less \in Seq(Calls)
                        /\ \A c : Due(less, c) => Due(calls, c)
                        /\ \A c : Due(calls, c) /\ ~Due(less, c) => c = calls[Len(calls)]
                        /\ (\A i \in 1..(Len(calls) - 1) : calls[i] # "stopped") => ~Due(less, "stopped")
<1>1. Len(calls) \in Nat \ {0} /\ DOMAIN calls = 1..Len(calls)
  OBVIOUS
<1>2. /\ less \in Seq(Calls) /\ Len(less) = Len(calls) - 1
      /\ DOMAIN less = 1..(Len(calls) - 1)
  BY <1>1
<1>3. \A i \in 1..(Len(calls) - 1) : less[i] = calls[i]
  BY <1>1
<1>4. \A c : Due(less, c) => Due(calls, c)
  BY <1>1, <1>2, <1>3 DEF Due
<1>5. \A c : Due(calls, c) /\ ~Due(less, c) => c = calls[Len(calls)]
  <2> DEFINE n == Len(calls)
  <2>1. \A i \in 1..n : i = n \/ i \in 1..(n - 1)
    <3>1. n \in Nat
      BY <1>1
    <3> HIDE DEF n
    <3> QED
      BY <3>1
  <2> QED
    BY <1>1, <1>2, <1>3, <2>1 DEF Due
<1>6. (\A i \in 1..(Len(calls) - 1) : calls[i] # "stopped") => ~Due(less, "stopped")
  BY <1>2, <1>3 DEF Due
<1> QED
  BY <1>2, <1>4, <1>5, <1>6

\* Steps of the others leave main and what was said alone.
LEMMA GoodbyeOthers ==
    ASSUME DeferredOK, SaidOK,
           \/ EngineStart \/ EngineReturn \/ DiscoverDHT \/ DiscoverAgain \/ Tick \/ UNCHANGED vars
           \/ \E w \in Workers : Mark(w) \/ Count(w) \/ ProgressHook(w)
           \/ \E t \in Trackers : Look(t) \/ Discover(t) \/ Announce(t)
    PROVE  DeferredOK' /\ SaidOK'
<1>1. UNCHANGED <<pc, status, deferred, mapper, mapping, list, todo, said>>
  BY DEF EngineStart, EngineReturn, DiscoverDHT, DiscoverAgain, Tick, Mark, Count, ProgressHook,
     Look, Discover, Announce, Tell, AskDHT, vars, router, gather, history
<1>2. engine' = engine \/ (pc = "download" /\ engine = "idle") \/ engine = "running"
  BY DEF EngineStart, EngineReturn, DiscoverDHT, DiscoverAgain, Tick, Mark, Count, ProgressHook,
     Look, Discover, Announce, vars
<1>3. DeferredOK'
  BY <1>1 DEF DeferredOK, Due
<1>4. SaidOK'
  BY <1>1, <1>2 DEF SaidOK, Ended
<1> QED
  BY <1>3, <1>4

LEMMA AppendIs == /\ Append(<<>>, "completed") = <<"completed">>
                  /\ Append(<<"completed">>, "stopped") = <<"completed", "stopped">>
<1>1. Append(<<>>, "completed") = <<"completed">>
  OBVIOUS
<1>2. Append(<<"completed">>, "stopped") = <<"completed", "stopped">>
  <2> DEFINE s == Append(<<"completed">>, "stopped")
  <2>1. <<"completed">> \in Seq({"completed", "stopped"})
    OBVIOUS
  <2>2. s \in Seq({"completed", "stopped"}) /\ Len(s) = 2
    BY <2>1
  <2>3. s[1] = "completed" /\ s[2] = "stopped"
    OBVIOUS
  <2> HIDE DEF s
  <2>4. s = <<"completed", "stopped">>
    BY <2>2, <2>3
  <2> QED
    BY <2>4 DEF s
<1> QED
  BY <1>1, <1>2

LEMMA GoodbyeTell ==
    ASSUME DeferredOK, SaidOK, NEW t \in Trackers, Gather(t) \/ AnnounceEvent(t)
    PROVE  DeferredOK' /\ SaidOK'
<1>1. UNCHANGED <<pc, status, deferred, mapper, mapping, list, engine>>
  BY DEF Gather, AnnounceEvent, router
<1>2. DeferredOK'
  BY <1>1 DEF DeferredOK, Due
<1>3. CASE Gather(t)
  <2>1. said' = said /\ pc = "gather"
    BY <1>3 DEF Gather, Tell
  <2> QED
    BY <1>1, <1>2, <2>1 DEF SaidOK, Ended
<1>4. CASE AnnounceEvent(t)
  <2>1. /\ pc \in {"completed", "stopped"} /\ t \in todo /\ todo' = todo \ {t}
        /\ said' = [said EXCEPT ![t] = Append(@, pc)]
    BY <1>4 DEF AnnounceEvent, Tell
  <2>2. \A u \in Trackers : said'[u] = IF u = t THEN Append(said[t], pc) ELSE said[u]
    BY <2>1 DEF SaidOK
  <2>3. /\ Append(<<>>, "completed") = <<"completed">>
        /\ Append(<<"completed">>, "stopped") = <<"completed", "stopped">>
    BY AppendIs
  <2>4. said' \in [Trackers -> Seq({"completed", "stopped"})]
    <3>1. Append(said[t], pc) \in Seq({"completed", "stopped"})
      BY <2>1 DEF SaidOK
    <3> QED
      BY <2>1, <3>1 DEF SaidOK
  <2>5. Ended /\ Ended' /\ list \subseteq Trackers
    BY <1>1, <2>1 DEF Ended, SaidOK
  <2>6. CASE pc = "completed"
    <3>1. \A u \in list : said'[u] = IF u \in todo' THEN <<>> ELSE <<"completed">>
      BY <2>1, <2>2, <2>3, <2>5, <2>6 DEF SaidOK
    <3> QED
      BY <3>1, <1>1, <1>2, <2>4, <2>5, <2>6 DEF SaidOK
  <2>7. CASE pc = "stopped"
    <3>1. \A u \in list : said'[u] = IF u \in todo' THEN <<"completed">> ELSE <<"completed", "stopped">>
      BY <2>1, <2>2, <2>3, <2>5, <2>7 DEF SaidOK
    <3> QED
      BY <3>1, <1>1, <1>2, <2>4, <2>5, <2>7 DEF SaidOK
  <2> QED
    BY <2>1, <2>6, <2>7
<1> QED
  BY <1>2, <1>3, <1>4

\* main up to the end of the download says no goodbye.
LEMMA GoodbyeMain ==
    ASSUME DeferredOK, SaidOK,
           \/ MapPort \/ OpenFile \/ OpenMagnet \/ GiveUp \/ EndRound \/ FindMore \/ FetchMetadata
           \/ Start \/ Verdict
    PROVE  DeferredOK' /\ SaidOK'
<1>1. said' = said /\ engine' = engine /\ ~Ended
  BY DEF MapPort, OpenFile, OpenMagnet, GiveUp, EndRound, FindMore, FetchMetadata, Start, Verdict,
     Ended, AskDHT, history
<1>2. SaidOK'
  <2>1. list' \subseteq Trackers
    BY DEF MapPort, OpenFile, OpenMagnet, GiveUp, EndRound, FindMore, FetchMetadata, Start, Verdict,
       gather, SaidOK, FileList, MagnetLists, Trackers
  <2>2. CASE pc' = "completed"
    <3>1. engine = "ok" /\ todo' = list /\ list' = list
      BY <2>2 DEF DeferredOK, MapPort, OpenFile, OpenMagnet, GiveUp, EndRound, FindMore, FetchMetadata,
         Start, Verdict, Exit
    <3> QED
      BY <1>1, <2>1, <2>2, <3>1 DEF SaidOK, Ended
  <2>3. CASE pc' # "completed"
    <3>1. ~Ended'
      BY <2>3 DEF DeferredOK, Ended, MapPort, OpenFile, OpenMagnet, GiveUp, EndRound, FindMore,
         FetchMetadata, Start, Verdict, Exit
    <3> QED
      BY <1>1, <2>1, <2>3, <3>1 DEF SaidOK, Ended
  <2> QED
    BY <2>2, <2>3
<1>3. CASE MapPort \/ Start
  <2>1. /\ pc \in {"start", "ready"} /\ pc' \in {"input", "download"} /\ status' = status
        /\ pc = "start" => deferred' = Append(deferred, "unmap") /\ pc' = "input"
        /\ pc = "ready" => deferred' = Append(deferred, "stopped") /\ pc' = "download"
    BY <1>3 DEF MapPort, Start
  <2>2. deferred \in Seq(Calls) /\ ~Due(deferred, "stopped") /\ (pc = "ready" => Due(deferred, "unmap")) /\ status # 0
    BY <2>1 DEF DeferredOK
  <2>3. CASE pc = "start"
    BY <2>1, <2>2, <2>3, DueMore, <1>2 DEF DeferredOK, Calls
  <2>4. CASE pc = "ready"
    BY <2>1, <2>2, <2>4, DueMore, <1>2 DEF DeferredOK, Calls
  <2> QED
    BY <2>1, <2>3, <2>4
<1>4. CASE OpenFile \/ FetchMetadata
  <2>1. /\ pc \in {"input", "metadata"} /\ pc' \in {"gather", "ready"} /\ status' = status
        /\ deferred' = deferred \/ deferred' = Append(deferred, "close")
    BY <1>4 DEF OpenFile, FetchMetadata, OpenStore
  <2>2. deferred \in Seq(Calls) /\ ~Due(deferred, "stopped") /\ Due(deferred, "unmap") /\ status # 0
    BY <2>1 DEF DeferredOK
  <2>3. CASE deferred' = deferred
    BY <1>2, <2>1, <2>2, <2>3 DEF DeferredOK
  <2>4. CASE deferred' = Append(deferred, "close")
    BY <2>1, <2>2, <2>4, DueMore, <1>2 DEF DeferredOK, Calls
  <2> QED
    BY <2>1, <2>3, <2>4
<1>5. CASE OpenMagnet \/ GiveUp \/ EndRound \/ FindMore \/ Verdict
  BY <1>2, <1>5 DEF OpenMagnet, GiveUp, EndRound, FindMore, Verdict, Exit, DeferredOK, Due
<1> QED
  BY <1>2, <1>3, <1>4, <1>5

LEMMA GoodbyeDeferred == ASSUME DeferredOK, SaidOK, RunDeferred PROVE DeferredOK' /\ SaidOK'
<1>1. /\ pc \in {"completed", "stopped"} /\ todo = {}
      /\ said' = said /\ engine' = engine /\ list' = list /\ mapper' = mapper
  BY DEF RunDeferred, history
<1>2. CASE deferred = <<>>
  <2>1. pc' = "exited" /\ status' = 0 /\ deferred' = deferred /\ mapping' = mapping /\ todo' = todo
    BY <1>2 DEF RunDeferred, Exit
  <2>2. pc = "stopped" /\ ~Due(deferred, "unmap")
    BY <1>1, <1>2 DEF DeferredOK, Due
  <2>3. DeferredOK'
    BY <1>1, <2>1, <2>2 DEF DeferredOK, Due
  <2>4. SaidOK'
    BY <1>1, <2>1, <2>2 DEF SaidOK, Ended
  <2> QED
    BY <2>3, <2>4
<1>3. CASE deferred # <<>>
  <2> DEFINE call == deferred[Len(deferred)]
  <2>1. /\ deferred' = SubSeq(deferred, 1, Len(deferred) - 1)
        /\ pc' = "stopped" /\ status' = status
        /\ call = "stopped" => todo' = list
        /\ call # "stopped" => todo' = todo
        /\ mapping' = IF call = "unmap" /\ mapper = "upnp" THEN "none" ELSE mapping
    BY <1>3 DEF RunDeferred
  <2>2. /\ deferred' \in Seq(Calls)
        /\ \A c : Due(deferred', c) => Due(deferred, c)
        /\ \A c : Due(deferred, c) /\ ~Due(deferred', c) => c = call
        /\ (\A i \in 1..(Len(deferred) - 1) : deferred[i] # "stopped") => ~Due(deferred', "stopped")
    BY <1>3, <2>1, DueLess DEF DeferredOK
  <2>3. Due(deferred, call)
    <3>1. Len(deferred) \in DOMAIN deferred
      BY <1>3 DEF DeferredOK
    <3> QED
      BY <3>1 DEF Due
  <2> HIDE DEF call
  <2>4. ~Due(deferred', "stopped")
    BY <1>1, <2>2 DEF DeferredOK
  <2>5. DeferredOK'
    <3>1. ~Due(deferred', "unmap") => ~(mapper' = "upnp" /\ mapping' = "upnp")
      BY <1>1, <2>1, <2>2 DEF DeferredOK
    <3> QED
      BY <1>1, <2>1, <2>2, <2>4, <3>1 DEF DeferredOK
  <2>6. SaidOK'
    <3>1. CASE pc = "completed"
      <4>1. call = "stopped"
        BY <1>3, <3>1 DEF DeferredOK, call
      <4> QED
        BY <1>1, <2>1, <3>1, <4>1 DEF SaidOK, Ended
    <3>2. CASE pc = "stopped"
      <4>1. call # "stopped"
        BY <2>3, <3>2 DEF DeferredOK
      <4> QED
        BY <1>1, <2>1, <3>2, <4>1 DEF SaidOK, Ended
    <3> QED
      BY <1>1, <3>1, <3>2
  <2> QED
    BY <2>5, <2>6
<1> QED
  BY <1>2, <1>3

LEMMA GoodbyeStep == DeferredOK /\ SaidOK /\ [Next]_vars => DeferredOK' /\ SaidOK'
BY GoodbyeOthers, GoodbyeTell, GoodbyeMain, GoodbyeDeferred DEF Next

\* main.go:138-340: for every list of trackers, however the deferred calls were pushed,
\* and whatever its announcer does meanwhile, a run that succeeds says "completed" and
\* then "stopped" to each tracker of its list and gives its mapping back; a run that
\* fails says neither.
THEOREM EveryoneIsTold == Spec => []Farewell
<1>1. DeferredOK /\ SaidOK => Farewell
  BY DEF DeferredOK, SaidOK, Ended, Farewell
<1> QED
  BY <1>1, GoodbyeInit, GoodbyeStep, PTL DEF Spec
=============================================================================
