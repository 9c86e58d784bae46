------------------------------- MODULE Upload -------------------------------
(***************************************************************************)
(* Serving inbound peers: one goroutine per connection accepted by         *)
(* StartInboundListener (src/internal/peer/listener.go), with the          *)
(* callbacks main gives it (src/cmd/torrent-client/main.go), composed with *)
(* the unchoker that a ticker runs at the same time.                       *)
(*                                                                         *)
(* The goroutine looks whether its peer holds a slot, tells the peer when  *)
(* that differs from what it said before, then waits for a message, at     *)
(* most ten seconds.  A round of the unchoker may come between any two of  *)
(* these steps.  peerChoked and wantUnchoked are local flags of each       *)
(* goroutine, here the sets of the peers for which they are true.          *)
(***************************************************************************)
EXTENDS Unchoke

VARIABLES
    hpc,            \* where the goroutine of p's connection is
    peerChoked,     \* the peers told last that they are choked
    want,           \* those with wantUnchoked, from the look to the message
    late            \* blocks sent to p since a round took its slot

handlers == <<hpc, peerChoked, want, late>>
vars     == <<unchoker, handlers>>

InitUpload ==
    /\ InitUnchoker
    /\ hpc = [p \in Peers |-> "none"]
    /\ peerChoked = Peers
    /\ want = {}
    /\ late = [p \in Peers |-> 0]

-----------------------------------------------------------------------------

\* OnPeerSeen is called before the handshake.
Accept(p) ==
    /\ hpc[p] = "none"
    /\ RegisterPeer(p)
    /\ hpc' = [hpc EXCEPT ![p] = "handshake"]
    /\ UNCHANGED <<peerChoked, want, late>>

\* The handshakes, the bitfield and a first Choke.
Handshake(p) ==
    /\ hpc[p] = "handshake"
    /\ hpc' = [hpc EXCEPT ![p] = "look"]
    /\ UNCHANGED <<unchoker, peerChoked, want, late>>

\* A send or a read fails, or no message comes in time: the connection closes,
\* and the address stays registered.
Close(p) ==
    /\ hpc[p] \in {"handshake", "tell", "read", "answer", "serve"}
    /\ hpc' = [hpc EXCEPT ![p] = "closed"]
    /\ want' = want \ {p}
    /\ UNCHANGED <<unchoker, peerChoked, late>>

\* ShouldUnchoke: at the head of the loop, and again for an Interested.
LookInterested(p) ==   \* slip: only an Interested makes it look at the slot
    /\ hpc[p] = "look" \/ hpc[p] = "interested"
    /\ want' = IF p \in (IF hpc[p] = "look" THEN Peers \ peerChoked ELSE unchoked)
               THEN want \cup {p} ELSE want \ {p}
    /\ hpc' = [hpc EXCEPT ![p] = IF @ = "look" THEN "tell" ELSE "answer"]
    /\ UNCHANGED <<unchoker, peerChoked, late>>
Look(p) ==
    /\ hpc[p] = "look" \/ hpc[p] = "interested"
    /\ want' = IF p \in unchoked THEN want \cup {p} ELSE want \ {p}
    /\ hpc' = [hpc EXCEPT ![p] = IF @ = "look" THEN "tell" ELSE "answer"]
    /\ UNCHANGED <<unchoker, peerChoked, late>>

\* Choke or Unchoke is sent if it is not what the peer was told before.
Tell(p) ==
    /\ hpc[p] = "tell" \/ hpc[p] = "answer"
    /\ peerChoked' = IF p \in want THEN peerChoked \ {p} ELSE peerChoked \cup {p}
    /\ want' = want \ {p}
    /\ hpc' = [hpc EXCEPT ![p] = IF @ = "tell" THEN "read" ELSE "look"]
    /\ UNCHANGED <<unchoker, late>>

\* A message that asks for nothing, or a Request while the peer is choked or
\* for a block it cannot have.
ReadIgnored(p) ==
    /\ hpc[p] = "read"
    /\ hpc' = [hpc EXCEPT ![p] = "look"]
    /\ UNCHANGED <<unchoker, peerChoked, want, late>>

ReadInterested(p) ==
    /\ hpc[p] = "read"
    /\ hpc' = [hpc EXCEPT ![p] = "interested"]
    /\ UNCHANGED <<unchoker, peerChoked, want, late>>

ReadRequest(p) ==
    /\ hpc[p] = "read"
    /\ p \notin peerChoked
    /\ hpc' = [hpc EXCEPT ![p] = "serve"]
    /\ UNCHANGED <<unchoker, peerChoked, want, late>>

\* The block is sent and OnUploaded records it.
ServeOn(p) ==   \* slip: requests are served without another look at the slot
    /\ hpc[p] = "serve"
    /\ RecordUpload(p)
    /\ late' = [late EXCEPT ![p] = IF p \in unchoked \/ @ = 2 THEN @ ELSE @ + 1]
    /\ hpc' = [hpc EXCEPT ![p] = "read"]
    /\ UNCHANGED <<peerChoked, want>>
Serve(p) ==
    /\ hpc[p] = "serve"
    /\ RecordUpload(p)
    /\ late' = [late EXCEPT ![p] = IF p \in unchoked \/ @ = 2 THEN @ ELSE @ + 1]
    /\ hpc' = [hpc EXCEPT ![p] = "look"]
    /\ UNCHANGED <<peerChoked, want>>

\* The ticker's round.
Round ==
    /\ DecideUnchokes
    /\ late' = [p \in Peers |-> IF p \in unchoked \ unchoked' THEN 0 ELSE late[p]]
    /\ UNCHANGED <<hpc, peerChoked, want>>

Handler(p) ==
    \/ Handshake(p) \/ Close(p) \/ Look(p) \/ Tell(p)
    \/ ReadIgnored(p) \/ ReadInterested(p) \/ ReadRequest(p) \/ Serve(p)

UploadNext ==
    \/ \E p \in Peers : Accept(p) \/ Handler(p)
    \/ Round

UploadSpec == InitUpload /\ [][UploadNext]_vars

\* The ticker ticks, and a goroutine goes on: its read ends within ten seconds.
FairUpload ==
    /\ UploadSpec
    /\ WF_vars(Round)
    /\ \A p \in Peers : WF_vars(Handler(p))

-----------------------------------------------------------------------------
(* Properties *)

TypeOK ==
    /\ UnchokerTypeOK
    /\ hpc \in [Peers -> {"none", "handshake", "look", "tell", "read",
                          "interested", "answer", "serve", "closed"}]
    /\ peerChoked \subseteq Peers
    /\ want \subseteq Peers
    /\ late \in [Peers -> 0..2]

\* A peer whose slot was taken, while the goroutine was looking, telling or
\* reading, is sent at most one more block before it is choked.
LateServeBounded == \A p \in Peers : late[p] <= 1

\* A peer with an open connection that keeps its slot is told so.
SlotTold ==
    \A p \in Peers :
        p \in unchoked /\ hpc[p] # "closed"
          ~> p \notin peerChoked \/ hpc[p] = "closed" \/ p \notin unchoked

=============================================================================
