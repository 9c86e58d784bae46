------------------------------- MODULE Backoff -------------------------------
(***************************************************************************)
(* How failures make a peer rest: the statistics of peerPool, from         *)
(* ReportFailureWith to Acquire (src/internal/downloader/downloader.go),   *)
(* with the classes of errors.go.  Sessions only knows that a peer rests   *)
(* for some time; here is for how long.                                    *)
(*                                                                         *)
(* A peer has one owner at a time (OneOwner of Sessions): a connector or a *)
(* worker, which reports its success or failure and releases it, in two    *)
(* critical sections.  Timers are the time left until they run out.  Which *)
(* of the eligible peers is acquired depends on scores: any.               *)
(***************************************************************************)
EXTENDS Integers

CONSTANTS
    Peers,
    Classes,            \* FailureClass
    HashMismatch,       \* FailClassHashMismatch
    Base,               \* baseBackoff of each class
    QuarantineAfter,    \* quarantineAfter of each class
    QuarantinePeriod,   \* quarantinePeriod of each class
    MaxBackoff,         \* max of each class
    MaxShift,           \* 6
    Factor,             \* 1 << shift, for each shift up to MaxShift
    MaxFails,           \* bound: consecutive failures that are told apart
    Horizon,            \* bound: how long ago a failure is remembered
    NoClass

ASSUME ClassesAssumption == HashMismatch \in Classes /\ NoClass \notin Classes
ASSUME TableAssumption ==
    /\ {Base, QuarantineAfter, QuarantinePeriod, MaxBackoff} \subseteq [Classes -> Nat]
    /\ QuarantineAfter[HashMismatch] = 2
    /\ MaxShift \in Nat /\ Factor \in [0..MaxShift -> Nat]
ASSUME BoundsAssumption ==
    /\ MaxFails \in Nat /\ Horizon \in Nat
    /\ MaxFails > MaxShift
    /\ \A c \in Classes :
          MaxFails > QuarantineAfter[c] /\ Horizon >= QuarantinePeriod[c] /\ Horizon >= MaxBackoff[c]

VARIABLES
    hold,           \* "available", "acquired", "reported" (failed, not released yet)
    fails,          \* consecutiveFailures
    backoff,        \* until backoffUntil
    quarantine,     \* until quarantinedUntil
    \* history
    last,           \* class of the last failure after the last success
    since,          \* how long ago it was
    spell,          \* its last failures that were mismatches in a row, up to two
    first, second   \* how long ago these were

stats   == <<fails, backoff, quarantine>>
history == <<last, since, spell, first, second>>
vars    == <<hold, stats, history>>

Lesser(a, b) == IF a < b THEN a ELSE b

\* The backoff after the n-th failure in a row, of class c.
Exponential(c, n) ==
    Lesser(MaxBackoff[c], Base[c] * Factor[IF n > 1 THEN Lesser(n - 1, MaxShift) ELSE 0])

Init ==
    /\ hold = [p \in Peers |-> "available"]
    /\ fails = [p \in Peers |-> 0]
    /\ backoff = [p \in Peers |-> 0]
    /\ quarantine = [p \in Peers |-> 0]
    /\ last = [p \in Peers |-> NoClass]
    /\ since = [p \in Peers |-> 0]
    /\ spell = [p \in Peers |-> 0]
    /\ first = [p \in Peers |-> 0] /\ second = [p \in Peers |-> 0]

Acquire(p) ==
    /\ hold[p] = "available"
    /\ backoff[p] = 0 /\ quarantine[p] = 0
    /\ hold' = [hold EXCEPT ![p] = "acquired"]
    /\ UNCHANGED <<stats, history>>

\* ReportSuccess: the peer served a piece, and is kept.
ReportSuccess(p) ==
    /\ hold[p] = "acquired"
    /\ fails' = [fails EXCEPT ![p] = 0]
    /\ last' = [last EXCEPT ![p] = NoClass]
    /\ since' = [since EXCEPT ![p] = 0]
    /\ spell' = [spell EXCEPT ![p] = 0]
    /\ first' = [first EXCEPT ![p] = 0] /\ second' = [second EXCEPT ![p] = 0]
    /\ UNCHANGED <<hold, backoff, quarantine>>

\* What the failure adds to the history.
Remember(p, c) ==
    /\ last' = [last EXCEPT ![p] = c]
    /\ since' = [since EXCEPT ![p] = 0]
    /\ spell' = [spell EXCEPT ![p] = IF c = HashMismatch THEN Lesser(@ + 1, 2) ELSE 0]
    /\ first' = [first EXCEPT ![p] =
                    IF c = HashMismatch /\ spell[p] = 1 THEN @
                    ELSE IF c = HashMismatch /\ spell[p] = 2 THEN second[p] ELSE 0]
    /\ second' = [second EXCEPT ![p] = 0]

\* ReportFailureWith.
ReleaseFirst(p, c) ==   \* slip: the peer is released before its failure is reported
    /\ hold[p] = "acquired"
    /\ hold' = [hold EXCEPT ![p] = "available"]
    /\ fails' = [fails EXCEPT ![p] = Lesser(@ + 1, MaxFails)]
    /\ UNCHANGED <<backoff, quarantine>>
    /\ Remember(p, c)
FailOnceMore(p, c) ==   \* slip: more than quarantineAfter failures are needed
    /\ hold[p] = "acquired"
    /\ LET n == Lesser(fails[p] + 1, MaxFails)
           bad == n > QuarantineAfter[c] /\ QuarantinePeriod[c] > 0 IN
          /\ backoff' = [backoff EXCEPT ![p] = IF Base[c] > 0 THEN Exponential(c, n) ELSE @]
          /\ quarantine' = [quarantine EXCEPT ![p] = IF bad THEN QuarantinePeriod[c] ELSE @]
          /\ fails' = [fails EXCEPT ![p] = IF bad THEN 0 ELSE n]
    /\ hold' = [hold EXCEPT ![p] = "reported"]
    /\ Remember(p, c)
ReportFailure(p, c) ==
    /\ hold[p] = "acquired"
    /\ LET n == Lesser(fails[p] + 1, MaxFails)
           bad == n >= QuarantineAfter[c] /\ QuarantinePeriod[c] > 0 IN
          /\ backoff' = [backoff EXCEPT ![p] = IF Base[c] > 0 THEN Exponential(c, n) ELSE @]
          /\ quarantine' = [quarantine EXCEPT ![p] = IF bad THEN QuarantinePeriod[c] ELSE @]
          /\ fails' = [fails EXCEPT ![p] = IF bad THEN 0 ELSE n]
    /\ hold' = [hold EXCEPT ![p] = "reported"]
    /\ Remember(p, c)

\* Release, after a failure or because the session has served its pieces, was not
\* needed any more, or was cancelled.
Release(p) ==
    /\ hold[p] # "available"
    /\ hold' = [hold EXCEPT ![p] = "available"]
    /\ UNCHANGED <<stats, history>>

Tick ==
    /\ backoff' = [p \in Peers |-> IF backoff[p] > 0 THEN backoff[p] - 1 ELSE 0]
    /\ quarantine' = [p \in Peers |-> IF quarantine[p] > 0 THEN quarantine[p] - 1 ELSE 0]
    /\ since' = [p \in Peers |-> Lesser(since[p] + 1, Horizon)]
    /\ first' = [p \in Peers |-> IF spell[p] >= 1 THEN Lesser(first[p] + 1, Horizon) ELSE 0]
    /\ second' = [p \in Peers |-> IF spell[p] = 2 THEN Lesser(second[p] + 1, Horizon) ELSE 0]
    /\ UNCHANGED <<hold, fails, last, spell>>

Next ==
    \/ \E p \in Peers : Acquire(p) \/ ReportSuccess(p) \/ Release(p)
    \/ \E p \in Peers, c \in Classes : ReportFailure(p, c)
    \/ Tick

Spec == Init /\ [][Next]_vars

-----------------------------------------------------------------------------
(* Properties *)

TypeOK ==
    /\ hold \in [Peers -> {"available", "acquired", "reported"}]
    /\ fails \in [Peers -> 0..MaxFails]
    /\ backoff \in [Peers -> Nat]
    /\ quarantine \in [Peers -> Nat]
    /\ last \in [Peers -> Classes \cup {NoClass}]
    /\ since \in [Peers -> 0..Horizon]
    /\ spell \in [Peers -> 0..2]
    /\ first \in [Peers -> 0..Horizon] /\ second \in [Peers -> 0..Horizon]

\* The rest that the last failure of p calls for: its quarantine if it came to
\* that, which has set the count to zero, else the backoff.
Owed(p) ==
    IF last[p] = NoClass THEN 0
    ELSE IF fails[p] = 0 THEN QuarantinePeriod[last[p]]
    ELSE Exponential(last[p], fails[p])

\* Nobody tries a peer again before the rest that its last failure calls for is
\* over, although the failure is reported and the peer released in two critical
\* sections while 48 connectors look for a peer (downloader.go:511-516, 595-611,
\* 853-855).  It may be that its first failures in a row were of other classes.
RestKept ==
    [][\A p \in Peers : hold[p] = "available" /\ hold'[p] = "acquired"
                            => since[p] >= Owed(p)]_vars

\* A peer whose last two pieces were both corrupt is not asked for a third one
\* before a whole quarantine period after the first of the two, whatever it did
\* before.  A success resets the count (downloader.go:896), and so does a
\* quarantine (downloader.go:985): only pieces in a row count.
CorruptRare ==
    \A p \in Peers :
        hold[p] = "acquired" /\ spell[p] = 2
            => first[p] >= QuarantinePeriod[HashMismatch]
=============================================================================
