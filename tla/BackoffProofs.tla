--------------------------- MODULE BackoffProofs ---------------------------
(***************************************************************************)
(* Theorems about Backoff, for every set of peers and classes, and every   *)
(* table in which a second failure in a row that is a corrupt piece leads  *)
(* to quarantine.                                                          *)
(***************************************************************************)
EXTENDS Backoff, TLAPS

\* The time since the last failure of p and the time its timers still run make
\* up the rest that it owes.
RestCovered(p) ==
    last[p] # NoClass =>
        IF fails[p] = 0
        THEN since[p] + quarantine[p] >= QuarantinePeriod[last[p]]
        ELSE since[p] + backoff[p] >= Exponential(last[p], fails[p])

\* The quarantine that a corrupt piece led to t ago has not been cut short.
Confined(p, t) == t + quarantine[p] >= QuarantinePeriod[HashMismatch]

\* One corrupt piece: it has been counted, unless it led to quarantine.  Two: one
\* of them led to quarantine, and so the first is as long ago as that has run.
CorruptCovered(p) ==
    /\ spell[p] = 1 => fails[p] >= 1 \/ Confined(p, first[p])
    /\ spell[p] = 2 => /\ Confined(p, first[p])
                       /\ fails[p] >= 1 \/ Confined(p, second[p])

\* Who has acquired a peer waited for its timers; the next report starts them.
TimersOver(p) == hold[p] = "acquired" => backoff[p] = 0 /\ quarantine[p] = 0

Covered(p) == RestCovered(p) /\ CorruptCovered(p) /\ TimersOver(p)

IInv == TypeOK /\ \A p \in Peers : Covered(p)

-----------------------------------------------------------------------------
(* The table *)

LEMMA LesserIs == ASSUME NEW a \in Nat, NEW b \in Nat
                  PROVE  Lesser(a, b) \in Nat /\ Lesser(a, b) <= a /\ Lesser(a, b) <= b
BY SMT DEF Lesser

LEMMA ExponentialIs ==
    ASSUME NEW c \in Classes, NEW n \in Nat
    PROVE  /\ Exponential(c, n) \in Nat
           /\ Exponential(c, n) <= MaxBackoff[c]
           /\ Base[c] = 0 => Exponential(c, n) = 0
<1> DEFINE k == IF n > 1 THEN Lesser(n - 1, MaxShift) ELSE 0
<1>1. MaxBackoff[c] \in Nat /\ Base[c] \in Nat
  BY TableAssumption
<1>2. k \in 0..MaxShift
  BY TableAssumption DEF Lesser
<1>3. Factor[k] \in Nat
  BY <1>2, TableAssumption
<1>4. Exponential(c, n) = Lesser(MaxBackoff[c], Base[c] * Factor[k])
  BY DEF Exponential
<1> HIDE DEF k
<1>5. Base[c] * Factor[k] \in Nat /\ (Base[c] = 0 => Base[c] * Factor[k] = 0)
  BY <1>1, <1>3
<1> QED
  BY <1>1, <1>4, <1>5 DEF Lesser

-----------------------------------------------------------------------------
(* IInv is inductive *)

LEMMA InitIInv == Init => IInv
BY ClassesAssumption, BoundsAssumption
   DEF Init, IInv, TypeOK, Covered, RestCovered, CorruptCovered, TimersOver

LEMMA AcquireKeeps == ASSUME IInv, NEW p \in Peers, Acquire(p) PROVE IInv'
BY DEF Acquire, stats, history, IInv, TypeOK, Covered, RestCovered, CorruptCovered,
       Confined, TimersOver, Exponential

LEMMA ReleaseKeeps == ASSUME IInv, NEW p \in Peers, Release(p) PROVE IInv'
BY DEF Release, stats, history, IInv, TypeOK, Covered, RestCovered, CorruptCovered,
       Confined, TimersOver, Exponential

LEMMA SuccessKeeps == ASSUME IInv, NEW p \in Peers, ReportSuccess(p) PROVE IInv'
<1>1. TypeOK'
  BY BoundsAssumption DEF ReportSuccess, IInv, TypeOK
<1>2. ASSUME NEW q \in Peers PROVE Covered(q)'
  BY ClassesAssumption DEF ReportSuccess, IInv, TypeOK, Covered, RestCovered,
     CorruptCovered, Confined, TimersOver, Exponential
<1> QED
  BY <1>1, <1>2 DEF IInv

\* The report of a failure sets each timer to what it owes, or leaves it at zero.
LEMMA FailureKeeps ==
    ASSUME IInv, NEW p \in Peers, NEW c \in Classes, ReportFailure(p, c)
    PROVE  IInv'
<1> DEFINE n == Lesser(fails[p] + 1, MaxFails)
           bad == n >= QuarantineAfter[c] /\ QuarantinePeriod[c] > 0
<1>1. /\ fails[p] \in 0..MaxFails /\ backoff[p] = 0 /\ quarantine[p] = 0
      /\ hold[p] = "acquired" /\ spell[p] \in 0..2
      /\ first[p] \in 0..Horizon /\ second[p] \in 0..Horizon
  BY DEF IInv, TypeOK, Covered, TimersOver, ReportFailure
<1>2. n \in 1..MaxFails /\ (fails[p] >= 1 => n >= 2)
  <2>1. MaxFails \in Nat /\ MaxFails > 2
    BY ClassesAssumption, TableAssumption, BoundsAssumption
  <2> QED
    BY <2>1, <1>1 DEF Lesser
<1>3. /\ QuarantinePeriod[c] \in Nat /\ Base[c] \in Nat /\ QuarantineAfter[c] \in Nat
      /\ QuarantinePeriod[HashMismatch] \in Nat
  BY TableAssumption, ClassesAssumption
<1>4. Exponential(c, n) \in Nat /\ (Base[c] = 0 => Exponential(c, n) = 0)
  BY <1>2, ExponentialIs
<1>5. /\ backoff' = [backoff EXCEPT ![p] = IF Base[c] > 0 THEN Exponential(c, n) ELSE @]
      /\ quarantine' = [quarantine EXCEPT ![p] = IF bad THEN QuarantinePeriod[c] ELSE @]
      /\ fails' = [fails EXCEPT ![p] = IF bad THEN 0 ELSE n]
      /\ hold' = [hold EXCEPT ![p] = "reported"]
      /\ Remember(p, c)
  BY DEF ReportFailure
<1> HIDE DEF n
<1>6. TypeOK'
  BY <1>1, <1>2, <1>3, <1>4, <1>5, BoundsAssumption DEF IInv, TypeOK, Remember, Lesser
<1>7. ASSUME NEW q \in Peers, q # p PROVE Covered(q)'
  BY <1>5, <1>7 DEF IInv, TypeOK, Covered, RestCovered, CorruptCovered, Confined,
     TimersOver, Remember, Exponential
<1>8. /\ fails'[p] = (IF bad THEN 0 ELSE n) /\ last'[p] = c /\ since'[p] = 0
      /\ backoff'[p] = Exponential(c, n)
      /\ quarantine'[p] = IF bad THEN QuarantinePeriod[c] ELSE 0
      /\ hold'[p] = "reported"
  BY <1>1, <1>3, <1>4, <1>5 DEF IInv, TypeOK, Remember
<1>9. RestCovered(p)'
  <2>1. CASE bad
    BY <2>1, <1>3, <1>8 DEF RestCovered
  <2>2. CASE ~bad
    <3>1. RestCovered(p)' <=> since'[p] + backoff'[p] >= Exponential(c, n)
      BY <2>2, <1>2, <1>8, ClassesAssumption DEF RestCovered, Exponential
    <3> QED
      BY <3>1, <1>4, <1>8
  <2> QED
    BY <2>1, <2>2
<1>10. CorruptCovered(p)'
  <2>1. CASE c # HashMismatch
    BY <2>1, <1>5 DEF IInv, TypeOK, Remember, CorruptCovered
  <2>2. CASE c = HashMismatch
    <3>1. /\ spell'[p] = (IF spell[p] = 0 THEN 1 ELSE 2) /\ second'[p] = 0
          /\ first'[p] = (IF spell[p] = 1 THEN first[p] ELSE IF spell[p] = 2 THEN second[p] ELSE 0)
      BY <2>2, <1>1, <1>5 DEF IInv, TypeOK, Remember, Lesser
    <3>2. CorruptCovered(p)
      BY DEF IInv, Covered
    <3>3. n >= 2 /\ QuarantinePeriod[c] > 0 => bad
      BY <2>2, TableAssumption
    <3>4. fails'[p] >= 1 \/ quarantine'[p] = QuarantinePeriod[HashMismatch]
      BY <2>2, <1>2, <1>8
    <3>5. fails[p] >= 1 => \A t \in Nat : t + quarantine'[p] >= QuarantinePeriod[HashMismatch]
      BY <2>2, <3>3, <1>2, <1>3, <1>8
    <3>6. quarantine'[p] \in Nat
      BY <1>3, <1>8
    <3>7. spell[p] >= 1 => first'[p] + quarantine'[p] >= QuarantinePeriod[HashMismatch]
      BY <3>1, <3>2, <3>5, <3>6, <1>1, <1>3 DEF CorruptCovered, Confined
    <3>8. first'[p] \in Nat /\ second'[p] \in Nat
      BY <3>1, <1>1
    <3> QED
      BY <3>1, <3>4, <3>7, <3>8, <1>1, <1>3, <3>6 DEF CorruptCovered, Confined
  <2> QED
    BY <2>1, <2>2
<1>11. TimersOver(p)'
  BY <1>8 DEF TimersOver
<1> QED
  BY <1>6, <1>7, <1>9, <1>10, <1>11 DEF IInv, Covered

\* A tick moves time from what a timer still runs to what has passed.
LEMMA TickKeeps == ASSUME IInv, Tick PROVE IInv'
<1>1. TypeOK'
  BY BoundsAssumption DEF Tick, IInv, TypeOK, Lesser
<1>2. ASSUME NEW q \in Peers PROVE Covered(q)'
  <2>1. /\ backoff[q] \in Nat /\ quarantine[q] \in Nat /\ fails[q] \in 0..MaxFails
        /\ since[q] \in 0..Horizon /\ first[q] \in 0..Horizon /\ second[q] \in 0..Horizon
        /\ last[q] \in Classes \cup {NoClass} /\ Horizon \in Nat
    BY BoundsAssumption DEF IInv, TypeOK
  <2>2. /\ backoff'[q] = (IF backoff[q] > 0 THEN backoff[q] - 1 ELSE 0)
        /\ quarantine'[q] = (IF quarantine[q] > 0 THEN quarantine[q] - 1 ELSE 0)
        /\ since'[q] = Lesser(since[q] + 1, Horizon)
        /\ spell[q] >= 1 => first'[q] = Lesser(first[q] + 1, Horizon)
        /\ spell[q] = 2 => second'[q] = Lesser(second[q] + 1, Horizon)
        /\ fails' = fails /\ last' = last /\ hold' = hold /\ spell' = spell
    BY DEF Tick
  <2>3. Covered(q)
    BY DEF IInv
  <2>4. ASSUME NEW t \in 0..Horizon, NEW r \in Nat, NEW b \in Nat, b <= Horizon, t + r >= b
        PROVE  Lesser(t + 1, Horizon) + (IF r > 0 THEN r - 1 ELSE 0) >= b
    BY <2>1, <2>4 DEF Lesser
  <2>5. RestCovered(q)'
    <3>1. CASE last[q] = NoClass
      BY <3>1, <2>2 DEF RestCovered
    <3>2. CASE last[q] # NoClass /\ fails[q] = 0
      <4>1. /\ QuarantinePeriod[last[q]] \in Nat /\ QuarantinePeriod[last[q]] <= Horizon
            /\ since[q] + quarantine[q] >= QuarantinePeriod[last[q]]
        BY <3>2, <2>1, <2>3, TableAssumption, BoundsAssumption DEF Covered, RestCovered
      <4>2. since'[q] + quarantine'[q] >= QuarantinePeriod[last[q]]
        BY <4>1, <2>1, <2>2, <2>4
      <4> QED
        BY <4>2, <3>2, <2>2 DEF RestCovered
    <3>3. CASE last[q] # NoClass /\ fails[q] # 0
      <4>1. /\ Exponential(last[q], fails[q]) \in Nat
            /\ Exponential(last[q], fails[q]) <= Horizon
            /\ since[q] + backoff[q] >= Exponential(last[q], fails[q])
        <5>1. last[q] \in Classes /\ fails[q] \in Nat
          BY <3>3, <2>1, BoundsAssumption
        <5>2. MaxBackoff[last[q]] \in Nat /\ MaxBackoff[last[q]] <= Horizon
          BY <5>1, TableAssumption, BoundsAssumption
        <5>3. since[q] + backoff[q] >= Exponential(last[q], fails[q])
          BY <3>3, <2>3 DEF Covered, RestCovered
        <5> QED
          BY <5>1, <5>2, <5>3, <2>1, ExponentialIs
      <4>2. since'[q] + backoff'[q] >= Exponential(last[q], fails[q])
        BY <4>1, <2>1, <2>2, <2>4
      <4> QED
        BY <4>2, <3>3, <2>2 DEF RestCovered, Exponential
    <3> QED
      BY <3>1, <3>2, <3>3
  <2>6. CorruptCovered(q)'
    <3>1. /\ QuarantinePeriod[HashMismatch] \in Nat
          /\ QuarantinePeriod[HashMismatch] <= Horizon
      BY TableAssumption, ClassesAssumption, BoundsAssumption
    <3>2. spell[q] >= 1 /\ Confined(q, first[q]) => Confined(q, first[q])'
      BY <3>1, <2>1, <2>2, <2>4 DEF Confined
    <3>3. spell[q] = 2 /\ Confined(q, second[q]) => Confined(q, second[q])'
      BY <3>1, <2>1, <2>2, <2>4 DEF Confined
    <3> QED
      BY <3>2, <3>3, <2>2, <2>3 DEF Covered, CorruptCovered
  <2>7. TimersOver(q)'
    BY <2>1, <2>2, <2>3 DEF Covered, TimersOver
  <2> QED
    BY <2>5, <2>6, <2>7 DEF Covered
<1> QED
  BY <1>1, <1>2 DEF IInv

LEMMA StepIInv == IInv /\ [Next]_vars => IInv'
<1> SUFFICES ASSUME IInv, [Next]_vars PROVE IInv'
  OBVIOUS
<1>1. CASE UNCHANGED vars
  BY <1>1 DEF vars, stats, history, IInv, TypeOK, Covered, RestCovered, CorruptCovered,
     Confined, TimersOver, Exponential
<1>2. CASE Next
  BY <1>2, AcquireKeeps, SuccessKeeps, ReleaseKeeps, FailureKeeps, TickKeeps DEF Next
<1> QED
  BY <1>1, <1>2

LEMMA Invariance == Spec => []IInv
BY InitIInv, StepIInv, PTL DEF Spec

-----------------------------------------------------------------------------
(* What follows *)

\* Counts, timers and history keep their types.
THEOREM TypeCorrect == Spec => []TypeOK
BY Invariance, PTL DEF IInv

\* downloader.go:907-987: a second corrupt piece in a row leads to quarantine,
\* unless the first one has, whatever the count was before.
THEOREM CorruptIsRare == Spec => []CorruptRare
<1>1. IInv => CorruptRare
  BY TableAssumption, ClassesAssumption
     DEF IInv, TypeOK, Covered, CorruptCovered, Confined, TimersOver, CorruptRare
<1> QED
  BY <1>1, Invariance, PTL

\* downloader.go:853-855: who acquires a peer finds both its timers run out, and
\* the report that set them came before the release.
THEOREM RestIsKept == Spec => RestKept
<1> DEFINE Kept == \A p \in Peers : hold[p] = "available" /\ hold'[p] = "acquired"
                                      => since[p] >= Owed(p)
<1>1. ASSUME IInv, Next PROVE Kept
  <2> SUFFICES ASSUME NEW p \in Peers, hold[p] = "available", hold'[p] = "acquired"
               PROVE  since[p] >= Owed(p)
    OBVIOUS
  <2>1. Acquire(p)
    BY <1>1 DEF Next, Acquire, ReportSuccess, Release, ReportFailure, Tick, IInv, TypeOK
  <2>2. backoff[p] = 0 /\ quarantine[p] = 0 /\ since[p] \in 0..Horizon
    BY <2>1, <1>1 DEF Acquire, IInv, TypeOK
  <2>3. RestCovered(p)
    BY <1>1 DEF IInv, Covered
  <2> HIDE DEF Kept
  <2>4. CASE last[p] = NoClass
    BY <2>4, <2>2, BoundsAssumption DEF Owed
  <2>5. CASE last[p] # NoClass
    BY <2>5, <2>2, <2>3, BoundsAssumption DEF Owed, RestCovered
  <2> QED
    BY <2>4, <2>5
<1>2. IInv /\ [Next]_vars => [Kept]_vars
  BY <1>1
<1> QED
  BY <1>2, Invariance, PTL DEF Spec, RestKept
=============================================================================
