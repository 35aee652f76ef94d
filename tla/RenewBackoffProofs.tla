------------------------- MODULE RenewBackoffProofs -------------------------
(***************************************************************************)
(* The backoff of automatic renewals, for any number of operations,        *)
(* failures and restarts, and any base and maximum.                        *)
(***************************************************************************)
EXTENDS RenewBackoff, TLAPS, WellFoundedInduction

\* beginCertJob waits, so one job at most is registered.
OneRunning == \A j, k \in Jobs : pc[j] \in Running /\ pc[k] \in Running => j = k

\* Nothing in the loop overflows.
LoopBounded ==
    \A j \in Jobs :
        /\ pc[j] = "loop" => backoff[j] \in RenewBackoffBase..MaxDuration
        /\ pc[j] = "write" => backoff[j] \in 0..RenewBackoffMax

\* What is being counted has happened.
CountBacked ==
    overlap \/ /\ failures <= streak
               /\ \A j \in Jobs :
                      /\ pc[j] = "read" => Counted(failures) <= streak
                      /\ pc[j] \in {"loop", "write"} => count[j] <= streak

\* The scheduler is at the renewal that is not started yet.
Starting(j) == auto[j] /\ pc[j] \in {"lock", "begin"}
ScanAtStarting == \A j \in Jobs : Starting(j) => scan = j

\* Once a renewal was started within the backoff, none is on its way.
NoneOnTheWay ==
    /\ early <= 1
    /\ early = 1 /\ until > 0 => scan # "verify" /\ \A j \in Jobs : ~Starting(j)

IInv ==
    /\ TypeOK /\ OneRunning /\ LoopBounded /\ until <= RenewBackoffMax
    /\ CountBacked /\ ScanAtStarting /\ NoneOnTheWay

LEMMA DoubledFits ==
    ASSUME NEW b \in RenewBackoffBase..MaxDuration, BelowMax(b)
    PROVE  Duration(2 * b) = 2 * b /\ 2 * b \in RenewBackoffBase..MaxDuration
BY BackoffAssumption DEF BelowMax, Duration

LEMMA CappedBounds ==
    ASSUME NEW b \in RenewBackoffBase..MaxDuration
    PROVE  Capped(b) \in 0..RenewBackoffMax /\ Capped(RenewBackoffBase) <= Capped(b)
BY BackoffAssumption DEF Capped

LEMMA BackoffInvariant == Spec => []IInv
<1> USE BackoffAssumption DEF Counted
<1>1. Init => IInv
  <2> SUFFICES ASSUME Init PROVE IInv
    OBVIOUS
  <2>1. TypeOK
    <3>1. autoRenew \in BOOLEAN /\ due \in BOOLEAN /\ overlap \in BOOLEAN /\ auto \in [Jobs -> BOOLEAN]
      BY Zenon DEF Init
    <3> QED BY <3>1 DEF Init, TypeOK, PCs, Running
  <2>2. OneRunning /\ LoopBounded /\ until <= RenewBackoffMax
    BY DEF Init, Running, OneRunning, LoopBounded
  <2>3. CountBacked
    BY DEF Init, CountBacked
  <2>4. ScanAtStarting /\ NoneOnTheWay
    BY DEF Init, ScanAtStarting, Starting, NoneOnTheWay
  <2> QED BY <2>1, <2>2, <2>3, <2>4 DEF IInv
<1>2. IInv /\ [Next]_vars => IInv'
  <2> SUFFICES ASSUME IInv, [Next]_vars PROVE IInv'
    OBVIOUS
  <2> USE DEF IInv, TypeOK, PCs, Running, OneRunning, LoopBounded, CountBacked, ScanAtStarting,
          Starting, NoneOnTheWay, Goto, KeepRow, KeepJobs, rowVars, loopVars, histVars
  <2>1. CASE ScanRead
    BY <2>1 DEF ScanRead, Eligible
  <2>2. CASE ScanRefused
    BY <2>2 DEF ScanRefused
  <2>3. ASSUME NEW j \in Jobs, ScanLocks(j) PROVE IInv'
    BY <2>3 DEF ScanLocks
  <2>4. CASE ScanResumes
    BY <2>4 DEF ScanResumes
  <2>5. CASE Cleanup
    BY <2>5 DEF Cleanup
  <2>6. ASSUME NEW j \in Jobs, RenewCertificate(j) PROVE IInv'
    BY <2>6 DEF RenewCertificate
  <2>7. ASSUME NEW j \in Jobs, JobStep(j) PROVE IInv'
    <3>1. CASE LockCas(j)
      BY <3>1 DEF LockCas
    <3>2. CASE NoSlot(j)
      BY <3>2 DEF NoSlot
    <3>3. CASE StartJob(j)
      BY <3>3 DEF StartJob, Starts, inflight
    <3>4. CASE JobSaves(j)
      <4>1. overlap' \in BOOLEAN /\ due' \in BOOLEAN
        BY <3>4, Zenon DEF JobSaves
      <4> QED BY <3>4, <4>1 DEF JobSaves, Reset
    <3>5. CASE JobCancelled(j)
      BY <3>5 DEF JobCancelled
    <3>6. CASE JobFails(j)
      BY <3>6 DEF JobFails, Counted
    <3>7. CASE BackoffRead(j)
      BY <3>7 DEF BackoffRead, Counted
    <3>8. CASE LoopDoubles(j)
      <4>1. backoff'[j] = Duration(2 * backoff[j]) /\ backoff[j] \in RenewBackoffBase..MaxDuration
        BY <3>8 DEF LoopDoubles
      <4>2. backoff'[j] \in RenewBackoffBase..MaxDuration
        BY <4>1, <3>8, DoubledFits DEF LoopDoubles
      <4> QED BY <3>8, <4>2 DEF LoopDoubles
    <3>9. CASE LoopEnds(j)
      <4>1. backoff'[j] \in 0..RenewBackoffMax
        BY <3>9, CappedBounds DEF LoopEnds
      <4> QED BY <3>9, <4>1 DEF LoopEnds
    <3>10. CASE BackoffWrite(j)
      BY <3>10 DEF BackoffWrite, NoTimes
    <3>11. CASE BackoffFails(j)
      BY <3>11 DEF BackoffFails, NoTimes
    <3> QED BY <2>7, <3>1, <3>2, <3>3, <3>4, <3>5, <3>6, <3>7, <3>8, <3>9, <3>10, <3>11
            DEF JobStep
  <2>8. ASSUME NEW on \in BOOLEAN, UpdateDomain(on) PROVE IInv'
    <3>1. overlap' \in BOOLEAN /\ autoRenew' \in BOOLEAN
      BY <2>8 DEF UpdateDomain, Counting
    <3>2. CASE on /\ ~Counting
      <4>1. CountBacked'
        BY <2>8, <3>2 DEF UpdateDomain, Reset, Counting
      <4> QED BY <2>8, <3>1, <3>2, <4>1 DEF UpdateDomain, Reset
    <3>3. CASE on /\ Counting
      <4>1. overlap' = TRUE
        BY <2>8, <3>3, Zenon DEF UpdateDomain, Counting
      <4> QED BY <2>8, <3>1, <3>3, <4>1 DEF UpdateDomain, Reset
    <3>4. CASE ~on
      BY <2>8, <3>1, <3>4 DEF UpdateDomain
    <3> QED BY <3>2, <3>3, <3>4
  <2>9. CASE Tick
    BY <2>9 DEF Tick, Less
  <2>10. CASE Expires
    BY <2>10 DEF Expires
  <2>11. CASE Crash
    BY <2>11 DEF Crash
  <2>12. CASE UNCHANGED vars
    BY <2>12 DEF vars
  <2> QED BY <2>1, <2>2, <2>3, <2>4, <2>5, <2>6, <2>7, <2>8, <2>9, <2>10, <2>11, <2>12
          DEF Next, SchedulerStep
<1> QED BY <1>1, <1>2, PTL DEF Spec

\* Type correctness: in particular no backoff lies in the past.
THEOREM BackoffTypeCorrect == Spec => []TypeOK
<1>1. IInv => TypeOK
  BY DEF IInv
<1> QED BY <1>1, BackoffInvariant, PTL

\* Only a user's reset in the middle of a count makes the column count too much.
THEOREM FailuresAreConsecutive == Spec => []CountsConsecutive
<1>1. IInv => CountsConsecutive
  BY DEF IInv, CountBacked, CountsConsecutive
<1> QED BY <1>1, BackoffInvariant, PTL

\* At most one renewal starts within a backoff, whatever the scan had read.
THEOREM OneEarlyRenewal == Spec => []EarlyOnce
<1>1. IInv => EarlyOnce
  BY DEF IInv, NoneOnTheWay, EarlyOnce
<1> QED BY <1>1, BackoffInvariant, PTL

-----------------------------------------------------------------------------
(* Induction.  The library's theorems of induction take an operator, which   *)
(* the provers cannot instantiate; that < is well-founded takes none, and    *)
(* gives induction for sets.                                                 *)

LEMMA LeastNatural ==
    ASSUME NEW T, T \subseteq Nat, T # {}
    PROVE  \E x \in T : \A y \in T : x <= y
<1> DEFINE R == OpToRel(<, Nat)
<1>1. IsWellFoundedOn(R, Nat)
  BY NatLessThanWellFounded
<1>2. \A x, y \in Nat : y < x => <<y, x>> \in R
  BY DEF OpToRel
<1> HIDE DEF R
<1>3. PICK x \in T : \A y \in T : <<y, x>> \notin R
  BY <1>1, WFMin
<1>4. ASSUME NEW y \in T PROVE x <= y
  <2>1. x \in Nat /\ y \in Nat
    BY <1>3
  <2>2. ~(y < x)
    BY <1>2, <1>3, <2>1
  <2> QED BY <2>1, <2>2
<1> QED BY <1>4

LEMMA SetInduction ==
    ASSUME NEW T, 0 \in T, \A n \in Nat : n \in T => n + 1 \in T
    PROVE  Nat \subseteq T
<1> SUFFICES ASSUME ~(Nat \subseteq T) PROVE FALSE
  OBVIOUS
<1> DEFINE U == Nat \ T
<1>1. PICK x \in U : \A y \in U : x <= y
  <2>1. U # {} /\ U \subseteq Nat
    OBVIOUS
  <2> HIDE DEF U
  <2> QED BY <2>1, LeastNatural
<1>2. x # 0 /\ x \in Nat
  OBVIOUS
<1>3. x - 1 \in Nat /\ x - 1 \notin U
  BY <1>1, <1>2
<1> QED BY <1>2, <1>3

-----------------------------------------------------------------------------
(* The exponential backoff                                                   *)

\* The recursive definition defines a function: by induction on the domain.
LEMMA ExponentialDef ==
    Exponential = [n \in 0..MaxFailures |->
                      IF n <= 1 THEN RenewBackoffBase ELSE 2 * Exponential[n - 1]]
<1> DEFINE Doubles(g, k) ==
             g = [n \in 0..k |-> IF n <= 1 THEN RenewBackoffBase ELSE 2 * g[n - 1]]
           T == {k \in Nat : \E g : Doubles(g, k)}
<1>1. 0 \in T
  <2> DEFINE g == [n \in 0..0 |-> RenewBackoffBase]
  <2>1. Doubles(g, 0)
    OBVIOUS
  <2> QED BY <2>1
<1>2. ASSUME NEW k \in Nat, k \in T PROVE k + 1 \in T
  <2>1. PICK g : Doubles(g, k)
    BY <1>2
  <2> DEFINE h == [n \in 0..(k + 1) |-> IF n <= 1 THEN RenewBackoffBase ELSE 2 * g[n - 1]]
  <2>2. ASSUME NEW n \in 0..k PROVE h[n] = g[n]
    BY <2>1
  <2>3. ASSUME NEW n \in 0..(k + 1) PROVE h[n] = IF n <= 1 THEN RenewBackoffBase ELSE 2 * h[n - 1]
    <3>1. CASE n <= 1
      BY <3>1
    <3>2. CASE n > 1
      <4>1. n - 1 \in 0..k
        BY <3>2
      <4> QED BY <2>2, <3>2, <4>1
    <3> QED BY <3>1, <3>2
  <2>4. Doubles(h, k + 1)
    <3>1. h = [n \in 0..(k + 1) |-> h[n]]
      OBVIOUS
    <3> HIDE DEF h
    <3> QED BY <2>3, <3>1
  <2> HIDE DEF h
  <2> QED BY <2>4
<1>3. MaxFailures \in T
  <2> HIDE DEF T
  <2> QED BY <1>1, <1>2, SetInduction, BackoffAssumption
<1>4. \E g : Doubles(g, MaxFailures)
  BY <1>3
<1> QED BY <1>4 DEF Exponential

\* No less than the first backoff, and growing.
LEMMA ExponentialValues ==
    /\ \A n \in 0..MaxFailures : Exponential[n] \in Nat /\ Exponential[n] >= RenewBackoffBase
    /\ \A m, n \in 0..MaxFailures : m <= n => Exponential[m] <= Exponential[n]
<1> DEFINE T == {n \in Nat : n <= MaxFailures =>
                     /\ Exponential[n] \in Nat /\ Exponential[n] >= RenewBackoffBase
                     /\ \A m \in 0..n : Exponential[m] \in Nat /\ Exponential[m] <= Exponential[n]}
<1>1. 0 \in T
  <2>1. Exponential[0] = RenewBackoffBase
    BY ExponentialDef, BackoffAssumption
  <2> QED BY <2>1, BackoffAssumption
<1>2. ASSUME NEW n \in Nat, n \in T PROVE n + 1 \in T
  <2> SUFFICES ASSUME n + 1 <= MaxFailures
               PROVE  /\ Exponential[n + 1] \in Nat /\ Exponential[n + 1] >= RenewBackoffBase
                      /\ \A m \in 0..(n + 1) :
                             Exponential[m] \in Nat /\ Exponential[m] <= Exponential[n + 1]
    OBVIOUS
  <2>1. /\ Exponential[n] \in Nat /\ Exponential[n] >= RenewBackoffBase
        /\ \A m \in 0..n : Exponential[m] \in Nat /\ Exponential[m] <= Exponential[n]
    BY <1>2, BackoffAssumption
  <2>2. Exponential[n + 1] = IF n + 1 <= 1 THEN RenewBackoffBase ELSE 2 * Exponential[n]
    <3>1. n + 1 \in 0..MaxFailures /\ (n + 1) - 1 = n
      BY BackoffAssumption
    <3> QED BY <3>1, ExponentialDef
  <2>3. n = 0 => Exponential[n] = RenewBackoffBase
    BY ExponentialDef, BackoffAssumption
  <2>4. /\ Exponential[n + 1] \in Nat /\ Exponential[n + 1] >= RenewBackoffBase
        /\ Exponential[n] <= Exponential[n + 1]
    BY <2>1, <2>2, <2>3, BackoffAssumption
  <2>5. ASSUME NEW m \in 0..(n + 1)
        PROVE  Exponential[m] \in Nat /\ Exponential[m] <= Exponential[n + 1]
    <3>1. CASE m = n + 1
      BY <2>4, <3>1
    <3>2. CASE m \in 0..n
      BY <2>1, <2>4, <3>2
    <3> QED BY <3>1, <3>2
  <2> QED BY <2>4, <2>5
<1>3. Nat \subseteq T
  <2> HIDE DEF T
  <2> QED BY <1>1, <1>2, SetInduction
<1>4. ASSUME NEW n \in 0..MaxFailures
      PROVE  /\ Exponential[n] \in Nat /\ Exponential[n] >= RenewBackoffBase
             /\ \A m \in 0..n : Exponential[m] <= Exponential[n]
  <2>1. n \in T /\ n <= MaxFailures
    BY <1>3, BackoffAssumption
  <2> QED BY <2>1
<1>5. ASSUME NEW m \in 0..MaxFailures, NEW n \in 0..MaxFailures, m <= n
      PROVE  Exponential[m] <= Exponential[n]
  <2>1. m \in 0..n
    BY <1>5
  <2> QED BY <1>4, <2>1
<1> QED BY <1>4, <1>5

\* The loop runs in step with the powers, and what it leaves behind is one.
Powers ==
    /\ until <= Capped(Exponential[failures])
    /\ \A j \in Jobs :
        /\ pc[j] = "loop" => /\ rounds[j] \in 1..count[j]
                             /\ backoff[j] = Exponential[rounds[j]]
        /\ pc[j] = "write" => backoff[j] <= Capped(Exponential[count[j]])

\* Stopping early changes nothing: from the maximum on, all powers are capped.
LEMMA LoopResult ==
    ASSUME NEW r \in 1..MaxFailures, NEW c \in r..MaxFailures,
           ~(r < c /\ BelowMax(Exponential[r]))
    PROVE  Capped(Exponential[r]) = Capped(Exponential[c])
<1>1. r \in 0..MaxFailures /\ c \in 0..MaxFailures /\ r <= c
  BY BackoffAssumption
<1>2. /\ Exponential[r] \in Nat /\ Exponential[c] \in Nat /\ Exponential[r] <= Exponential[c]
  BY <1>1, ExponentialValues
<1>3. CASE r = c
  BY <1>3
<1>4. CASE r < c
  BY <1>2, <1>4, BackoffAssumption DEF BelowMax, Capped
<1> QED BY <1>1, <1>3, <1>4

LEMMA PowersInvariant == Spec => []Powers
<1> USE BackoffAssumption
<1>0. /\ \A n \in 0..MaxFailures : Exponential[n] \in Nat /\ Capped(Exponential[n]) \in Nat
      /\ Exponential[1] = RenewBackoffBase
  BY ExponentialDef, ExponentialValues DEF Capped
<1>1. Init => Powers
  BY <1>0 DEF Init, Powers
<1>2. IInv /\ Powers /\ [Next]_vars => Powers'
  <2> SUFFICES ASSUME IInv, Powers, [Next]_vars PROVE Powers'
    OBVIOUS
  <2> USE DEF IInv, TypeOK, Powers, Goto, rowVars, loopVars
  <2>1. ASSUME UNCHANGED <<failures, until, count, rounds, backoff>>,
               \A j \in Jobs : pc'[j] \in {"loop", "write"} => pc'[j] = pc[j]
        PROVE  Powers'
    BY <2>1
  <2>2. CASE SchedulerStep \/ Expires \/ Crash \/ UNCHANGED vars
    <3>1. CASE SchedulerStep \/ Expires \/ UNCHANGED vars
      BY <2>1, <3>1
      DEF SchedulerStep, ScanRead, ScanRefused, ScanLocks, ScanResumes, Cleanup, Expires, vars,
          KeepRow, KeepJobs
    <3>2. CASE Crash
      BY <3>2 DEF Crash, KeepRow
    <3> QED BY <2>2, <3>1, <3>2
  <2>3. ASSUME NEW j \in Jobs, RenewCertificate(j) PROVE Powers'
    BY <2>1, <2>3 DEF RenewCertificate, KeepRow
  <2>4. ASSUME NEW j \in Jobs, JobStep(j) PROVE Powers'
    <3>1. CASE LockCas(j) \/ NoSlot(j) \/ StartJob(j) \/ JobCancelled(j) \/ JobFails(j)
      BY <2>1, <3>1 DEF LockCas, NoSlot, StartJob, Starts, JobCancelled, JobFails
    <3>2. CASE JobSaves(j)
      BY <1>0, <3>2 DEF JobSaves, Reset
    <3>3. CASE BackoffRead(j)
      <4>1. count'[j] \in 1..MaxFailures
        BY <3>3 DEF BackoffRead, Counted
      <4> QED BY <1>0, <3>3, <4>1 DEF BackoffRead, KeepRow
    <3>4. CASE LoopDoubles(j)
      <4>1. /\ rounds[j] \in 1..count[j] /\ backoff[j] = Exponential[rounds[j]]
            /\ rounds[j] + 1 \in 2..count[j] /\ count[j] \in 0..MaxFailures
        BY <3>4 DEF LoopDoubles
      <4>2. backoff'[j] = 2 * backoff[j]
        BY <3>4, DoubledFits DEF LoopDoubles, LoopBounded
      <4>3. Exponential[rounds[j] + 1] = 2 * Exponential[rounds[j]]
        <5>1. rounds[j] + 1 \in 0..MaxFailures /\ rounds[j] + 1 > 1 /\ (rounds[j] + 1) - 1 = rounds[j]
          BY <4>1
        <5> QED BY <5>1, ExponentialDef
      <4>4. rounds'[j] = rounds[j] + 1 /\ count' = count
        BY <3>4 DEF LoopDoubles
      <4>5. \A i \in Jobs : i # j => rounds'[i] = rounds[i] /\ backoff'[i] = backoff[i]
        BY <3>4 DEF LoopDoubles
      <4> QED BY <3>4, <4>1, <4>2, <4>3, <4>4, <4>5 DEF LoopDoubles, KeepRow
    <3>5. CASE LoopEnds(j)
      <4>1. /\ rounds[j] \in 1..count[j] /\ count[j] \in 0..MaxFailures
            /\ backoff[j] = Exponential[rounds[j]]
            /\ ~(rounds[j] < count[j] /\ BelowMax(backoff[j]))
        BY <3>5 DEF LoopEnds
      <4>2. Capped(backoff[j]) = Capped(Exponential[count[j]])
        BY <4>1, LoopResult
      <4>3. /\ backoff'[j] = Capped(backoff[j]) /\ count' = count
            /\ \A i \in Jobs : i # j => backoff'[i] = backoff[i] /\ rounds'[i] = rounds[i]
                                        /\ pc'[i] = pc[i]
            /\ pc'[j] = "write" /\ UNCHANGED <<failures, until>>
        BY <3>5 DEF LoopEnds, KeepRow
      <4>4. Capped(Exponential[count[j]]) \in Nat
        BY <1>0, <4>1
      <4> QED BY <4>2, <4>3, <4>4
    <3>6. CASE BackoffWrite(j)
      <4>1. /\ failures' = count[j] /\ until' = backoff[j]
            /\ backoff[j] <= Capped(Exponential[count[j]])
            /\ pc'[j] = "idle"
            /\ \A i \in Jobs : i # j => /\ pc'[i] = pc[i] /\ count'[i] = count[i]
                                        /\ rounds'[i] = rounds[i] /\ backoff'[i] = backoff[i]
        BY <3>6 DEF BackoffWrite, NoTimes
      <4> QED BY <4>1
    <3>7. CASE BackoffFails(j)
      BY <3>7 DEF BackoffFails, NoTimes, KeepRow
    <3> QED BY <2>4, <3>1, <3>2, <3>3, <3>4, <3>5, <3>6, <3>7 DEF JobStep
  <2>5. ASSUME NEW on \in BOOLEAN, UpdateDomain(on) PROVE Powers'
    BY <1>0, <2>5 DEF UpdateDomain, Reset
  <2>6. CASE Tick
    <3>1. Capped(Exponential[failures]) \in Nat
      BY <1>0
    <3>2. until' <= Capped(Exponential[failures])
      BY <2>6, <3>1 DEF Tick, Less
    <3>3. ASSUME NEW j \in Jobs, pc[j] = "write" PROVE backoff'[j] <= Capped(Exponential[count[j]])
      <4>1. Capped(Exponential[count[j]]) \in Nat
        BY <1>0
      <4> QED BY <2>6, <3>3, <4>1 DEF Tick, Less
    <3> QED BY <2>6, <3>2, <3>3 DEF Tick
  <2> QED BY <2>2, <2>3, <2>4, <2>5, <2>6 DEF Next
<1> QED BY <1>1, <1>2, BackoffInvariant, PTL DEF Spec

\* For any base and maximum, and any number of failures, the backoff is the base
\* doubled for every failure after the first and capped, with nothing lost to
\* overflow; and a row never has more of it left than its failures ask for.
THEOREM BackoffIsExponential == Spec => []BackoffExponential
<1>1. IInv /\ Powers => BackoffExponential
  BY LoopResult DEF IInv, TypeOK, Powers, BackoffExponential
<1> QED BY <1>1, BackoffInvariant, PowersInvariant, PTL
=============================================================================
