-------------------------- MODULE RateLimiterProofs --------------------------
(***************************************************************************)
(* When a bucket fills up within limiterIdleTTL, an entry that is evicted  *)
(* is full: eviction cannot be told from keeping every bucket for ever.    *)
(* An entry has earned a minute of credit for each minute it was idle.     *)
(***************************************************************************)
EXTENDS RateLimiter, TLAPS

EarnedIdle ==
    \A k \in Keys : entries[k] # Null => entries[k].credit >= AtMost(entries[k].idle, Full)

\* What is older than limiterIdleTTL goes at the next cleanup.
EvictedInTime ==
    \A k \in Keys : entries[k] # Null => entries[k].idle <= limiterIdleTTL + ticker

IInv == TypeOK /\ EarnedIdle /\ EvictedInTime

\* The bucket that CertIssueRateLimitMiddleware makes: whole tokens of a whole
\* number of minutes.
LEMMA BucketSize == Full \in Nat /\ Cost \in Nat /\ Cost <= Full
<1>1. Requests \in Nat /\ Requests >= 1
  BY LimiterAssumption DEF Requests, CertIssueRequestsPerHour
<1>2. Cost \in Nat
  BY <1>1 DEF Cost, Window
<1>3. Burst \in Nat /\ Burst >= 1
  BY <1>1, LimiterAssumption
  DEF Burst, AtMost, certIssueBurst, Requests, CertIssueRequestsPerHour
<1>4. ASSUME NEW b \in Nat, b >= 1, NEW c \in Nat PROVE b * c \in Nat /\ c <= b * c
  <2>1. PICK a \in Nat : b = a + 1
    <3>1. b - 1 \in Nat /\ b = (b - 1) + 1
      BY <1>4
    <3> QED BY <3>1
  <2>2. b * c = a * c + c /\ a * c \in Nat
    BY <2>1
  <2> QED BY <2>2
<1> QED BY <1>2, <1>3, <1>4 DEF Full

\* A request leaves a key with an entry, whether it had one or not.
LEMMA SeenIsEntry ==
    ASSUME NEW k \in Keys, NEW c \in 0..Full
    PROVE  Seen(k, c) \in Entry /\ Seen(k, c) # Null /\ Seen(k, c).credit = c
<1>1. Seen(k, c) \in Entry
  BY DEF Seen, Entry, limiterIdleTTL, limiterCleanupInterval
<1> QED BY <1>1, LimiterAssumption DEF Seen

\* The entries in memory, over every schedule of requests, minutes and cleanups.
LEMMA LimiterInvariant == Spec => []IInv
<1>1. Init => IInv
  BY DEF Init, IInv, TypeOK, EarnedIdle, EvictedInTime, limiterCleanupInterval, Window
<1>2. IInv /\ [Next]_vars => IInv'
  <2> SUFFICES ASSUME IInv, [Next]_vars PROVE IInv'
    OBVIOUS
  <2> USE BucketSize, LimiterAssumption
          DEF limiterIdleTTL, limiterCleanupInterval, Window, Entry
  <2>1. ASSUME NEW k \in Keys, allow(k) PROVE IInv'
    <3>1. Credit(k) \in 0..Full /\ Credit(k) - Cost \in 0..Full
      BY <2>1 DEF allow, Credit, IInv, TypeOK
    <3> QED BY <2>1, <3>1 DEF allow, Seen, IInv, TypeOK, EarnedIdle, EvictedInTime, AtMost
  <2>2. ASSUME NEW k \in Keys, Refuse(k) PROVE IInv'
    <3>1. Credit(k) \in 0..Full
      BY DEF Credit, IInv, TypeOK
    <3> QED BY <2>2, <3>1 DEF Refuse, Seen, IInv, TypeOK, EarnedIdle, EvictedInTime, AtMost
  <2>3. CASE evictStale
    BY <2>3 DEF evictStale, Stale, IInv, TypeOK, EarnedIdle, EvictedInTime
  <2>4. CASE Minute
    BY <2>4 DEF Minute, Refilled, IInv, TypeOK, EarnedIdle, EvictedInTime, AtMost
  <2>5. CASE UNCHANGED vars
    BY <2>5 DEF vars, IInv, TypeOK, EarnedIdle, EvictedInTime
  <2> QED BY <2>1, <2>2, <2>3, <2>4, <2>5 DEF Next
<1> QED BY <1>1, <1>2, PTL DEF Spec

\* The types hold, an entry's age among them: no cleanup is left out.
THEOREM LimiterTypeCorrect == Spec => []TypeOK
<1>1. IInv => TypeOK
  BY DEF IInv
<1> QED BY <1>1, LimiterInvariant, PTL

\* Each user is limited as by a bucket that is never evicted, provided that a
\* bucket fills up while it is idle long enough to be evicted.  The default of
\* ten requests an hour does not provide it.
THEOREM LimiterImplementsBucket ==
    ASSUME Full <= limiterIdleTTL
    PROVE  Spec => BucketSpec
<1> USE BucketSize, LimiterAssumption DEF Entry
<1>1. Init => Bucket!Init
  BY DEF Init, Bucket!Init, Bucket!Full, Full, Credit
<1>2. IInv /\ [Next]_vars => [Bucket!Next]_([k \in Keys |-> Credit(k)])
  <2>0. ASSUME IInv, NEW l \in Keys, entries[l] # Null
        PROVE  /\ entries[l].credit \in 0..Full /\ entries[l].idle \in Nat
               /\ entries[l].credit >= AtMost(entries[l].idle, Full)
    BY <2>0 DEF IInv, TypeOK, EarnedIdle, limiterIdleTTL, limiterCleanupInterval
  <2> SUFFICES ASSUME IInv, [Next]_vars
               PROVE  Bucket!Next \/ [k \in Keys |-> Credit(k)]' = [k \in Keys |-> Credit(k)]
    OBVIOUS
  <2>1. ASSUME NEW k \in Keys, allow(k) PROVE Bucket!Take(k)
    <3>1. Credit(k) - Cost \in 0..Full
      BY <2>0, <2>1 DEF allow, Credit
    <3>2. \A l \in Keys : Credit(l)' = IF l = k THEN Credit(k) - Cost ELSE Credit(l)
      BY <2>1, <3>1, SeenIsEntry DEF allow, Credit, IInv, TypeOK
    <3> QED BY <2>1, <3>2 DEF allow, Bucket!Take
  <2>2. ASSUME NEW k \in Keys, Refuse(k)
        PROVE  [l \in Keys |-> Credit(l)]' = [l \in Keys |-> Credit(l)]
    <3>1. Credit(k) \in 0..Full
      BY <2>0 DEF Credit
    <3>2. \A l \in Keys : Credit(l)' = Credit(l)
      BY <2>2, <3>1, SeenIsEntry DEF Refuse, Credit, IInv, TypeOK
    <3> QED BY <3>2
  <2>3. ASSUME evictStale PROVE [l \in Keys |-> Credit(l)]' = [l \in Keys |-> Credit(l)]
    <3>1. \A l \in Keys : Stale(l) => entries[l].credit = Full
      BY <2>0 DEF Stale, AtMost, limiterIdleTTL
    <3> QED BY <2>3, <3>1 DEF evictStale, Stale, Credit, IInv, TypeOK
  <2>4. ASSUME Minute PROVE Bucket!Earn
    <3>1. ASSUME NEW l \in Keys
          PROVE  Credit(l)' = IF Credit(l) < Full THEN Credit(l) + 1 ELSE Full
      <4>1. CASE entries[l] = Null
        <5>1. entries'[l] = Null
          BY <2>4, <4>1 DEF Minute
        <5> QED BY <4>1, <5>1 DEF Credit
      <4>2. CASE entries[l] # Null
        <5>1. entries'[l] = [credit |-> Refilled(entries[l].credit), idle |-> entries[l].idle + 1]
          BY <2>4, <4>2 DEF Minute
        <5>2. entries'[l] # Null
          <6>1. entries[l].idle + 1 \in 0..(limiterIdleTTL + limiterCleanupInterval)
            BY <2>0, <2>4, <4>2
            DEF Minute, IInv, TypeOK, EvictedInTime, limiterIdleTTL, limiterCleanupInterval
          <6>2. Refilled(entries[l].credit) \in 0..Full
            BY <2>0, <4>2 DEF Refilled, AtMost
          <6>3. entries'[l] \in Entry
            BY <5>1, <6>1, <6>2
          <6> QED BY <6>3
        <5> QED BY <2>0, <4>2, <5>1, <5>2 DEF Credit, Refilled, AtMost
      <4> QED BY <4>1, <4>2
    <3> QED BY <3>1 DEF Bucket!Earn, Bucket!Full, Full
  <2>5. CASE UNCHANGED vars
    BY <2>5 DEF vars, Credit
  <2> QED BY <2>1, <2>2, <2>3, <2>4, <2>5 DEF Next, Bucket!Next
<1> QED BY <1>1, <1>2, LimiterInvariant, PTL DEF Spec, BucketSpec, Bucket!Spec

-----------------------------------------------------------------------------
(* What was admitted was paid for: from a full bucket, from the minutes that *)
(* have passed, or from a gift.  After n gifts, m cleanups have run: three   *)
(* for each gift, and an entry made since has been idle for no longer than   *)
(* the remaining minutes.                                                    *)

Cleanups(m) == clock = limiterCleanupInterval * m + ticker

Gifts(k, n) == entries[k] # Null => 15 * n + entries[k].idle <= clock

Paid(k, n) == Credit(k) + admitted[k] * Cost <= Full + clock + n * Gift

PaidFor == \A k \in Keys : \E m, n \in Nat :
              Cleanups(m) /\ 3 * n <= m /\ Gifts(k, n) /\ Paid(k, n)

LEMMA GiftSize == Gift \in Nat
BY BucketSize DEF Gift, limiterIdleTTL

\* A stale entry holds so much that a full bucket is at most a gift more.
LEMMA StaleHolds ==
    ASSUME IInv, NEW k \in Keys, Stale(k)
    PROVE  /\ Full <= Credit(k) + Gift
           /\ entries[k].idle \in Nat /\ entries[k].idle >= 11
BY BucketSize, LimiterAssumption
DEF Stale, Credit, Gift, AtMost, limiterIdleTTL, limiterCleanupInterval, IInv, TypeOK, EarnedIdle, Entry

\* Whatever happens to another key, or to none, a minute adds at most a minute of
\* credit to an entry.
LEMMA MinuteEarns ==
    ASSUME IInv, Minute, NEW l \in Keys
    PROVE  /\ Credit(l)' \in Nat /\ Credit(l)' <= Credit(l) + 1
           /\ entries[l] = Null => entries'[l] = Null
           /\ entries[l] # Null => entries'[l].idle = entries[l].idle + 1
<1> USE BucketSize, LimiterAssumption DEF Entry
<1>1. CASE entries[l] = Null
  <2>1. entries'[l] = Null
    BY <1>1 DEF Minute
  <2> QED BY BucketSize, <1>1, <2>1 DEF Credit
<1>2. CASE entries[l] # Null
  <2>1. entries'[l] = [credit |-> Refilled(entries[l].credit), idle |-> entries[l].idle + 1]
    BY <1>2 DEF Minute
  <2>2. entries[l].credit \in 0..Full /\ Refilled(entries[l].credit) \in 0..Full
    BY <1>2 DEF Refilled, AtMost, IInv, TypeOK
  <2>3. entries[l].idle + 1 \in 0..(limiterIdleTTL + limiterCleanupInterval)
    BY <1>2 DEF Minute, IInv, TypeOK, EvictedInTime, limiterIdleTTL, limiterCleanupInterval
  <2>4. entries'[l] # Null
    BY <2>1, <2>2, <2>3
  <2> QED BY <1>2, <2>1, <2>2, <2>4 DEF Credit, Refilled, AtMost
<1> QED BY <1>1, <1>2

LEMMA PaidInvariant == Spec => []PaidFor
<1> USE BucketSize, GiftSize, LimiterAssumption
<1>1. Init => PaidFor
  <2> SUFFICES ASSUME Init, NEW k \in Keys
               PROVE  Cleanups(0) /\ 3 * 0 <= 0 /\ Gifts(k, 0) /\ Paid(k, 0)
    BY DEF PaidFor
  <2>1. entries[k] = Null /\ Credit(k) = Full /\ admitted[k] = 0 /\ clock = 0 /\ ticker = 0
    BY DEF Init, Credit
  <2>2. 0 * Cost = 0 /\ 0 * Gift = 0
    OBVIOUS
  <2> QED BY <2>1, <2>2 DEF Cleanups, Gifts, Paid, limiterCleanupInterval
<1>2. IInv /\ PaidFor /\ [Next]_vars => PaidFor'
  <2> SUFFICES ASSUME IInv, PaidFor, [Next]_vars, NEW l \in Keys
               PROVE  \E m, n \in Nat : Cleanups(m)' /\ 3 * n <= m /\ Gifts(l, n)' /\ Paid(l, n)'
    BY DEF PaidFor
  <2> PICK m \in Nat, n \in Nat : Cleanups(m) /\ 3 * n <= m /\ Gifts(l, n) /\ Paid(l, n)
    BY DEF PaidFor
  <2>0. /\ Credit(l) \in 0..Full /\ admitted[l] \in Nat /\ clock \in Nat /\ ticker \in Nat
        /\ admitted[l] * Cost \in Nat /\ n * Gift \in Nat
        /\ entries[l] # Null => entries[l] \in Entry
    <3>1. /\ Credit(l) \in 0..Full /\ admitted[l] \in Nat /\ clock \in Nat /\ ticker \in Nat
          /\ entries[l] # Null => entries[l] \in Entry
      BY DEF IInv, TypeOK, Credit, limiterCleanupInterval, Entry
    <3> QED BY <3>1
  <2>1. ASSUME NEW k \in Keys, allow(k)
        PROVE  Cleanups(m)' /\ Gifts(l, n)' /\ Paid(l, n)'
    <3>1. CASE l = k
      <4>1. Credit(k) - Cost \in 0..Full
        BY <2>0, <2>1, <3>1 DEF allow
      <4>2. entries'[l] = Seen(l, Credit(l) - Cost)
        BY <2>1, <3>1 DEF allow, IInv, TypeOK
      <4>3. Credit(l)' = Credit(l) - Cost /\ entries'[l].idle = 0
        BY <3>1, <4>1, <4>2, SeenIsEntry DEF Credit, Seen
      <4>4. admitted'[l] = admitted[l] + 1 /\ clock' = clock /\ ticker' = ticker
        BY <2>1, <3>1 DEF allow, IInv, TypeOK
      <4>5. (admitted[l] + 1) * Cost = admitted[l] * Cost + Cost
        BY <2>0
      <4>6. 15 * n <= clock
        BY <2>0 DEF Cleanups, limiterCleanupInterval
      <4>7. Paid(l, n)'
        BY <2>0, <4>3, <4>4, <4>5 DEF Paid
      <4> QED BY <2>0, <4>3, <4>4, <4>6, <4>7 DEF Cleanups, Gifts
    <3>2. CASE l # k
      <4>1. entries'[l] = entries[l] /\ admitted'[l] = admitted[l]
        BY <2>1, <3>2 DEF allow, IInv, TypeOK
      <4>2. clock' = clock /\ ticker' = ticker /\ Credit(l)' = Credit(l)
        BY <2>1, <4>1 DEF allow, Credit
      <4> QED BY <4>1, <4>2 DEF Cleanups, Gifts, Paid
    <3> QED BY <3>1, <3>2
  <2>2. ASSUME NEW k \in Keys, Refuse(k)
        PROVE  Cleanups(m)' /\ Gifts(l, n)' /\ Paid(l, n)'
    <3>1. admitted' = admitted /\ clock' = clock /\ ticker' = ticker
      BY <2>2 DEF Refuse
    <3>2. CASE l = k
      <4>1. entries'[l] = Seen(l, Credit(l))
        BY <2>2, <3>2 DEF Refuse, IInv, TypeOK
      <4>2. Credit(l)' = Credit(l) /\ entries'[l].idle = 0
        BY <2>0, <3>2, <4>1, SeenIsEntry DEF Credit, Seen
      <4>3. 15 * n <= clock
        BY <2>0 DEF Cleanups, limiterCleanupInterval
      <4> QED BY <2>0, <3>1, <4>2, <4>3 DEF Cleanups, Gifts, Paid
    <3>3. CASE l # k
      <4>1. entries'[l] = entries[l]
        BY <2>2, <3>3 DEF Refuse, IInv, TypeOK
      <4>2. Credit(l)' = Credit(l)
        BY <4>1 DEF Credit
      <4> QED BY <3>1, <4>1, <4>2 DEF Cleanups, Gifts, Paid
    <3> QED BY <3>2, <3>3
  <2>3. ASSUME evictStale, ~ Stale(l)
        PROVE  Cleanups(m + 1)' /\ 3 * n <= m + 1 /\ Gifts(l, n)' /\ Paid(l, n)'
    <3>1. /\ entries'[l] = entries[l] /\ admitted' = admitted /\ clock' = clock
          /\ ticker = 5 /\ ticker' = 0
      BY <2>3 DEF evictStale, limiterCleanupInterval
    <3>2. Credit(l)' = Credit(l)
      BY <3>1 DEF Credit
    <3> QED BY <2>0, <3>1, <3>2 DEF Cleanups, Gifts, Paid, limiterCleanupInterval
  <2>4. ASSUME evictStale, Stale(l)
        PROVE  Cleanups(m + 1)' /\ 3 * (n + 1) <= m + 1 /\ Gifts(l, n + 1)' /\ Paid(l, n + 1)'
    <3>1. /\ entries'[l] = Null /\ admitted' = admitted /\ clock' = clock
          /\ ticker = 5 /\ ticker' = 0
      BY <2>4 DEF evictStale, limiterCleanupInterval
    <3>2. Credit(l)' = Full /\ Full <= Credit(l) + Gift
      BY <2>4, <3>1, StaleHolds DEF Credit
    <3>3. 15 * n + 11 <= 5 * (m + 1)
      BY <2>0, <2>4, <3>1, StaleHolds DEF Gifts, Cleanups, Stale, limiterCleanupInterval
    <3>4. (n + 1) * Gift = n * Gift + Gift
      OBVIOUS
    <3>5. Paid(l, n + 1)'
      BY <2>0, <3>1, <3>2, <3>4 DEF Paid
    <3> QED BY <2>0, <3>1, <3>3, <3>5 DEF Cleanups, Gifts, limiterCleanupInterval
  <2>5. ASSUME Minute PROVE Cleanups(m)' /\ Gifts(l, n)' /\ Paid(l, n)'
    <3>1. admitted' = admitted /\ clock' = clock + 1 /\ ticker' = ticker + 1
      BY <2>5 DEF Minute
    <3>2. Gifts(l, n)'
      BY <2>0, <2>5, <3>1, MinuteEarns DEF Gifts, Entry, limiterIdleTTL, limiterCleanupInterval
    <3>4. Paid(l, n)'
      BY <2>0, <2>5, <3>1, MinuteEarns DEF Paid
    <3> QED BY <2>0, <3>1, <3>2, <3>4 DEF Cleanups, limiterCleanupInterval
  <2>6. CASE UNCHANGED vars
    BY <2>0, <2>6 DEF vars, Credit, Cleanups, Gifts, Paid
  <2>7. m + 1 \in Nat /\ n + 1 \in Nat
    OBVIOUS
  <2> QED BY <2>1, <2>2, <2>3, <2>4, <2>5, <2>6, <2>7 DEF Next
<1> QED BY <1>1, <1>2, LimiterInvariant, PTL DEF Spec

\* a purchases at a price of c, from the price of b and t besides.
LEMMA Affordable ==
    ASSUME NEW a \in Nat, NEW b \in Nat, NEW c \in Nat, NEW t \in Nat,
           c >= 1, a * c <= b * c + t
    PROVE  a <= b + t \div c
<1> DEFINE q == t \div c
<1>1. q \in Nat /\ t < (q + 1) * c
  <2>1. q \in Int /\ t = (c * q) + (t % c) /\ t % c \in 0..(c - 1)
    OBVIOUS
  <2> QED BY <2>1
<1> HIDE DEF q
<1>2. a * c < (b + q + 1) * c
  <2>1. (b + q + 1) * c = b * c + (q + 1) * c
    BY <1>1
  <2> QED BY <1>1, <2>1
<1>3. a < b + q + 1
  <2> SUFFICES ASSUME a >= b + q + 1 PROVE FALSE
    BY <1>1
  <2>1. PICK d \in Nat : a = (b + q + 1) + d
    <3>1. a - (b + q + 1) \in Nat /\ a = (b + q + 1) + (a - (b + q + 1))
      BY <1>1
    <3> QED BY <3>1
  <2>2. a * c = (b + q + 1) * c + d * c /\ d * c >= 0
    BY <1>1, <2>1
  <2> QED BY <1>1, <1>2, <2>2
<1> QED BY <1>1, <1>3 DEF q

\* For every setting, the default among them, a user is admitted the burst, the
\* rate, and a gift for each cleanup period in which an eviction can happen.
THEOREM AdmittedIsBounded == Spec => []AdmittedBound
<1>1. IInv /\ PaidFor => AdmittedBound
  <2> SUFFICES ASSUME IInv, PaidFor, NEW k \in Keys
               PROVE  admitted[k] <= Burst + (clock + Evictions * Gift) \div Cost
    BY DEF AdmittedBound
  <2> USE BucketSize, GiftSize
  <2>1. Requests \in Nat /\ Cost >= 1
    <3>1. Requests \in Nat
      BY LimiterAssumption DEF Requests, CertIssueRequestsPerHour
    <3> QED BY <3>1, LimiterAssumption DEF Window
  <2>2. Burst \in Nat
    BY LimiterAssumption DEF Burst, AtMost, certIssueBurst, Requests, CertIssueRequestsPerHour
  <2>3. admitted[k] \in Nat /\ clock \in Nat /\ ticker \in Nat /\ Credit(k) \in Nat
    BY DEF IInv, TypeOK, Entry, Credit, limiterCleanupInterval
  <2>4. PICK m \in Nat, n \in Nat : Cleanups(m) /\ 3 * n <= m /\ Paid(k, n)
    BY DEF PaidFor
  <2>5. n <= Evictions /\ Evictions \in Nat
    <3>1. 15 * n <= clock
      BY <2>3, <2>4 DEF Cleanups, limiterCleanupInterval
    <3> QED BY <2>3, <3>1 DEF Evictions, limiterIdleTTL, limiterCleanupInterval
  <2>6. n * Gift <= Evictions * Gift /\ n * Gift \in Nat /\ Evictions * Gift \in Nat
    <3>1. PICK d \in Nat : Evictions = n + d
      <4>1. Evictions - n \in Nat /\ Evictions = n + (Evictions - n)
        BY <2>5
      <4> QED BY <4>1
    <3>2. (n + d) * Gift = n * Gift + d * Gift /\ n * Gift \in Nat /\ d * Gift \in Nat
      OBVIOUS
    <3> QED BY <3>1, <3>2
  <2>7. admitted[k] * Cost <= Burst * Cost + (clock + Evictions * Gift)
    <3>1. admitted[k] * Cost \in Nat
      BY <2>3
    <3> QED BY <2>2, <2>3, <2>4, <2>6, <3>1 DEF Paid, Full
  <2>8. clock + Evictions * Gift \in Nat
    BY <2>3, <2>6
  <2> QED BY <2>1, <2>2, <2>3, <2>7, <2>8, Affordable
<1> QED BY <1>1, LimiterInvariant, PaidInvariant, PTL
=============================================================================
