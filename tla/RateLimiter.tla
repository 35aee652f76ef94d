----------------------------- MODULE RateLimiter -----------------------------
(***************************************************************************)
(* The per-user limiter of the certificate endpoints                       *)
(* (middleware/ratelimit.go, middleware/cert_issue_ratelimit.go): a bucket *)
(* of golang.org/x/time/rate per key, made when the key is first seen and  *)
(* evicted when the key is idle.  Time is counted in minutes.              *)
(* Names Bug... are mistakes the properties must detect.                   *)
(***************************************************************************)
EXTENDS Integers

CONSTANTS
    Keys,               \* users
    CertIssuePerHour,   \* the setting
    Null

Window == 60
limiterIdleTTL == 10
limiterCleanupInterval == 5

-----------------------------------------------------------------------------
(* From the setting to the bucket *)

CertIssueRateLimitEnabled == CertIssuePerHour # -1

CertIssueRequestsPerHour ==
    IF CertIssuePerHour < 0 THEN 0 ELSE IF CertIssuePerHour = 0 THEN 10 ELSE CertIssuePerHour

AtMost(n, m) == IF n <= m THEN n ELSE m

certIssueBurst(limit) == IF limit <= 1 THEN 1 ELSE AtMost(limit, 3)

\* newKeyedRateLimiter
Requests == IF CertIssueRequestsPerHour <= 0 THEN 1 ELSE CertIssueRequestsPerHour
Burst == AtMost(certIssueBurst(CertIssueRequestsPerHour), Requests)

\* The minutes a token takes.
Cost == Window \div Requests
Full == Burst * Cost

\* credit: the limiter's tokens in minutes; idle: the age of lastSeen.
Entry == [credit : 0..Full, idle : 0..(limiterIdleTTL + limiterCleanupInterval)]

\* Whole minutes per token, to count in.
ASSUME LimiterAssumption ==
    /\ CertIssuePerHour \in Int
    /\ CertIssueRateLimitEnabled
    /\ Requests * Cost = Window
    /\ Null \notin Entry

-----------------------------------------------------------------------------
VARIABLES
    entries,    \* keyedRateLimiter.entries: Null or a limiter and lastSeen
    ticker,     \* minutes since the last cleanup
    clock,      \* minutes observed, up to the hour
    admitted    \* requests admitted in them

vars == <<entries, ticker, clock, admitted>>

Init ==
    /\ entries = [k \in Keys |-> Null]
    /\ ticker = 0
    /\ clock = 0
    /\ admitted = [k \in Keys |-> 0]

Credit(k) == IF entries[k] = Null THEN Full ELSE entries[k].credit

\* lastSeen is the time of the entry's creation.
BugSeen(k, c) == [credit |-> c, idle |-> IF entries[k] = Null THEN 0 ELSE entries[k].idle]

Seen(k, c) == [credit |-> c, idle |-> 0]

allow(k) ==
    /\ Credit(k) >= Cost
    /\ entries' = [entries EXCEPT ![k] = Seen(k, Credit(k) - Cost)]
    /\ admitted' = [admitted EXCEPT ![k] = @ + 1]
    /\ UNCHANGED <<ticker, clock>>

\* The answer is 429; lastSeen is set all the same.
Refuse(k) ==
    /\ Credit(k) < Cost
    /\ entries' = [entries EXCEPT ![k] = Seen(k, Credit(k))]
    /\ UNCHANGED <<ticker, clock, admitted>>

\* Every entry goes at each cleanup.
BugStale(k) == entries[k] # Null

Stale(k) == entries[k] # Null /\ entries[k].idle > limiterIdleTTL

evictStale ==
    /\ ticker = limiterCleanupInterval
    /\ ticker' = 0
    /\ entries' = [k \in Keys |-> IF Stale(k) THEN Null ELSE entries[k]]
    /\ UNCHANGED <<clock, admitted>>

Refilled(c) == AtMost(c + 1, Full)

\* A cleanup that is due goes first.
Minute ==
    /\ ticker < limiterCleanupInterval
    /\ clock < Window
    /\ clock' = clock + 1
    /\ ticker' = ticker + 1
    /\ entries' = [k \in Keys |-> IF entries[k] = Null THEN Null
                                  ELSE [credit |-> Refilled(entries[k].credit),
                                        idle |-> entries[k].idle + 1]]
    /\ UNCHANGED admitted

Next ==
    \/ \E k \in Keys : allow(k) \/ Refuse(k)
    \/ evictStale
    \/ Minute

Spec == Init /\ [][Next]_vars

-----------------------------------------------------------------------------
(* Properties *)

TypeOK ==
    /\ entries \in [Keys -> Entry \union {Null}]
    /\ ticker \in 0..limiterCleanupInterval
    /\ clock \in 0..Window
    /\ admitted \in [Keys -> Nat]

Bucket == INSTANCE TokenBucket WITH credit <- [k \in Keys |-> Credit(k)]

\* Each key is served as by a bucket of its own that is never evicted: the
\* eviction, and the entry made afterwards, give nobody a token.
BucketSpec == Bucket!Spec

\* An eviction gives a full bucket for one that was idle for limiterIdleTTL.
Gift == IF Full <= limiterIdleTTL THEN 0 ELSE Full - limiterIdleTTL

\* After an eviction a key is seen again, is idle for longer than limiterIdleTTL,
\* and waits for the next cleanup.
Evictions == clock \div (limiterIdleTTL + limiterCleanupInterval)

\* A key is admitted its burst and then its rate, and what evictions can give
\* it: nothing when a bucket fills up within limiterIdleTTL.
AdmittedBound ==
    \A k \in Keys : admitted[k] <= Burst + (clock + Evictions * Gift) \div Cost

\* "limits manual certificate issue/renew requests per authenticated user per
\* hour".
HourlyCap == \A k \in Keys : admitted[k] <= CertIssueRequestsPerHour
=============================================================================
