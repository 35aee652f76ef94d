---------------------------- MODULE RenewBackoff ----------------------------
(***************************************************************************)
(* Automatic renewal of one domain and its backoff: the scheduler's scan   *)
(* (controllers/renewal_scheduler.go) reads a row, verifies the CNAME and   *)
(* locks; the job's failure (controllers/certificate.go) gives the row     *)
(* back first and counts the failure afterwards, in a read, a loop         *)
(* (config/config.go) and an update.  Users renew by hand and switch       *)
(* auto_renew meanwhile.                                                   *)
(*                                                                         *)
(* The takeover of a lock after generating_timeout is CertLifecycle's      *)
(* matter: no wait here takes that long.  Names Bug... are mistakes the    *)
(* properties must detect.                                                 *)
(***************************************************************************)
EXTENDS Integers

CONSTANTS
    Jobs,               \* certificate operations under way at a time
    RenewBackoffBase,   \* renew_backoff_base, in ticks
    RenewBackoffMax,    \* renew_backoff_max
    MaxDuration,        \* the largest time.Duration
    MaxFailures,        \* bound: failures counted
    MaxCrashes,         \* bound: restarts of the server
    Events              \* which of "update", "cname", "fault" occur

\* The configuration checks none of this.  Both durations are positive, and the
\* last value below the maximum can be doubled (a maximum below 146 years).
ASSUME BackoffAssumption ==
    /\ RenewBackoffBase \in Nat \ {0} /\ RenewBackoffMax \in Nat \ {0}
    /\ MaxDuration \in Nat
    /\ RenewBackoffBase <= MaxDuration /\ 2 * (RenewBackoffMax - 1) <= MaxDuration
    /\ MaxFailures \in Nat \ {0} /\ MaxCrashes \in Nat
    /\ Events \subseteq {"update", "cname", "fault"}
    /\ {"idle", "verify"} \intersect Jobs = {}

VARIABLES
    status,     \* domains.status
    autoRenew,  \* domains.auto_renew
    failures,   \* domains.auto_renew_failures
    until,      \* time left to auto_renew_backoff_until: 0 when NULL or past
    due,        \* the certificate expires within renew_before_days
    pc,         \* where an operation is
    auto,       \* the operation is an automatic renewal
    count,      \* the new number of failures it is about to write
    rounds,     \* the loop variable of AutoRenewBackoffDuration
    backoff,    \* its other variable, then the time left to the new until
    scan,       \* the scheduler: "idle", "verify", or the operation it is at
    crashes,
    streak,     \* history: failures of automatic renewals since the last success
                \* or reset
    early,      \* history: automatic renewals started within the backoff
    overlap     \* history: the last reset fell between a failure and the update
                \* that counts it

rowVars  == <<status, autoRenew, failures, until>>
loopVars == <<count, rounds, backoff>>
histVars == <<streak, early, overlap>>
vars == <<rowVars, due, pc, auto, loopVars, scan, crashes, histVars>>

Init ==
    /\ status = "active" /\ autoRenew = TRUE
    /\ failures = 0 /\ until = 0
    /\ due = TRUE
    /\ pc = [j \in Jobs |-> "idle"]
    /\ auto = [j \in Jobs |-> FALSE]
    /\ count = [j \in Jobs |-> 0] /\ rounds = [j \in Jobs |-> 0]
    /\ backoff = [j \in Jobs |-> 0]
    /\ scan = "idle"
    /\ crashes = 0
    /\ streak = 0 /\ early = 0 /\ overlap = FALSE

Goto(j, from, to) ==
    /\ pc[j] = from
    /\ pc' = [pc EXCEPT ![j] = to]

\* From the registration of the job to the end of runCertJob.
Running == {"work", "read", "loop", "write"}

inflight == \E j \in Jobs : pc[j] \in Running

KeepRow == UNCHANGED <<rowVars, due, histVars>>
KeepJobs == UNCHANGED <<pc, auto, loopVars>>

Counted(n) == IF n < MaxFailures THEN n + 1 ELSE n

-----------------------------------------------------------------------------
(* runRenewalScan and tryAutoRenewDomain *)

\* The backoff is not looked at.
BugEligible == status # "generating" /\ autoRenew

\* A row that failed before the first renewal is retried when its time has come.
BugEligibleOnce == status # "generating" /\ autoRenew /\ failures = 0

\* Neither pending nor verified occurs: the domain has a certificate.
Eligible == status # "generating" /\ autoRenew /\ until = 0

ScanRead ==
    /\ scan = "idle"
    /\ due /\ Eligible
    /\ scan' = "verify"
    /\ UNCHANGED crashes /\ KeepRow /\ KeepJobs

ScanRefused ==
    /\ scan = "verify"
    /\ "cname" \in Events \/ inflight
    /\ scan' = "idle"
    /\ UNCHANGED crashes /\ KeepRow /\ KeepJobs

\* Into lockDomainForCertJob, by the row read before the lookup.
ScanLocks(j) ==
    /\ scan = "verify"
    /\ ~inflight
    /\ Goto(j, "idle", "lock")
    /\ auto' = [auto EXCEPT ![j] = TRUE]
    /\ scan' = j
    /\ UNCHANGED <<loopVars, crashes>> /\ KeepRow

\* tryAutoRenewDomain has returned.
ScanResumes ==
    /\ scan \in Jobs
    /\ pc[scan] = "idle" \/ pc[scan] \in Running
    /\ scan' = "idle"
    /\ UNCHANGED crashes /\ KeepRow /\ KeepJobs

\* The renew endpoint, up to the check of in-flight jobs.
RenewCertificate(j) ==
    /\ ~inflight
    /\ Goto(j, "idle", "lock")
    /\ auto' = [auto EXCEPT ![j] = FALSE]
    /\ UNCHANGED <<loopVars, scan, crashes>> /\ KeepRow

LockCas(j) ==
    /\ Goto(j, "lock", IF status = "generating" THEN "idle" ELSE "begin")
    /\ status' = "generating"
    /\ UNCHANGED <<autoRenew, failures, until, due, auto, loopVars, scan, crashes, histVars>>

\* No slot: rollbackGeneratingDomain, which finds the certificate.
NoSlot(j) ==
    /\ Goto(j, "begin", "idle")
    /\ status' = "active"
    /\ UNCHANGED <<autoRenew, failures, until, due, auto, loopVars, scan, crashes, histVars>>

Starts(j) ==
    /\ Goto(j, "begin", "work")
    /\ early' = IF auto[j] /\ until > 0 THEN early + 1 ELSE early
    /\ UNCHANGED <<rowVars, due, auto, loopVars, scan, crashes, streak, overlap>>

\* The worker of the job before is not waited for.
BugStartJob(j) == Starts(j)

\* beginCertJob waits for the worker of the job before.
StartJob(j) == ~inflight /\ Starts(j)

-----------------------------------------------------------------------------
(* runCertJob *)

Reset == failures' = 0 /\ until' = 0 /\ streak' = 0 /\ early' = 0

JobSaves(j) ==
    /\ Goto(j, "work", "idle")
    /\ status' = "active"
    /\ due' = FALSE
    /\ Reset /\ overlap' = FALSE
    /\ UNCHANGED <<autoRenew, auto, loopVars, scan, crashes>>

\* rollbackCancelledCertJob
JobCancelled(j) ==
    /\ Goto(j, "work", "idle")
    /\ status' = "active"
    /\ UNCHANGED <<autoRenew, failures, until, due, auto, loopVars, scan, crashes, histVars>>

\* setDomainError, or setDomainAutoRenewFailure where the certificate is found.
JobFails(j) ==
    /\ Goto(j, "work", IF auto[j] THEN "read" ELSE "idle")
    /\ status' \in IF ~auto[j] THEN {"error"}
                   ELSE IF "fault" \in Events THEN {"active", "error"} ELSE {"active"}
    /\ streak' = IF auto[j] THEN Counted(streak) ELSE streak
    /\ UNCHANGED <<autoRenew, failures, until, due, auto, loopVars, scan, crashes, early, overlap>>

-----------------------------------------------------------------------------
(* scheduleAutoRenewBackoff and AutoRenewBackoffDuration *)

Duration(x) == IF x > MaxDuration THEN x - 2 * (MaxDuration + 1) ELSE x

NoTimes(j) ==
    /\ count' = [count EXCEPT ![j] = 0]
    /\ rounds' = [rounds EXCEPT ![j] = 0]
    /\ backoff' = [backoff EXCEPT ![j] = 0]

BackoffRead(j) ==
    /\ Goto(j, "read", "loop")
    /\ count' = [count EXCEPT ![j] = Counted(failures)]
    /\ rounds' = [rounds EXCEPT ![j] = 1]
    /\ backoff' = [backoff EXCEPT ![j] = RenewBackoffBase]
    /\ UNCHANGED <<auto, scan, crashes>> /\ KeepRow

\* Only the result is compared with the maximum.
BugBelowMax(b) == TRUE

BelowMax(b) == b < RenewBackoffMax

LoopDoubles(j) ==
    /\ pc[j] = "loop"
    /\ rounds[j] < count[j] /\ BelowMax(backoff[j])
    /\ rounds' = [rounds EXCEPT ![j] = @ + 1]
    /\ backoff' = [backoff EXCEPT ![j] = Duration(2 * @)]
    /\ UNCHANGED <<pc, auto, count, scan, crashes>> /\ KeepRow

\* The value is stored as it is.
BugCapped(b) == b

Capped(b) == IF b > RenewBackoffMax THEN RenewBackoffMax ELSE b

\* time.Now() is taken here.
LoopEnds(j) ==
    /\ Goto(j, "loop", "write")
    /\ rounds[j] >= count[j] \/ ~BelowMax(backoff[j])
    /\ rounds' = [rounds EXCEPT ![j] = 0]
    /\ backoff' = [backoff EXCEPT ![j] = Capped(@)]
    /\ UNCHANGED <<auto, count, scan, crashes>> /\ KeepRow

BackoffWrite(j) ==
    /\ Goto(j, "write", "idle")
    /\ failures' = count[j]
    /\ until' = backoff[j]
    /\ early' = 0
    /\ NoTimes(j)
    /\ UNCHANGED <<status, autoRenew, due, auto, scan, crashes, streak, overlap>>

\* A failing statement, of either kind, is logged.
BackoffFails(j) ==
    /\ "fault" \in Events
    /\ \E from \in {"read", "write"} : Goto(j, from, "idle")
    /\ NoTimes(j)
    /\ UNCHANGED <<auto, scan, crashes>> /\ KeepRow

JobStep(j) ==
    \/ LockCas(j) \/ NoSlot(j) \/ StartJob(j)
    \/ JobSaves(j) \/ JobCancelled(j) \/ JobFails(j)
    \/ BackoffRead(j) \/ LoopDoubles(j) \/ LoopEnds(j) \/ BackoffWrite(j) \/ BackoffFails(j)

-----------------------------------------------------------------------------
(* The user, the clock, restarts *)

\* The failure of a job is on its way into the row.
Counting == \E j \in Jobs : pc[j] \in {"read", "loop", "write"}

UpdateDomain(on) ==
    /\ "update" \in Events
    /\ autoRenew' = on
    /\ IF on THEN Reset /\ overlap' = Counting ELSE UNCHANGED <<failures, until, histVars>>
    /\ UNCHANGED <<status, due, pc, auto, loopVars, scan, crashes>>

Less(t) == IF t > 0 THEN t - 1 ELSE 0

Tick ==
    /\ until' = Less(until)
    /\ backoff' = [j \in Jobs |-> IF pc[j] = "write" THEN Less(backoff[j]) ELSE backoff[j]]
    /\ UNCHANGED <<status, autoRenew, failures, due, pc, auto, count, rounds, scan, crashes, histVars>>

Expires ==
    /\ due' = TRUE
    /\ UNCHANGED <<rowVars, pc, auto, loopVars, scan, crashes, histVars>>

Crash ==
    /\ crashes < MaxCrashes
    /\ crashes' = crashes + 1
    /\ pc' = [j \in Jobs |-> "idle"]
    /\ auto' = [j \in Jobs |-> FALSE]
    /\ count' = [j \in Jobs |-> 0] /\ rounds' = [j \in Jobs |-> 0]
    /\ backoff' = [j \in Jobs |-> 0]
    /\ scan' = "idle"
    /\ KeepRow

\* runStuckGeneratingCleanup, for a row nobody works on.
Cleanup ==
    /\ scan = "idle"
    /\ status = "generating" /\ \A j \in Jobs : pc[j] = "idle"
    /\ status' = "active"
    /\ UNCHANGED <<autoRenew, failures, until, due, scan, crashes, histVars>> /\ KeepJobs

SchedulerStep == ScanRead \/ ScanRefused \/ (\E j \in Jobs : ScanLocks(j)) \/ ScanResumes \/ Cleanup

Next ==
    \/ SchedulerStep
    \/ \E j \in Jobs : RenewCertificate(j) \/ JobStep(j)
    \/ \E on \in BOOLEAN : UpdateDomain(on)
    \/ Tick \/ Expires \/ Crash

Spec == Init /\ [][Next]_vars

\* The scheduler's ticks, goroutines and time go on, and a CNAME that is looked
\* up again and again is found.
Fairness ==
    /\ WF_vars(SchedulerStep)
    /\ SF_vars(\E j \in Jobs : ScanLocks(j))
    /\ \A j \in Jobs : WF_vars(JobStep(j))
    /\ WF_vars(Tick)

FairSpec == Spec /\ Fairness

-----------------------------------------------------------------------------
(* Properties *)

PCs == {"idle", "lock", "begin"} \union Running

TypeOK ==
    /\ status \in {"active", "generating", "error"}
    /\ autoRenew \in BOOLEAN /\ due \in BOOLEAN
    /\ failures \in 0..MaxFailures /\ streak \in 0..MaxFailures
    /\ until \in Nat /\ early \in Nat /\ overlap \in BOOLEAN
    /\ pc \in [Jobs -> PCs]
    /\ auto \in [Jobs -> BOOLEAN]
    /\ count \in [Jobs -> 0..MaxFailures] /\ rounds \in [Jobs -> 0..MaxFailures]
    /\ backoff \in [Jobs -> Int]
    /\ scan \in {"idle", "verify"} \union Jobs
    /\ crashes \in 0..MaxCrashes

\* What n failures ask for where nothing is capped and no integer ends.
Exponential[n \in 0..MaxFailures] ==
    IF n <= 1 THEN RenewBackoffBase ELSE 2 * Exponential[n - 1]

\* renew_backoff_max, "cap for exponential backoff": the loop, which stops early
\* and doubles a time.Duration, ends with the capped power for any number of
\* failures; and the columns of the row, written after it, agree: the backoff
\* that is left is one its failures ask for.
BackoffExponential ==
    /\ until <= Capped(Exponential[failures])
    /\ \A j \in Jobs : pc[j] = "loop" /\ ~(rounds[j] < count[j] /\ BelowMax(backoff[j]))
           => Capped(backoff[j]) = Capped(Exponential[count[j]])

\* "consecutive auto-renewal failures": the column says more than have happened
\* since the last success or reset only if a user's reset fell between a failure
\* and the update that counts it: a success never does, although a failure is
\* counted after its job has given the row back.
CountsConsecutive == overlap \/ failures <= streak

\* "skip auto-renewal until this time": a scan that read the row before the
\* backoff was written renews all the same, but only that one does.
EarlyOnce == early <= 1

\* A certificate that is due is renewed, or tried again, in the end, as long as
\* the user leaves auto_renew on, however many renewals have failed.
Retried == due /\ autoRenew ~> status = "generating" \/ ~due \/ ~autoRenew

\* ... and none does.
BackoffKept == early = 0

\* Switching auto_renew on resets the failures, also the one being counted.
ResetKept == failures <= streak
=============================================================================
