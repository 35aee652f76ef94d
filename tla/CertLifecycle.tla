---------------------------- MODULE CertLifecycle ----------------------------
(***************************************************************************)
(* The life of a certificate operation, from the request (or the renewal   *)
(* scan) to the row its job leaves in the database:                        *)
(*   controllers/certificate_api.go   the issue and renew endpoints        *)
(*   controllers/certificate.go       beginCertOperation, runCertJob       *)
(*   controllers/renewal_scheduler.go lock, rollback, scan, cleanup        *)
(*   controllers/cname.go             POST /cname/verify                   *)
(*   services/lego.go                 the detached ACME goroutine          *)
(*                                                                         *)
(* Processes are the operations (a handler, then its job goroutine) and    *)
(* the scheduler goroutine.  One database statement, one critical section  *)
(* of certJobs.mu or one external call is one step; local values read in   *)
(* one step and used in a later one are kept in `local`.  The in-memory    *)
(* bookkeeping is CertJobRegistry: each step here is one of its steps or   *)
(* leaves its variables alone.                                             *)
(*                                                                         *)
(* Columns nobody's control flow depends on here (error_message, backoff   *)
(* counters) are left out, and a failure the code only answers is the end  *)
(* of the operation.  Definitions named Bug... are mistakes the properties  *)
(* must detect, as in CertJobRegistry.                                     *)
(***************************************************************************)
EXTENDS CertJobRegistry

CONSTANTS
    Kinds,          \* which of "issue", "renew", "auto" occur
    VerifyDomains,  \* the domains whose owner may POST /cname/verify
    InitStatus,     \* status of the domain rows when the server starts
    MaxLag,         \* bound: ticks a handler may spend inside the lock window
    MaxCrashes,     \* bound: crashes of the server
    MaxFaults,      \* bound: failing database statements
    Null,           \* SQL NULL
    Scheduler       \* the goroutine of StartRenewalScheduler

ASSUME LifecycleAssumption ==
    /\ Kinds \subseteq {"issue", "renew", "auto"}
    /\ VerifyDomains \subseteq Domains
    /\ InitStatus \subseteq {"pending", "verified", "active", "error"}
    /\ MaxLag \in Nat /\ MaxCrashes \in Nat /\ MaxFaults \in Nat
    /\ Null \notin Nat
    /\ Scheduler \notin Ops

VARIABLES
    status,     \* domains.status
    since,      \* the age of domains.generating_since, or Null
    verifiedAt, \* domains.cname_verified_at is set
    cert,       \* the domain has a row in certificates
    pc,         \* where a process is
    kind,       \* "issue": renew = FALSE; "renew": renew; "auto": autoRenew too
    local,      \* values a process has read
    lag,        \* ticks since a lockDomainForCertJob took time.Now()
    timer,      \* ticks since a process began a waitDomainWorker
    acme,       \* the goroutine of runACMEWithContext, and its result
    todo,       \* the rows the scheduler's query returned, not yet handled
    current,    \* the domain, or the operation, the scheduler is busy with
    crashes, faults

rowVars   == <<status, since, verifiedAt, cert>>
schedVars == <<todo, current>>
envVars   == <<crashes, faults>>
vars == <<registryVars, rowVars, pc, kind, local, lag, timer, acme, schedVars, envVars>>

Procs == Ops \union {Scheduler}

-----------------------------------------------------------------------------
(* Rows and local values *)

Statuses == {"pending", "verified", "generating", "active", "error"}

\* Beyond this age a generating_since is stale for every pending comparison.
MaxSince == GeneratingTimeout + MaxLag + 1

\* What a process has read and still needs: that the row's status was verified,
\* that its lock was stale, that cname_verified_at was set, that a certificate
\* row exists.
Blank == [ready |-> FALSE, stale |-> FALSE, verified |-> FALSE, cert |-> FALSE]

\* The comparison with the cutoff is turned round.
BugStaleSince(d, l) == since[d] # Null /\ since[d] < GeneratingTimeout + l

\* generating_since IS NULL OR generating_since < now - generating_timeout,
\* for a `now` taken l ticks ago.
StaleSince(d, l) == since[d] = Null \/ since[d] > GeneratingTimeout + l

Stale(d) == status[d] = "generating" /\ StaleSince(d, 0)

DomainFor(p) == IF p = Scheduler THEN current ELSE DomainOf[p]

\* The labels from which a handler or a job returns.
HandlerPCs ==
    {"load", "exists", "cname", "recheck", "mark", "lockCert", "lockRead",
     "lockInflight", "lockCancel", "lockWait", "lockCas", "lockUser",
     "lockUserErr", "slot", "begin"}
JobPCs ==
    {"jobStart", "jobCname", "jobCert", "jobAcme", "jobWait", "jobErr", "jobCtx",
     "jobActive", "save", "failCheck", "failCert", "failSet", "cancelActive",
     "cancelInflight", "return", "rolledBack"}
RollbackPCs  == {"rbRead", "rbCert", "rbWrite"}
SchedulerPCs == {"scan", "scanOp", "clean", "cleanCancel", "cleanWait", "stuck"}
PCs == {"idle", "done"} \union HandlerPCs \union JobPCs \union RollbackPCs \union SchedulerPCs

\* Between time.Now() in lockDomainForCertJob and the update that stores it.
LockWindow == {"lockInflight", "lockCancel", "lockWait", "lockCas"}

Goto(p, from, to) ==
    /\ pc[p] = from
    /\ pc' = [pc EXCEPT ![p] = to]

Remember(p, field, value) == local' = [local EXCEPT ![p][field] = value]
Forget(p) == local' = [local EXCEPT ![p] = Blank]

\* Steps that change only the process itself.
Quiet == UNCHANGED <<registryVars, rowVars, kind, lag, timer, acme, schedVars, envVars>>

-----------------------------------------------------------------------------
(* A database server full of rows, a server process that has just started *)

Init ==
    /\ RegistryInit
    /\ status \in [Domains -> InitStatus]
    /\ since = [d \in Domains |-> Null]
    /\ verifiedAt = [d \in Domains |-> status[d] \in {"verified", "active"}]
    /\ cert = [d \in Domains |-> status[d] = "active"]
    /\ pc = [p \in Procs |-> "idle"]
    /\ kind = [o \in Ops |-> "none"]
    /\ local = [p \in Procs |-> Blank]
    /\ lag = [o \in Ops |-> 0]
    /\ timer = [p \in Procs |-> 0]
    /\ acme = [o \in Ops |-> "none"]
    /\ todo = {} /\ current = Null
    /\ crashes = 0 /\ faults = 0

-----------------------------------------------------------------------------
(* The request: issueCertificateInternal and beginCertOperation *)

Arrive(o, k) ==
    /\ Goto(o, "idle", "load")
    /\ kind' = [kind EXCEPT ![o] = k]
    /\ UNCHANGED <<registryVars, rowVars, local, lag, timer, acme, schedVars, envVars>>

\* The row the handler passes on by value: its status is not read again before
\* beginCertOperation decides on it.
LoadDomain(o) ==
    /\ Goto(o, "load", IF kind[o] = "issue" THEN "exists" ELSE "cname")
    /\ Remember(o, "ready", kind[o] = "issue" /\ status[DomainOf[o]] = "verified")
    /\ Quiet

\* 409 when a certificate exists and forceRenew is false.
CheckExisting(o) ==
    /\ Goto(o, "exists", IF cert[DomainOf[o]] THEN "done" ELSE "cname")
    /\ UNCHANGED local
    /\ Quiet

\* VerifyChallengeCNAME succeeds; a renewal goes straight to the lock.
CnameHolds(o) ==
    /\ Goto(o, "cname", IF kind[o] = "issue" THEN "recheck" ELSE "lockCert")
    /\ UNCHANGED local
    /\ Quiet

\* 404, 400 and the scan's `return`s: nothing has been changed yet.
Refuse(o) ==
    /\ \E from \in {"load", "cname"} : Goto(o, from, "done")
    /\ Forget(o)
    /\ Quiet

\* The second loadCertificate, and the status read by LoadDomain.
RecheckExisting(o) ==
    /\ Goto(o, "recheck",
            IF cert[DomainOf[o]] \/ local[o].ready THEN "lockRead" ELSE "mark")
    /\ Forget(o)
    /\ Quiet

\* UPDATE domains SET status = 'verified', cname_verified_at = now WHERE id = d.
MarkVerified(d) ==
    /\ status' = [status EXCEPT ![d] = "verified"]
    /\ verifiedAt' = [verifiedAt EXCEPT ![d] = TRUE]
    /\ UNCHANGED <<since, cert>>

markDomainCnameVerified(o) ==
    /\ Goto(o, "mark", "lockRead")
    /\ MarkVerified(DomainOf[o])
    /\ UNCHANGED <<registryVars, kind, local, lag, timer, acme, schedVars, envVars>>

\* POST /cname/verify whose live check succeeded.
VerifyCname(d) ==
    /\ MarkVerified(d)
    /\ UNCHANGED <<registryVars, pc, kind, local, lag, timer, acme, schedVars, envVars>>

-----------------------------------------------------------------------------
(* lockDomainForCertJob *)

\* requireExistingCert
LockNeedsCert(o) ==
    /\ Goto(o, "lockCert", IF cert[DomainOf[o]] THEN "lockRead" ELSE "done")
    /\ UNCHANGED local
    /\ Quiet

\* The current row, then time.Now(): staleBefore is fixed from here on.
LockRead(o) ==
    /\ Goto(o, "lockRead", "lockInflight")
    /\ Remember(o, "stale", Stale(DomainOf[o]))
    /\ lag' = [lag EXCEPT ![o] = 0]
    /\ UNCHANGED <<registryVars, rowVars, kind, timer, acme, schedVars, envVars>>

\* The row is rolled back whatever made the lock fail.
BugLockInflight(o) ==
    /\ Goto(o, "lockInflight",
            IF ~certJobInflight(DomainOf[o]) THEN "lockCas"
            ELSE IF local[o].stale THEN "lockCancel" ELSE "rbRead")
    /\ Forget(o)
    /\ Quiet

\* A registered job is cancelled for a stale lock and respected otherwise.
LockInflight(o) ==
    /\ Goto(o, "lockInflight",
            IF ~certJobInflight(DomainOf[o]) THEN "lockCas"
            ELSE IF local[o].stale THEN "lockCancel" ELSE "done")
    /\ Forget(o)
    /\ Quiet

LockCancel(o) ==
    /\ Goto(o, "lockCancel", "lockWait")
    /\ CancelCertJob(DomainOf[o])
    /\ timer' = [timer EXCEPT ![o] = 0]
    /\ UNCHANGED <<rowVars, kind, local, lag, acme, schedVars, envVars>>

\* Here the result of waitDomainWorker does count.
LockWait(o) ==
    /\ \/ WorkerIdle(DomainOf[o]) /\ Goto(o, "lockWait", "lockCas")
       \/ timer[o] = GeneratingTimeout /\ Goto(o, "lockWait", "done")
    /\ timer' = [timer EXCEPT ![o] = 0]
    /\ UNCHANGED <<registryVars, rowVars, kind, local, lag, acme, schedVars, envVars>>

\* An unconditional UPDATE.
BugLockFree(d, l) == status[d] \in Statuses

\* The conditional UPDATE; generating_since becomes the `now` of LockRead.
LockFree(d, l) == status[d] # "generating" \/ StaleSince(d, l)

LockCas(o) == LET d == DomainOf[o] IN
    /\ Goto(o, "lockCas", IF LockFree(d, lag[o]) THEN "lockUser" ELSE "done")
    /\ IF LockFree(d, lag[o])
       THEN /\ status' = [status EXCEPT ![d] = "generating"]
            /\ since' = [since EXCEPT ![d] = lag[o]]
       ELSE UNCHANGED <<status, since>>
    /\ lag' = [lag EXCEPT ![o] = 0]
    /\ UNCHANGED <<verifiedAt, cert>>
    /\ UNCHANGED <<registryVars, kind, local, timer, acme, schedVars, envVars>>

LockUser(o) ==
    /\ Goto(o, "lockUser", "slot")
    /\ UNCHANGED local
    /\ Quiet

\* setDomainError, setDomainAutoRenewFailure and the end of a rollback.
SetStatus(d, st) ==
    /\ status' = [status EXCEPT ![d] = st]
    /\ since' = [since EXCEPT ![d] = Null]
    /\ UNCHANGED <<verifiedAt, cert>>

LockUserMissing(o) ==
    /\ Goto(o, "lockUserErr", "done")
    /\ SetStatus(DomainOf[o], "error")
    /\ UNCHANGED <<registryVars, kind, local, lag, timer, acme, schedVars, envVars>>

-----------------------------------------------------------------------------
(* tryAcquireCertJobSlot, and StartCertJob up to the new goroutine *)

NoRows == UNCHANGED <<rowVars, kind, local, lag, timer, acme, schedVars, envVars>>

TakeSlot(o) ==
    /\ Goto(o, "slot", "begin")
    /\ TryAcquireCertJobSlot(o)
    /\ NoRows

\* 429 and "concurrency limit reached": the lock is rolled back.
NoSlot(o) ==
    /\ certJobSlots = MaxJobs
    /\ Goto(o, "slot", "rbRead")
    /\ UNCHANGED local
    /\ Quiet

StartCertJob(o) ==
    /\ pc[o] = "begin"
    /\ \/ (BeginCancel(o) \/ WaitReturns(o) \/ Register(o)) /\ UNCHANGED pc
       \/ Spawn(o) /\ Goto(o, "begin", "jobStart")
    /\ NoRows

HandlerStep(o) ==
    \/ LoadDomain(o) \/ CheckExisting(o) \/ CnameHolds(o) \/ Refuse(o)
    \/ RecheckExisting(o) \/ markDomainCnameVerified(o)
    \/ LockNeedsCert(o) \/ LockRead(o) \/ LockInflight(o) \/ LockCancel(o)
    \/ LockWait(o) \/ LockCas(o) \/ LockUser(o) \/ LockUserMissing(o)
    \/ TakeSlot(o) \/ NoSlot(o) \/ StartCertJob(o)

-----------------------------------------------------------------------------
(* rollbackGeneratingDomain(d, message, true), by a handler without a slot, *)
(* by a cancelled job or by the cleanup: two reads, then an update by id.   *)

AfterRollback(p) ==
    IF p = Scheduler THEN "clean" ELSE IF phase[p] = "idle" THEN "done" ELSE "rolledBack"

RollbackRead(p) == LET d == DomainFor(p) IN
    /\ Goto(p, "rbRead", IF status[d] = "generating" THEN "rbCert" ELSE AfterRollback(p))
    /\ Remember(p, "verified", status[d] = "generating" /\ verifiedAt[d])
    /\ Quiet

RollbackCert(p) ==
    /\ Goto(p, "rbCert", "rbWrite")
    /\ Remember(p, "cert", cert[DomainFor(p)])
    /\ Quiet

\* A verified domain goes back to active.
BugRolledBackStatus(p) ==
    IF local[p].cert \/ local[p].verified THEN "active" ELSE "error"

RolledBackStatus(p) ==
    IF local[p].cert THEN "active" ELSE IF local[p].verified THEN "verified" ELSE "error"

RollbackWrite(p) ==
    /\ Goto(p, "rbWrite", AfterRollback(p))
    /\ SetStatus(DomainFor(p), RolledBackStatus(p))
    /\ Forget(p)
    /\ UNCHANGED <<registryVars, kind, lag, timer, acme, schedVars, envVars>>

rollbackGeneratingDomain(p) == RollbackRead(p) \/ RollbackCert(p) \/ RollbackWrite(p)

-----------------------------------------------------------------------------
(* runCertJob *)

JobBegins(o) ==
    /\ pc[o] = "jobStart"
    /\ BeginDomainWorker(o)
    /\ UNCHANGED pc
    /\ NoRows

\* ctx.Err() # nil before any work.
JobStart(o) ==
    /\ phase[o] = "running"
    /\ Goto(o, "jobStart", IF CtxDone(o) THEN "cancelActive" ELSE "jobCname")
    /\ UNCHANGED local
    /\ Quiet

\* VerifyChallengeCNAME, which may fail, or whose panic is recovered.
JobCname(o) ==
    /\ \E to \in {"jobCert", "failCheck"} : Goto(o, "jobCname", to)
    /\ UNCHANGED local
    /\ Quiet

\* A renewal needs the certificate row, an issue takes the renew path if there
\* is one; a stored certificate may be unusable.
JobCert(o) ==
    /\ \/ /\ cert[DomainOf[o]] \/ kind[o] = "issue"
          /\ Goto(o, "jobCert", "jobAcme")
       \/ /\ cert[DomainOf[o]] \/ kind[o] # "issue"
          /\ Goto(o, "jobCert", "failCheck")
    /\ UNCHANGED local
    /\ Quiet

\* requireACMEActive, then the account and the registration, which may fail (or
\* time out, see AcmeReturn), then `go func()` of runACMEWithContext.
JobAcme(o) ==
    /\ \/ /\ ~isCertJobActive(o)
          /\ Goto(o, "jobAcme", "cancelActive")
          /\ UNCHANGED acme
       \/ /\ isCertJobActive(o)
          /\ \E to \in {"jobErr", "cancelActive"} : Goto(o, "jobAcme", to)
          /\ UNCHANGED acme
       \/ /\ isCertJobActive(o)
          /\ Goto(o, "jobAcme", "jobWait")
          /\ acme' = [acme EXCEPT ![o] = "launched"]
    /\ UNCHANGED <<registryVars, rowVars, kind, local, lag, timer, schedVars, envVars>>

\* The job waits for Obtain and Renew to return.
BugJobAbandons(o) ==
    /\ CtxDone(o)
    /\ acme[o] \notin {"launched", "running"}
    /\ Goto(o, "jobWait", "cancelActive")
    /\ UNCHANGED local
    /\ Quiet

\* The select of runACMEWithContext: the context is done and the goroutine is
\* left to itself, or its result is taken and checked once more.
JobAbandons(o) ==
    /\ CtxDone(o)
    /\ Goto(o, "jobWait", "cancelActive")
    /\ UNCHANGED local
    /\ Quiet

AcmeResults == {"certs", "error", "timeout", "inactive"}

AfterResult(o) ==
    IF ~isCertJobActive(o) \/ acme[o] = "inactive" THEN "cancelActive"
    ELSE CASE acme[o] = "certs"   -> "jobCtx"
           [] acme[o] = "error"   -> "jobErr"
           [] acme[o] = "timeout" -> "cancelActive"

JobTakesResult(o) ==
    /\ acme[o] \in AcmeResults
    /\ Goto(o, "jobWait", AfterResult(o))
    /\ acme' = [acme EXCEPT ![o] = "none"]
    /\ UNCHANGED <<registryVars, rowVars, kind, local, lag, timer, schedVars, envVars>>

\* An error that is not a cancellation by itself, unless ctx is done by now.
JobErr(o) ==
    /\ Goto(o, "jobErr", IF CtxDone(o) THEN "cancelActive" ELSE "failCheck")
    /\ UNCHANGED local
    /\ Quiet

JobCtx(o) ==
    /\ Goto(o, "jobCtx", IF CtxDone(o) THEN "cancelActive" ELSE "jobActive")
    /\ UNCHANGED local
    /\ Quiet

\* The context was checked before: that is taken to be enough.
BugJobActive(o) ==
    /\ Goto(o, "jobActive", "save")
    /\ UNCHANGED local
    /\ Quiet

\* The last check before saveCertificateRecord.
JobActive(o) ==
    /\ Goto(o, "jobActive", IF isCertJobActive(o) THEN "save" ELSE "return")
    /\ UNCHANGED local
    /\ Quiet

\* saveCertificateRecord: one transaction.
JobSave(o) == LET d == DomainOf[o] IN
    /\ Goto(o, "save", "return")
    /\ cert' = [cert EXCEPT ![d] = TRUE]
    /\ status' = [status EXCEPT ![d] = "active"]
    /\ since' = [since EXCEPT ![d] = Null]
    /\ UNCHANGED verifiedAt
    /\ UNCHANGED <<registryVars, kind, local, lag, timer, acme, schedVars, envVars>>

\* failCertJobIfActive, then failCertJob.
FailCheck(o) ==
    /\ Goto(o, "failCheck",
            IF ~isCertJobActive(o) THEN "return"
            ELSE IF kind[o] = "auto" THEN "failCert" ELSE "failSet")
    /\ UNCHANGED local
    /\ Quiet

FailCert(o) ==
    /\ Goto(o, "failCert", "failSet")
    /\ Remember(o, "cert", cert[DomainOf[o]])
    /\ Quiet

FailSet(o) ==
    /\ Goto(o, "failSet", "return")
    /\ SetStatus(DomainOf[o], IF local[o].cert THEN "active" ELSE "error")
    /\ Forget(o)
    /\ UNCHANGED <<registryVars, kind, lag, timer, acme, schedVars, envVars>>

\* rollbackCancelledCertJob: two critical sections before the rollback.
CancelActive(o) ==
    /\ Goto(o, "cancelActive", IF isCertJobActive(o) THEN "rolledBack" ELSE "cancelInflight")
    /\ UNCHANGED local
    /\ Quiet

CancelInflight(o) ==
    /\ Goto(o, "cancelInflight",
            IF certJobInflight(DomainOf[o]) THEN "rolledBack" ELSE "rbRead")
    /\ UNCHANGED local
    /\ Quiet

\* runCertJob has returned: StartCertJob's deferred calls.
JobReturns(o) ==
    /\ pc[o] \in {"return", "rolledBack"}
    /\ \/ (ReleaseCertJobSlot(o) \/ EndJob(o) \/ JobDone(o)) /\ UNCHANGED pc
       \/ WorkerDone(o) /\ pc' = [pc EXCEPT ![o] = "done"]
    /\ NoRows

JobStep(o) ==
    \/ JobBegins(o) \/ JobStart(o) \/ JobCname(o) \/ JobCert(o) \/ JobAcme(o)
    \/ JobAbandons(o) \/ JobTakesResult(o) \/ JobErr(o) \/ JobCtx(o)
    \/ JobActive(o) \/ JobSave(o) \/ FailCheck(o) \/ FailCert(o) \/ FailSet(o)
    \/ CancelActive(o) \/ CancelInflight(o) \/ JobReturns(o)

-----------------------------------------------------------------------------
(* The goroutine that runs Lego's Obtain or Renew.  It sends its result to  *)
(* the job, or drops it when the job's context is done.                     *)

AcmeGoto(o, from, to) ==
    /\ acme[o] = from
    /\ acme' = [acme EXCEPT ![o] = to]
    /\ UNCHANGED <<registryVars, rowVars, pc, kind, local, lag, timer, schedVars, envVars>>

Delivered(o, result) == IF pc[o] = "jobWait" THEN result ELSE "none"

AcmeStart(o) ==
    AcmeGoto(o, "launched",
             IF isCertJobActive(o) THEN "running" ELSE Delivered(o, "inactive"))

\* Lego returns: certificates, an error, or an error that wraps
\* context.DeadlineExceeded because one HTTP request timed out.
AcmeReturn(o) ==
    \E result \in {"certs", "error", "timeout"} :
        AcmeGoto(o, "running", Delivered(o, result))

-----------------------------------------------------------------------------
(* The scheduler goroutine: one select loop, so that a scan and a cleanup   *)
(* never overlap, while both overlap with everything else.                  *)

SchedGoto(from, to) == Goto(Scheduler, from, to)

NoSchedEffect == UNCHANGED <<rowVars, kind, local, lag, acme, envVars>>

\* runRenewalScan: the certificates that expire soon, whichever they are.
ScanQuery ==
    /\ SchedGoto("idle", "scan")
    /\ "auto" \in Kinds
    /\ todo' \in SUBSET {d \in Domains : cert[d]} \ {{}}
    /\ UNCHANGED <<registryVars, timer, current>> /\ NoSchedEffect

\* A `continue`, or a `return` of tryAutoRenewDomain for a column that is not
\* modelled (auto_renew, the backoff).
ScanSkip ==
    /\ pc[Scheduler] = "scan"
    /\ \E d \in todo : todo' = todo \ {d}
    /\ UNCHANGED <<registryVars, pc, timer, current>> /\ NoSchedEffect

\* tryAutoRenewDomain for the row just read; it continues as operation o.
ScanStart(o) ==
    /\ pc[Scheduler] = "scan"
    /\ pc[o] = "idle"
    /\ DomainOf[o] \in todo
    /\ status[DomainOf[o]] \notin {"generating", "pending"}
    /\ pc' = [pc EXCEPT ![o] = "cname", ![Scheduler] = "scanOp"]
    /\ kind' = [kind EXCEPT ![o] = "auto"]
    /\ todo' = todo \ {DomainOf[o]}
    /\ current' = o
    /\ UNCHANGED <<registryVars, rowVars, local, lag, timer, acme, envVars>>

\* The scan waits for a job that was never started.
BugScanResume ==
    /\ SchedGoto("scanOp", "scan")
    /\ phase[current] \in JobPhases \union WorkerPhases
    /\ current' = Null
    /\ UNCHANGED <<registryVars, timer, todo>> /\ NoSchedEffect

\* tryAutoRenewDomain returned: refused, rolled back, or its job is started.
ScanResume ==
    /\ SchedGoto("scanOp", "scan")
    /\ pc[current] = "done" \/ phase[current] \in JobPhases \union WorkerPhases
    /\ current' = Null
    /\ UNCHANGED <<registryVars, timer, todo>> /\ NoSchedEffect

RoundEnds ==
    /\ todo = {}
    /\ \E from \in {"scan", "clean"} : SchedGoto(from, "idle")
    /\ current' = Null
    /\ UNCHANGED <<registryVars, timer, todo>> /\ NoSchedEffect

\* runStuckGeneratingCleanup: the rows that are stale now.
CleanupQuery ==
    /\ SchedGoto("idle", "clean")
    /\ todo' = {d \in Domains : Stale(d)}
    /\ todo' # {}
    /\ UNCHANGED <<registryVars, timer, current>> /\ NoSchedEffect

CleanupPick(d) ==
    /\ d \in todo
    /\ SchedGoto("clean", IF certJobInflight(d) THEN "cleanCancel" ELSE "stuck")
    /\ todo' = todo \ {d}
    /\ current' = d
    /\ UNCHANGED <<registryVars, timer>> /\ NoSchedEffect

CleanupCancel ==
    /\ SchedGoto("cleanCancel", "cleanWait")
    /\ CancelCertJob(current)
    /\ timer' = [timer EXCEPT ![Scheduler] = 0]
    /\ UNCHANGED schedVars /\ NoSchedEffect

\* The result of this wait is ignored.
CleanupWait ==
    /\ SchedGoto("cleanWait", "stuck")
    /\ WorkerIdle(current) \/ timer[Scheduler] = GeneratingTimeout
    /\ timer' = [timer EXCEPT ![Scheduler] = 0]
    /\ UNCHANGED <<registryVars, schedVars>> /\ NoSchedEffect

\* rollbackStuckGenerating(domain, false)
rollbackStuckGenerating ==
    /\ SchedGoto("stuck", IF certJobInflight(current) THEN "clean" ELSE "rbRead")
    /\ UNCHANGED <<registryVars, timer, schedVars>> /\ NoSchedEffect

SchedulerStep ==
    \/ ScanQuery \/ ScanSkip \/ ScanResume \/ RoundEnds
    \/ \E o \in Ops : ScanStart(o)
    \/ \E d \in Domains : CleanupPick(d)
    \/ CleanupCancel \/ CleanupWait \/ rollbackStuckGenerating
    \/ rollbackGeneratingDomain(Scheduler)

-----------------------------------------------------------------------------
(* Time, crashes and failing statements *)

OlderUpTo(bound, a) == IF a < bound THEN a + 1 ELSE a

TimePasses ==
    /\ \A o \in Ops : pc[o] \in LockWindow => lag[o] < MaxLag
    /\ Tick
    /\ since' = [d \in Domains |-> IF since[d] = Null THEN Null ELSE OlderUpTo(MaxSince, since[d])]
    /\ lag' = [o \in Ops |-> IF pc[o] \in LockWindow THEN lag[o] + 1 ELSE lag[o]]
    /\ timer' = [p \in Procs |-> IF pc[p] \in {"lockWait", "cleanWait"}
                                 THEN OlderUpTo(GeneratingTimeout, timer[p]) ELSE timer[p]]
    /\ UNCHANGED <<status, verifiedAt, cert, pc, kind, local, acme, schedVars, envVars>>

\* The server dies and is started again: what is left is the database.
Crash ==
    /\ crashes < MaxCrashes
    /\ crashes' = crashes + 1
    /\ Restart
    /\ pc' = [p \in Procs |-> IF p = Scheduler \/ pc[p] = "idle" THEN "idle" ELSE "done"]
    /\ local' = [p \in Procs |-> Blank]
    /\ lag' = [o \in Ops |-> 0]
    /\ timer' = [p \in Procs |-> 0]
    /\ acme' = [o \in Ops |-> "none"]
    /\ todo' = {} /\ current' = Null
    /\ UNCHANGED <<rowVars, kind, faults>>

\* Where a process goes on when the statement it is at fails: the handlers
\* answer 500, the lookups of a certificate count as "none", the rollback and
\* the status updates ignore the error.
AfterFault(p) ==
    CASE pc[p] \in {"mark", "lockCert", "lockRead", "lockCas", "lockUserErr"} -> "done"
      [] pc[p] = "exists"   -> "cname"
      [] pc[p] = "recheck"  -> IF local[p].ready THEN "lockRead" ELSE "mark"
      [] pc[p] = "lockUser" -> "lockUserErr"
      [] pc[p] \in {"rbRead", "rbWrite"} -> AfterRollback(p)
      [] pc[p] = "rbCert"   -> "rbWrite"
      [] pc[p] = "jobCert"  -> IF kind[p] = "issue" THEN "jobAcme" ELSE "failCheck"
      [] pc[p] = "save"     -> "failCheck"
      [] pc[p] = "failCert" -> "failSet"
      [] pc[p] = "failSet"  -> "return"

FaultPCs ==
    {"mark", "lockCert", "lockRead", "lockCas", "lockUserErr", "exists", "recheck",
     "lockUser", "rbRead", "rbWrite", "rbCert", "jobCert", "save", "failCert", "failSet"}

StatementFails(p) ==
    /\ faults < MaxFaults
    /\ faults' = faults + 1
    /\ pc[p] \in FaultPCs
    /\ pc' = [pc EXCEPT ![p] = AfterFault(p)]
    /\ IF pc[p] \in {"exists", "rbCert"} THEN UNCHANGED local ELSE Forget(p)
    /\ UNCHANGED <<registryVars, rowVars, kind, lag, timer, acme, schedVars, crashes>>

-----------------------------------------------------------------------------
OpStep(o) == HandlerStep(o) \/ JobStep(o) \/ rollbackGeneratingDomain(o)

UserKinds == Kinds \ {"auto"}

Next ==
    \/ \E o \in Ops : \/ \E k \in UserKinds : Arrive(o, k)
                      \/ OpStep(o)
                      \/ AcmeStart(o)
                      \/ AcmeReturn(o)
    \/ SchedulerStep
    \/ CleanupQuery
    \/ \E d \in VerifyDomains : VerifyCname(d)
    \/ TimePasses
    \/ Crash
    \/ \E p \in Procs : StatementFails(p)

Spec == Init /\ [][Next]_vars

\* Goroutines are scheduled, statements and CNAME lookups (which run under a
\* context) return, time passes.  CleanupQuery gets strong fairness: when both
\* tickers of the select are ready, Go picks one at random, so that the cleanup
\* is not passed over for ever.  An Obtain or Renew need not return.
Fairness ==
    /\ \A o \in Ops : WF_vars(OpStep(o)) /\ WF_vars(AcmeStart(o))
    /\ WF_vars(SchedulerStep)
    /\ SF_vars(CleanupQuery)
    /\ WF_vars(TimePasses)

FairSpec == Spec /\ Fairness

-----------------------------------------------------------------------------
(* Properties *)

TypeOK ==
    /\ RegistryTypeOK
    /\ status \in [Domains -> Statuses]
    /\ since \in [Domains -> 0..MaxSince \union {Null}]
    /\ verifiedAt \in [Domains -> BOOLEAN]
    /\ cert \in [Domains -> BOOLEAN]
    /\ pc \in [Procs -> PCs]
    /\ kind \in [Ops -> Kinds \union {"none"}]
    /\ local \in [Procs -> [ready : BOOLEAN, stale : BOOLEAN, verified : BOOLEAN, cert : BOOLEAN]]
    /\ lag \in [Ops -> 0..MaxLag]
    /\ timer \in [Procs -> 0..GeneratingTimeout]
    /\ acme \in [Ops -> {"none", "launched", "running"} \union AcmeResults]
    /\ todo \subseteq Domains
    /\ current \in Domains \union Ops \union {Null}
    /\ crashes \in 0..MaxCrashes
    /\ faults \in 0..MaxFaults

\* The status a user sees is backed by the other columns: active by a
\* certificate, verified by cname_verified_at, generating by a generating_since.
\* The updates that set a status do so from values read in earlier statements.
RowConsistent ==
    \A d \in Domains :
        /\ status[d] = "active" => cert[d]
        /\ status[d] = "verified" => verifiedAt[d]
        /\ status[d] = "generating" => since[d] # Null

\* The rows promise what DomainRow does, although an update goes by what earlier
\* statements of its process have read.
Row == INSTANCE DomainRow WITH verified <- verifiedAt
RowSpec == Row!Spec

\* Steps from which a job writes its outcome to the database.
WritePCs == {"save", "failCert", "failSet"}

\* Begun, and accepted by no check any more, with its last check still to come.
Refused(o) == Begun(o) /\ ~isCertJobActive(o) /\ pc[o] \notin WritePCs

\* A job that is cancelled, superseded or past its deadline before its last
\* check never writes an outcome, however long its ACME call went on: "skipping
\* cert save for superseded job", "skipping cert job failure for superseded job".
NoLateWrite == [][\A o \in Ops : Refused(o) => Refused(o)']_vars

\* Between winning the conditional update and giving the lock up, by the update
\* that ends the operation or by leaving without one.
HoldsLock(o) ==
    \/ pc[o] \in {"lockUser", "lockUserErr", "slot", "begin"}
    \/ pc[o] \in RollbackPCs
    \/ pc[o] \in JobPCs \ {"return", "rolledBack"}

\* "Certificate operation already in progress for this domain": two operations
\* never hold the lock of a domain together.
LockExclusive ==
    \A o1, o2 \in Ops :
        o1 # o2 /\ DomainOf[o1] = DomainOf[o2] => ~(HoldsLock(o1) /\ HoldsLock(o2))

\* beginCertJob "waits for its worker to exit before registering the
\* replacement": a domain never has two job goroutines.
WorkersDontOverlap == \A d \in Domains : Cardinality(Workers(d)) <= 1

\* "Stale generating locks (older than generating_timeout) may be taken over after
\* cancelling the prior job": whoever held the lock is refused from then on.
TakeoverCancels ==
    [][\A o, h \in Ops :
           /\ o # h /\ DomainOf[o] = DomainOf[h]
           /\ status[DomainOf[o]] = "generating" /\ HoldsLock(h)
           /\ pc[o] = "lockCas" /\ pc'[o] = "lockUser"
           => ~isCertJobActive(h)]_vars

\* A lock that is held shows as generating, which is what makes DeleteDomain and
\* the other handlers refuse.
LockShows == \A o \in Ops : HoldsLock(o) => status[DomainOf[o]] = "generating"

LockedRows == {d \in Domains : status[d] = "generating"}

LockHolders == {o \in Ops : HoldsLock(o)}

Lock == INSTANCE RowLock WITH locked <- LockedRows, holders <- LockHolders

\* Where nothing takes as long as generating_timeout, the update WHERE status <>
\* 'generating', the handlers, jobs and rollbacks make a lock of the row: what
\* clears it, by whichever statement, is its holder.
LockSpec == Lock!Spec

\* max_concurrent_cert_jobs, "global cap on simultaneous ACME operations".
AcmeCapped == Cardinality({o \in Ops : acme[o] = "running"}) <= MaxJobs

\* rollbackCancelledCertJob "resets a generating domain when its job was
\* cancelled without a replacement": it returned, the registry holds no other
\* job of the domain, so the row is not generating.
CancelledJobResets ==
    \A o \in Ops : LET d == DomainOf[o] IN
        pc[o] = "rolledBack" /\ phase[o] = "running" /\ certJobs[d] = o
            => status[d] # "generating"

\* "reset stuck generating domains after this": the cleanup resets a lock only
\* when it is older than generating_timeout.
CleanupResetsStale ==
    [][pc[Scheduler] = "rbWrite" /\ pc'[Scheduler] = "clean"
        /\ status[current] = "generating" /\ faults' = faults
        => StaleSince(current, 0)]_vars

\* A domain does not stay generating: whoever set it, whatever became of them,
\* the job, the rollback or the cleanup ends it.
GeneratingEnds == \A d \in Domains : status[d] = "generating" ~> status[d] # "generating"

\* Every request is answered and every job ends, its slot given back, although
\* Obtain and Renew may never return.
OperationEnds == \A o \in Ops : pc[o] # "idle" ~> pc[o] = "done"

\* The scheduler comes back to its select: no scan or cleanup blocks it for ever.
SchedulerReturns == pc[Scheduler] # "idle" ~> pc[Scheduler] = "idle"
=============================================================================
