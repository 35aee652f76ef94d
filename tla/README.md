# A TLA+ model of certhub-server

certhub-server issues and renews TLS certificates for its users' domains over
ACME, with DNS-01 challenges delegated by CNAME to a zone it controls. It is one
Go process over one SQL database. What makes it hard is that one row,
`domains`, is the lock, the progress report and the user-visible state of work
done by several kinds of goroutine: HTTP handlers, background certificate jobs,
the ACME calls those jobs start and may abandon, and a scheduler that renews and
cleans up. This directory models that core, checks it with TLC and proves the
part of it that holds for every size with TLAPS.

## Inventory

| Component | Source | State | Operations | Interacts with |
|---|---|---|---|---|
| Job registry | `controllers/cert_job_registry.go`, `cert_job_semaphore.go` | semaphore channel, `certJobs.jobs` (mutex), per-domain `WaitGroup`, job contexts, `certJobWG` | acquire / release a slot, begin (cancel, wait, register) / end a job, cancel one, cancel all, wait for a worker | called by handlers, jobs, scheduler, shutdown |
| Certificate operation | `controllers/certificate_api.go`, `certificate.go`, `cname.go` | columns of `domains` and `certificates` | issue, renew, `POST /cname/verify`, the job `runCertJob` with its failure and cancellation paths | registry, database, ACME, DNS lookups |
| Renewal scheduler | `controllers/renewal_scheduler.go` | two tickers; rows it has read | scan, automatic renewal, stuck-generating cleanup, lock, rollback | registry, database |
| Backoff | `controllers/renewal_scheduler.go`, `config/config.go` | two columns of `domains` | count a failure, compute the delay, reset | scheduler, failing jobs, `PATCH /domains/:id` |
| ACME wrapper | `services/lego.go`, `acme_scope.go`, `acme_http.go` | one goroutine and one channel per call | start, return, be abandoned | job context, registry (`isCertJobActive`), the CA |
| ACME account | `services/lego.go`, `models/acme_account.go` | the account row | load or create, register, discard after a CA change | several jobs of one user |
| Delegation DNS | `services/delegation_dns.go` | the record id per target (mutex), TXT records at the provider | present, clean up | overlapping jobs of one domain |
| Domain ownership | `controllers/domain.go` | rows with owner and soft delete | add, claim, restore, create, update, delete | certificate operations |
| Rate limiters | `middleware/ratelimit.go`, `cert_issue_ratelimit.go` | a token bucket per key (mutex) | allow, evict | every request |
| Shutdown | `main.go` | - | drain HTTP, cancel jobs, wait, roll all back | everything above |
| Rest | `config`, `utils`, `routes`, `middleware/auth.go`, `controllers/user.go`, `deploy*.go`, `dto.go`, `services/crypto.go` | rows of their own | single statements, formatting | - |

What is hard, and what would make each component correct:

* Registry: goroutines enter and leave in any order, and deferred calls run in
  reverse order. The semaphore must count exactly the operations that hold a
  slot, an entry must vanish only by its own job, a refused job must stay
  refused, and beginning a job must not wait for ever.
* Certificate operation: every decision is read in one statement (or critical
  section) and acted on in a later one. The row must stay consistent; a lock
  must exclude, and show; a superseded job must not write; an operation must end
  and must not leave its domain generating.
* Scheduler: its waits and stale snapshots race with everything else; it must
  always come back to its select loop, and must hand back what crashed work left.
* ACME wrapper: the call cannot be cancelled. The job must not wait for it, and
  its late result must be dropped.
* Domain ownership: requests of several users read a row and write it by id
  later, and a deleted row comes back. A certificate must not reach a user it
  was not issued for, and a claim must not take what is in use.
* Delegation DNS: superseded jobs go on calling Lego's provider. They must not
  remove the record a newer job is validated with, nor leave one beside it but where
  a call was cut off, and no error path may keep the mutex of the target.
* Rate limiter: an evicted bucket is made again full. Eviction must not be a way
  to more tokens.
* Account: jobs of one user start together, fail and are retried, and the server
  comes back with another `acme.ca_url`. The user must have one key, every order
  must be made with an account the current CA has for it, and jobs must not go on
  clearing each other's registration.
* Backoff: a failure is counted after the row was given back, by two statements.
  A row must not get a backoff that is too long, negative or repeated for ever,
  and the scan must not renew again and again within it.
* Shutdown: jobs, handlers and the scheduler outlive the waits of `main`. What the
  rollback finds must be given back consistently, and a shutdown nobody delays must
  leave nothing behind.

PROJECT.json lists the hazards at their lines, and the properties that cover
them.

## Modules

| Module | Models | Size of instances |
|---|---|---|
| `SlotPool` | abstract: clients that hold at most `Cap` slots | refined by the registry |
| `DomainRow` | abstract: a domain row whose status is backed by its certificate and its proof whenever it is written | refined by `CertLifecycle`, `Shutdown`, `DomainOwnership` |
| `RowLock` | abstract: a lock kept in a row, cleared only by who holds it | refined by `CertLifecycle` where nothing times out |
| `AccountBook` | abstract: the key, the accounts and the registration of a user | refined by `AcmeAccount` |
| `CertJobRegistry` | the registry, the semaphore, the trackers and `StartCertJob` | `MCCertJobRegistry` |
| `CertJobRegistryProofs` | its inductive invariant and theorems | every size |
| `CertLifecycle` | handlers, jobs, ACME goroutines, scheduler, crashes and failing statements, over the registry | `MCCertLifecycle` |
| `CertLifecycleProofs` | its inductive invariants, the three refinements, no late write, the exclusion of the lock | every size |
| `DomainOwnership` | add, claim, restore, delete, update of one name by several users, against what certificate operations do to the row | `MCDomainOwnership` |
| `DomainOwnershipProofs` | its inductive invariants, the refinement and theorems | every size |
| `DelegationDns` | Present and CleanUp of one target's overlapping jobs, the DNS service | `MCDelegationDns` |
| `DelegationDnsProofs` | its inductive invariant and theorems | every size |
| `AcmeAccount` | the account of one user, its jobs and the CA's accounts | `MCAcmeAccount` |
| `AcmeAccountProofs` | its inductive invariant, the refinement and theorems | every size |
| `RenewBackoff` | the scan, the counter and the delay of one domain, with the user's resets | `MCRenewBackoff` |
| `RenewBackoffProofs` | its inductive invariant and theorems | every size |
| `Shutdown` | `main` after the signal, over `CertLifecycle` | `MCShutdown` |
| `ShutdownProofs` | its inductive invariant, on that of `CertLifecycleProofs`, and the refinements | every size |
| `TokenBucket` | abstract: a bucket per key, never evicted | refined by the limiter |
| `RateLimiter` | the per-user limiter of the certificate endpoints | `MCRateLimiter` |
| `RateLimiterProofs` | the refinement, for the settings where it holds, and the bound for all | every size |

Operators named `Bug...` are not part of the specifications. Each is the
definition after it with a plausible mistake; the properties are checked to tell
the two apart.

### CertJobRegistry

An operation is a request or an automatic renewal and begins at most one job, so
its identity doubles as the token of `beginCertJob`. `phase` follows it through
`StartCertJob`: slot taken, waiting for the previous worker, registered, goroutine
created, running, and the four deferred calls in the order Go runs them.
`certJobs` is the map under `certJobs.mu`, `cancelled` the jobs whose cancel
function was called, `certJobSlots` the length of the channel, `domainWorker` and
`certJobWG` the counters of the wait groups. A context ends by cancellation or by
age: `age` counts clock ticks and saturates at `GeneratingTimeout`, beyond which
nothing depends on it. `WaitReturns` returns when the worker is idle or the wait
is as old as the timeout, and `beginCertJob` ignores which.

`Restart` is the death of the process: nothing here is persisted.

### CertLifecycle

It EXTENDS the registry: each action is one of the registry's actions, or leaves
its variables alone, and adds the effect on the database and on control. `pc` is
the place of each operation and of the scheduler, `local` what it has read and
still needs, `acme` the goroutine of `runACMEWithContext`. One database
statement, one critical section or one external call is one step, so every
read-then-write of the code can be interrupted here as there. In particular:

* `LoadDomain` reads the row that `beginCertOperation` gets by value;
  `markDomainCnameVerified` later updates by id only.
* `LockRead` takes the row and `time.Now()`; `LockCas` compares and stores with
  that time even after `LockWait`. `lag` is the distance.
* `RollbackRead`, `RollbackCert`, `RollbackWrite` are the three statements of
  `rollbackGeneratingDomain`, by a handler without a slot, by a cancelled job and
  by the cleanup.
* `JobAcme` covers the account and registration (which may fail) and the start of
  the detached goroutine; `JobAbandons` and `JobTakesResult` are its select.
  `AcmeReturn` brings certificates, an error, or an error that wraps
  `context.DeadlineExceeded` because one HTTP request timed out.
* The scheduler is one goroutine: `ScanQuery`, `ScanStart` (the automatic renewal
  continues as an operation; the scheduler waits at `scanOp` until it is refused
  or its job is started), `CleanupQuery`, `CleanupPick`, `CleanupCancel`,
  `CleanupWait`, `rollbackStuckGenerating`. `runStuckGeneratingCleanup` and
  `runRenewalScan` at startup are the first rounds.
* `Crash` empties everything but the rows. `StatementFails` makes any modelled
  statement fail; `AfterFault` says where the code goes on. The failure of
  `Encrypt` has the same effect as that of the save and is covered by it.

Abstracted: columns no control flow here depends on (messages, backoff counters),
the contents of certificates, the HTTP answers (an operation that only answers
ends). A failing step that changes nothing (404, 400) is `Refuse`. A domain is not
deleted here: that is DomainOwnership's subject.

### DomainOwnership

One name, since names do not interact. `row` holds the rows by id (the database
gives no id twice), `state` says whether `deleted_at` is set. Queries and updates
pass over deleted rows, as gorm's default scope does, except where the code says
`Unscoped` (`Named`, `PurgeRow`, the restore). A request is a record with its
place, its user, the id it found and, for the steps in `UseSeen`, the row as it was
read: `isUnclaimedDomain`, the target, the recheck and the conditional update go
by the old row, everything else by id. Requests come again without end, so nothing
has to be counted.

`AddDomain` is `FindMissing` / `FindExisting` and then one of three sequences:
claim (`IsUnclaimed`, `ClaimTarget`, `ClaimVerify`, `ClaimCert`, `ClaimCas`),
restore, or purge and insert with `SetTarget`. Each statement is a step. A
certificate operation is reduced to what it reads and writes of these rows: load,
recheck, mark, lock, and a job that ends in a certificate, a failure or a
rollback; `job` has the user it was locked for, `reset` the status a rollback or a
failure has decided on and not written. That a row has one job at a time is
assumed here (it is the subject of CertLifecycle, which shows where it fails), and
so is that the reads of a rollback are one step. `VerifyCname` is its write: what
it has read, the target, never goes back. `aged` stands for
`unclaimed_error_release` since `updated_at`, which every update resets.

### DelegationDns

One target; other targets share nothing. `txt` is what the DNS service has, and a
record is named after the job that presents it. A call is sent in one step
(`DeleteSend`, `CreateSend`, `Release`) and ends in another. In between the request is
under way (`creates`, `deletes`), and `Serve` may let it take effect at any time. The
answer says that it has. Without the answer (`MayFail`: the job was superseded or
cancelled, which ends the call at once, or the call failed) the mutex is given back and
the request stays under way: it may take effect while a newer job works or waits, or
never. `active` is the job for which `requireACMEActive`
holds. `Present` reads it before the lock, after it and after the deletion, as the
code does; `CleanUp` only reaches the service when the context is live.
`Crash` forgets the record ids and the mutex and leaves the records and the requests.

`cutOff` is history: the records of creations that ended without an answer, those
whose deletion, by a replacement, did or was not sent, and those a restart made the
process forget. Every replacement forgets the id of the record before, so nobody can
remove them any more.

### AcmeAccount

`row` is the user's row of `acme_accounts`; a stored registration is the pair of the
CA and the key it was made with, which is what the account's URL stands for.
`accounts` is what the CAs have: `Register` adds to it, once for a key however often
it is asked, and `RegisterFails` may have done so too. A job is at the statement `pc`
says, with the row it has read (`seen`, while it is about to clear it), its
`acmeUser` (`user`) and whether its Lego client was made with the account's URL
(`kid`). `Invalidate` updates by id and by the row read before; `LoadAcmeAccount`,
`FoundRegistration` and `FoundNone` are the two functions that load. That a row a
job has loaded is not found stale again is a fact the module relies on and the
proofs establish (`NotStaleAgain`). A job that ends may begin again, and `Restart`
may change `caURL`.

`TranslateError` says whether gorm returns `ErrDuplicatedKey`; `config/database.go`
opens the database without that option, and the run takes it as it is.

### RenewBackoff

One domain, since rows share nothing here. The clock is relative: `until` is the time
left to `auto_renew_backoff_until`, `Tick` makes it shorter. `failures` saturates at
`MaxFailures`. The loop of `AutoRenewBackoffDuration` is run step by step on
durations that wrap beyond `MaxDuration`, as `int64` does (`Duration`): that it yields the
power of two that `Exponential` defines, and never overflows, is a property and not an
assumption. `ScanRead` reads the columns,
`ScanLocks` goes on by that read after the CNAME lookup, which is how a scan can
overtake a backoff. `JobFails` is the update that gives the row back; `BackoffRead` to
`BackoffWrite` count the failure afterwards. `UpdateDomain` is
`PATCH /domains/:id`, `Expires` the approach of the certificate's end.

`streak`, `early` and `overlap` are history: failures since the last success or reset,
renewals started within the current backoff, and whether the last reset met a failure that
was being counted.

### Shutdown

It EXTENDS CertLifecycle and adds the statements of `main` (`main`), the end of the
scheduler's goroutine (`returned`) and what the rollback has read (`rows`, `row`,
`saw`). The actions of operations, of ACME goroutines and of the scheduler are
CertLifecycle's, conjoined with `Alongside`; they go on after the signal, since
neither the HTTP server's nor `main`'s waiting stops a goroutine. New requests come
only before it. `ShutdownTimesOut` and `WaitTimesOut` give up the two waits at any
point, so the module needs no clock. `SchedulerStops` is the select of
`StartRenewalScheduler` with its context done: it may still choose a ticker, but
returns only between rounds. `quiet` is history: at the cancellation the scheduler
had returned and the handlers had too, and the jobs ended within the budget. `late`
has the domains locked since the query of the rollback.

The module leaves out what CertLifecycle covers without it: takeovers after
`generating_timeout`, crashes, failing statements of others, `POST /cname/verify`.

### RateLimiter and TokenBucket

`credit` is the token count of `x/time/rate` in minutes, so that a token costs
`Cost` minutes and arithmetic stays whole; the assumption asks that 60 be divisible by the
setting. `entries` has the limiter and the age of `lastSeen` per key, `ticker` the
time to the next cleanup. `Minute` lets a cleanup that is due go first. The limiters
by address are the same `keyedRateLimiter` with other constants.

## Runs

| Run | Question | Expected |
|---|---|---|
| `registry` | do semaphore, registry and trackers agree in every order of 3 operations on 2 domains, with cancellations, time-outs and restarts; does beginCertJob return; does the semaphore implement `SlotPool` | pass |
| `rows` | do the rows stay consistent under two operations of any kind, `POST /cname/verify` and the scheduler; does a superseded job ever write | pass |
| `faults` | one operation of any kind, a crash and a failing statement: is the domain always given back, does every operation and every round of the scheduler end | pass |
| `exclusive` | with a crash, does the lock exclude, and implement `RowLock`, where nothing takes `generating_timeout` and no verification intervenes; has a domain one worker | pass |
| `double_issue` | does the lock exclude two issue requests | violation |
| `ownership_claims` | two users add, claim, verify, issue for and update a name, with crashes: does every row implement `DomainRow`, and has each proof a target | pass |
| `ownership_restore` | the same with deletion, restore, purge and a failing creation, while jobs run on: does a certificate stay with its user, and has each proof a target | pass |
| `dns` | three jobs that supersede each other, with calls that end without an answer, requests that take effect later, and restarts: does the record of an active job stay, which records can be beside it, does an undisturbed job remove its own, do Present and CleanUp return | pass |
| `rate_limiter` | at twenty an hour, is a key served as by a bucket that is never evicted, and admitted the burst and the rate at most | pass |
| `renew_backoff` | does the loop yield the capped power of two that the failures ask for, are the failures counted consecutive, does at most one renewal start within a backoff, is a domain that is due tried again | pass |
| `acme_account` | three jobs, failing calls, a restart under another CA: do the jobs implement `AccountBook`, is every order made with an account of the CA in use, does the registration settle | pass |
| `shutdown` | the signal at any point of two operations and a scan: what is left generating, do rows implement `DomainRow` beside the rollback, what does an undelayed shutdown leave, is cancelling enough | pass |

The violation is a disagreement between the code and what its answers and comments
say; PROJECT.json quotes both sides. The `exclusive` run shows where the line is:
with renewals only (no markDomainCnameVerified) and no time-out, the lock excludes.

Further configurations reach states a reader of the code may not expect. They are
kept to reproduce them (`tlc -config <cfg> <module>`), and are not among the runs. One that
names several properties stops at the first: comment it out to see the next.
`MCDefaultCap.cfg` (`MCRateLimiter`) is the one that passes: it checks `AdmittedBound` at the default of
ten requests an hour, where eviction does give tokens away.

| Configuration | Module | Property | What it reaches |
|---|---|---|---|
| `MCOverlap.cfg` | `MCCertLifecycle` | `WorkersDontOverlap` | a worker that has not run `beginDomainWorker` yet is not waited for, and a wait that times out is ignored |
| `MCOverlap.cfg` | `MCCertLifecycle` | `TakeoverCancels` | a stale lock is taken over "after cancelling the prior job" (`renewal_scheduler.go:283`), but a handler that was slow after its lock registers its job between the check of the registry and the conditional update, and is not cancelled |
| `MCHiddenLock.cfg` | `MCCertLifecycle` | `LockShows` | `markDomainCnameVerified` over another request's generating |
| `MCCancelledJob.cfg` | `MCCertLifecycle` | `CancelledJobResets` | a cancelled job finds its own entry in flight and leaves its row generating, for the cleanup |
| `MCCleanup.cfg` | `MCCertLifecycle` | `CleanupResetsStale` | the cleanup resets a lock taken since it read the row |
| `MCAcmeCap.cfg` | `MCCertLifecycle` | `AcmeCapped` | `max_concurrent_cert_jobs`, a "global cap on simultaneous ACME operations" (`config/config.go:55`): a cancelled job gives its slot back while the call it abandoned still runs |
| `MCClaimRaces.cfg` | `MCDomainOwnership` | `ClaimTakesNoCertificate` | the certificate is asked for before the conditional update, and saved in between: the claimer gets it |
| `MCStaleRecord.cfg` | `MCDelegationDns` | `NoStaleRecord` | a record whose creation was aborted is tracked nowhere and stays beside the next job's, although the mutex is there so that "superseded ACME jobs cannot leave stale challenge records alongside a newer job" (`delegation_dns.go:84`) |
| `MCStaleRecord.cfg` | `MCDelegationDns` | `NoneAppears` | the aborted request takes effect while the newer job waits |
| `MCBackoffRaces.cfg` | `MCRenewBackoff` | `BackoffKept` | a scan between the failure's update of the row and that of its backoff renews within it |
| `MCBackoffRaces.cfg` | `MCRenewBackoff` | `ResetKept` | a failure being counted while the user switches auto_renew on brings the old count back |
| `MCCreatorsShare.cfg` | `MCAcmeAccount` | `CreatorsShare` | without `TranslateError` (`config/database.go:26`) the branch at `services/lego.go:167` is never taken: of two first jobs one fails |
| `MCRegistrationKept.cfg` | `MCAcmeAccount` | `RegistrationKept` | a job that read the row of the CA before clears by id what another has registered since |
| `MCClientKnowsAccount.cfg` | `MCAcmeAccount` | `ClientKnowsAccount` | a job whose client was made before it found the registration of another orders without the account's URL |
| `MCNothingLeft.cfg` | `MCShutdown` | `NothingLeftGenerating` | `RollbackAllGeneratingDomains` "resets every domain stuck in generating" (`renewal_scheduler.go:242`): a scan or handler that outlived its wait locks a row after the query |
| `MCAllCancelled.cfg` | `MCShutdown` | `AllJobsCancelled` | such a scan begins a job after `CancelAllCertJobs`, which `main` then waits for |
| `MCLegoDrained.cfg` | `MCShutdown` | `LegoDrained` | `ACMEWorkDrainBudget` is how long to "wait for in-flight Lego work" (`acme_http.go:46`), but `WaitCertJobs` counts jobs, which abandon it: the process ends while it runs |
| `MCClaimRaces.cfg` | `MCDomainOwnership` | `ReleaseDelayKept` | a claim begun while the domain was pending wins after it was verified and failed |
| `MCDeleteRaces.cfg` | `MCDomainOwnership` | `DeleteNotWhileGenerating` | a row is locked between DeleteDomain's test and its deletion |
| `MCDeleteRaces.cfg` | `MCDomainOwnership` | `LiveRowKept` | AddDomain removes by id a row its owner has just restored |
| `MCDeleteRaces.cfg` | `MCDomainOwnership` | `TargetSet` | a row deleted before its creation set the target is restored without one |
| `MCHourlyCap.cfg` | `MCRateLimiter` | `HourlyCap` | with ten an hour, the burst and an early eviction admit an eleventh request |

### Bounds

* Domains, operations: one or two domains, one to three operations. All conflicts
  are between operations of one domain, or for slots; two operations of one domain
  and one of another reach both.
* `GeneratingTimeout` is one tick: "younger than the timeout" and "at least as old"
  are the only distinctions the code makes. A larger value only adds states
  between them.
* `MaxLag` bounds the ticks between `time.Now()` and the conditional update of the
  lock (a wait of at most the timeout).
* `MaxCrashes`, `MaxFaults`: one each in `faults`, a crash in `exclusive`, none in
  `rows`. A crash resets all but the rows, so a second one meets the same states.
* `ClockRuns = FALSE`: nothing ever takes as long as `generating_timeout`.
* DomainOwnership: two users, two requests at a time, two rows. A conflict is
  between the owner and one other user, or between two requests of one; the second
  row is the one that replaces a purged row, and ids beyond the bound would only
  repeat it. `Events` selects what occurs: the two passing runs divide the kinds of
  request between them. `RowSpec` is stated for, and checked in, runs without deletions: a
  rollback that ends after its row was deleted and restored writes a status it decided
  on before.
* DelegationDns: three jobs, so that a job can meet one it supersedes and one that
  supersedes it, each still in a call or with a request under way; the calls of two of
  them fail by themselves, and `CleanedUp` is about the third. A job presents one record,
  so the sets of requests are bounded by the jobs.
* AcmeAccount: three jobs, so that one can clear what a second has registered while a
  third loads; one of them may fail in every call; as many keys as jobs (keys are
  random, so a fourth is never needed at a time); two CAs and one restart, which is every change
  from a CA to another.
* RenewBackoff: two operations, since a third finds the same lock taken; a base of one tick
  and a maximum of three, so that the doubling passes through the maximum without
  meeting it; durations up to seven, so that one more doubling overflows; five failures,
  more than the loop can use.
* Shutdown: two operations of one domain, issues and automatic renewals, one slot and
  one failing statement of `main`; a renewal by hand takes the steps of an issue.
* RateLimiter: one key (keys share only the cleanup), the hour that is observed;
  twenty requests an hour, whose bucket of three fills up in nine minutes, and, in
  `MCDefaultCap.cfg`, the default of ten, whose bucket takes eighteen and is evicted after ten. The most that
  is admitted there is fifteen, of the eighteen the bound allows.

Deadlock is not checked for CertLifecycle and DelegationDns: operations and jobs are
finite in number and the system stops when the last has ended. That none stops early
is `OperationEnds` and `PresentEnds`. The same holds for Shutdown, where the process
ends (`CancelEndsJobs`). RateLimiter stops at the end of the hour.

### Fairness

Weak fairness of each operation, of the start of its ACME goroutine, of the
scheduler and of the clock: goroutines are scheduled, statements and CNAME lookups
return (they run under a context). `AcmeReturn` is not fair, since the propagation
loop of Lego takes no context and the CA may not answer. `CleanupQuery` is
strongly fair: the select of `StartRenewalScheduler` picks at random among ready
tickers, so that the cleanup is not passed over for ever. In the registry only the
clock and the returning wait are fair: workers may hang. In Shutdown, `main`, each operation and the
scheduler are weakly fair, and the expiry of the two waits is not: `CancelEndsJobs`
does not rest on them. In RenewBackoff the scheduler, the operations and the clock are
weakly fair, and the scan's lock is strongly fair: the lookup before it may fail, but
not for ever. In AcmeAccount each job's steps and its being started again are weakly
fair (domains are renewed for ever); restarts are finite, and the jobs outside
`Faulty` meet no failure. In DelegationDns each
job's steps are weakly fair (goroutines are scheduled, and the calls to the DNS
service have a context with a deadline), and taking the mutex is strongly fair,
since Go's mutex hands itself over to a goroutine that has waited for a millisecond.
`Serve` is not fair: a request nobody waits for may be lost.

## Proofs

`CertJobRegistryProofs` proves, for every finite set of operations, every set of
domains and every limit, an inductive invariant: types, `SlotsBalanced`,
`WorkersCounted`, the same for `certJobWG`, and `RegistryOwned`. They need each
other: that a counter stays a natural number follows from its being the size of a
set of operations that contains the one about to leave. From it follow the type
invariant, the safety invariants, `EntryKept`, `InactiveForever` and that the
semaphore implements `SlotPool`.

`CertLifecycleProofs` proves, for every number of operations, crashes and faults
and every length of the timeout:

* `RowsAreConsistent`. `RowConsistent` is not inductive: a rollback writes
  "active" from a count it made earlier. The invariant adds that what a process
  remembers is `Backed` by the database when it writes (certificates and
  verifications are never taken back, the lemma about `Grows`), and that the
  scheduler is at work on a domain whenever it is in a cleanup.
* `LifecycleImplementsDomainRow`: every step, a crash and a failing statement included, is
  one of `DomainRow` on one row or leaves the rows alone. The abstract `Reset` asks
  that the status fits the row *at that moment*, which is what the invariant's `Backed`
  gives for a decision taken two statements before; the abstract row also says what no
  state invariant can, that certificates and proofs are never taken back and nothing
  returns to pending.
* `LifecycleImplementsRegistry`: every step is a step of the registry or leaves it
  alone, so `RegistryHoldsInLifecycle` carries the registry's invariants over.
* `NoJobWritesLate`: a refused job with its last check still to come stays so,
  because `isCertJobActive` cannot become true again and is the only way to a write.
* `LifecycleTypeCorrect`.
* `LocksExclude`, `HeldLocksShow` and `WorkersExclude`, for the systems of the
  `exclusive` run (`Undisturbed`: no issues, no clock, no `POST /cname/verify`),
  crashes and failing statements included. The invariant (`LockInv`): no lock
  gets old, so that nothing is cleaned up; a held lock shows as generating, so that
  the conditional update of another operation fails; and in a domain nobody is past
  beginCertJob's wait while another operation is a worker. `LockStep` is what each
  step of an operation may do to the lock.
* `RowsImplementLocks`, for the same systems: the status generating, together with the
  operations between the conditional update and the end of their job, implements
  `RowLock`. That is more than exclusion: nobody clears a lock he does not hold, the
  cleanup of the scheduler and the rollbacks of refused operations included, and a
  crash or failing statement leaves the row locked and never free with a holder.

`DelegationDnsProofs` proves, for every number of jobs, failing calls and restarts
at any time, and requests that take effect whenever they do, type correctness,
`RecordIsServed`, `NoRecordBeside` and `UndisturbedCleansUp`. The invariant adds four
facts. `MutexHeld`: a job between `Lock` and `Unlock` holds the mutex, so that at most
one is in a call. `Alone`: while an active job waits to be validated, no other job is in
a call that could delete its record or create another; this is where the tests of
`requireACMEActive` after each lock and each call are needed. `NotYet`: no request is
about a record before its creation was sent, and none deletes it before its id is
known, so that a deletion still under way is never of a record that is still to come.
`Target`: what `recordID` is where the mutex protects it.

For `UndisturbedCleansUp` the second is extended from the wait to the job's own CleanUp
(`Exclusive`), so that `recordID` is still its record when it gets the mutex again
(`Known`). `NoRecordBeside` also needs to know who remembers a record (`Tracked`): each
one that is there or on its way is `recordID`, is being created, or is in `cutOff`.

`RateLimiterProofs` proves, for every setting that `LimiterAssumption` admits and any
number of keys, types and the
bound on the age of an entry (`EvictedInTime`: at most the idle time and one cleanup
interval), and, for the settings with `Full <= limiterIdleTTL`, that the limiter
implements `TokenBucket`. The invariant for that is `EarnedIdle`: an entry has at
least as much credit as it has been idle, up to a full bucket, so that what is
evicted is full. Where a bucket does not fill up in that time, as with the default of ten an hour
(eighteen minutes, evicted after ten), eviction gives tokens away (`MCHourlyCap.cfg` has an
example), and `AdmittedIsBounded` says for every setting how many: at most
`Gift` = `Full - limiterIdleTTL` minutes per fifteen minutes. It rests on `PaidFor`:
what is left and what was admitted do not exceed a full bucket, the minutes passed and
the gifts so far. An evicted entry was idle for more than `limiterIdleTTL` and has earned
that much (`StaleHolds`), so an eviction adds one gift; and between two
evictions of one key there are three cleanups, hence the count of the gifts by the clock.

`AcmeAccountProofs` proves types, `OneAccount`, `OrdersWithAccount`, `StoredFits` and
`AccountsImplementBook` for every number of jobs, keys, CAs and restarts. The
refinement maps each statement of a job to choosing the key, registering, storing or
forgetting, or to nothing; it needs that a job works with the stored key when it
registers, and saves a registration the CA has, whatever was cleared in between. None of the
invariants is inductive. The invariant adds
what a job knows at each place (`NotStaleAgain`: the row of a job that has loaded it
stays current until the next restart; a job's key is the stored one; a registration
on its way into the row is in the CA's accounts), which is where "user_id is unique" and
"the error ends the job" are needed.

`RenewBackoffProofs` proves, for every number of operations, every base and maximum
and every width of durations the assumption admits, types, `BackoffIsExponential`,
`CountsConsecutive` and `OneEarlyRenewal`. For the first, the invariant (`Powers`) says that the
value in the loop *is* the power of two for the rounds done (it does not wrap, since only one
below the maximum is doubled), and that every power is at least that of fewer
failures, so that stopping early changes nothing (`LoopResult`). What the recursive
function `Exponential` computes is shown by induction over its argument: the
theorems of the library that take a predicate are out of the provers' reach, so
`SetInduction` states induction for sets, from the well-foundedness of `<` on the
naturals, and a predicate is the set of numbers for which it holds. The last two rest on there
being one operation between the registration and the end of its job
(`StartJob`'s wait), and on the scan being at one row.

`ShutdownProofs` extends `CertLifecycleProofs`: each step of another goroutine is one
of CertLifecycle's, so its invariant carries over, and `main`'s own
are added. It proves types, `RowConsistent` beside the rollback, for which what `main`
has read must be `Backed` as for any rollback, and `LeftGenerating`: every row that is
generating is one the rollback has still to do, or is in `late`. `ShutdownStopsCleanly`
needs to know where everybody is: that an operation's place fits its phase
(`InPlace`), that whoever may still begin a job is a request or the operation
the scan is at (`StartersKnown`), and that neither is left when `quiet` is set, so that
the wait for `certJobWG` is a wait for all jobs there will be.
`ShutdownImplementsDomainRow` and `ShutdownImplementsRegistry` extend the two refinements
of CertLifecycle to `main`: the rollback of the shutdown is a `Reset`, and
`CancelAllCertJobs` a step of the registry, whose invariant therefore holds to the exit
(`RegistryHoldsInShutdown`). `NoJobWritesLateInShutdown` carries `NoLateWrite` over.
`CancellationIsFinal` is the action property behind the order of `main`: when the
cancellation found nobody left to begin a job, no operation reaches a write of an
outcome any more that was not at one then; its invariant (`CancelledForGood`)
is that every entry of the registry stays a cancelled job's.

`DomainOwnershipProofs` proves, for every number of users, requests and rows, types
(`OwnershipTypeCorrect`: ids are given out once, so that what lies beyond `created` is
untouched and every request is at an id within it), and three invariants under the
restriction of the run that checks them:

* `CertOfOwner`, without claims. The invariant adds that jobs, and what a request at
  `lockCas` has read, are for the owner of the row of that id while there is one, deleted
  or not: only a claim changes an owner, and a removed id never comes back.
* `StatusBacked` and `ProvenHasTarget`, without deletions and failing statements. A reset
  writes a status read earlier, so the invariant says of `reset` what it says of the
  row, and of a request that may prove the name that its row has the target
  (`TargetsSeen`: what it saw stays, by the lemmas about `Grows`).
  `OwnershipImplementsDomainRow` is the stronger form of the first under the same
  restriction: every row of the name implements `DomainRow`, the same abstract row
  that certificate operations and the shutdown implement, so that claims, updates
  and verifications of several users, too, write only what is backed.

`ProofsHaveTargetsUnclaimed` has `ProvenHasTarget` where deletions and failing creations are
there and claims are not. A row keeps its target when it is deleted, and restored
(`TargetsKept`), and its id is not used again; so a request that comes to prove the name goes by a row that still
has the target it was read with, or is no more (`ProofsBacked`). With claims and
failing creations together it does not hold: a claimer that saw the row before its creation
failed wins the row that another has restored without a target.

The assumptions are `OwnershipAssumption`, `AccountAssumption`, `BackoffAssumption`, `RegistryAssumption`, `LifecycleAssumption`, `DnsAssumption` and
`LimiterAssumption`; TLC evaluates them in every run. Only model-checked: liveness
(`BeginReturns`, `GeneratingEnds`, `OperationEnds`, `SchedulerReturns`, `PresentEnds`,
`Retried`, `RegistrationSettles`, `CancelEndsJobs`). Every invariant and every
action property of the passing runs is proved, every refinement included.

## Plan

The order was: registry, lifecycle and their proofs; ownership; DNS records; rate
limiter; backoff, account and shutdown with their proofs. What is left, most
important first:

1. Composition of DomainOwnership with CertLifecycle: deletion between the read and
   the lock, with several jobs of a row.
2. The wait group with its waiter as two steps.
3. An abstract specification of the record of a target, for DelegationDns to implement.

## Not modelled

* Configuration: parsing and defaults of a file read once, before any goroutine starts.
  The values control flow depends on are constants, with assumptions that say what the
  code does not check.
* Users, sessions and routing: handlers of a single statement on rows of their own;
  signed cookies are checked by a pure function.
* Deploy targets and jobs: rows that are created, listed and removed by single
  statements behind a gate that is closed by default (`deploy_gate.go`); nothing in the
  repository executes them.
* Encryption, DTOs, domain names, logging: pure functions. Failures of `Encrypt` and
  `Decrypt` are error paths of the jobs that call them.
* Lego, the CA, Cloudflare and DNS are external and answer nondeterministically.
