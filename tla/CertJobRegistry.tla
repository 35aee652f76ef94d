--------------------------- MODULE CertJobRegistry ---------------------------
(***************************************************************************)
(* The in-memory bookkeeping of background certificate jobs:               *)
(*   - the global semaphore (controllers/cert_job_semaphore.go),           *)
(*   - the registry of jobs by domain, their contexts and the per-domain   *)
(*     worker trackers (controllers/cert_job_registry.go),                 *)
(*   - StartCertJob and its deferred calls (controllers/certificate.go).   *)
(*                                                                         *)
(* An operation o is one request or one automatic renewal.  It calls       *)
(* beginCertJob at most once, so the token of its job is o itself.  Every  *)
(* critical section of certJobs.mu is one action.                          *)
(*                                                                         *)
(* The environment (which operation may begin when, what runCertJob does)  *)
(* is unconstrained here; CertLifecycle supplies it.                       *)
(*                                                                         *)
(* Definitions whose name begins with Bug are no part of the specification: *)
(* each is the definition below it with a plausible mistake, and the       *)
(* properties must tell the two apart.                                     *)
(***************************************************************************)
EXTENDS Naturals, FiniteSets

CONSTANTS
    Domains,            \* domain rows
    Ops,                \* certificate operations
    DomainOf,           \* the domain an operation works on
    MaxJobs,            \* Renewal.MaxConcurrentCertJobs()
    GeneratingTimeout,  \* Renewal.GeneratingTimeoutDuration(), in clock ticks
    ClockRuns,          \* FALSE: nothing ever takes as long as a timeout
    NoJob               \* no entry in the registry

ASSUME RegistryAssumption ==
    /\ IsFiniteSet(Ops)
    /\ DomainOf \in [Ops -> Domains]
    /\ MaxJobs \in Nat \ {0}
    /\ GeneratingTimeout \in Nat \ {0}
    /\ ClockRuns \in BOOLEAN
    /\ NoJob \notin Ops

VARIABLES
    phase,          \* where an operation is in StartCertJob
    certJobs,       \* certJobs.jobs: domain -> its registered job
    cancelled,      \* the jobs whose cancel function was called
    age,            \* ticks since an operation began its wait, or its context
    certJobSlots,   \* len(certJobSlots)
    domainWorker,   \* the counter of each domain's tracker WaitGroup
    certJobWG       \* the counter of certJobWG

registryVars ==
    <<phase, certJobs, cancelled, age, certJobSlots, domainWorker, certJobWG>>

-----------------------------------------------------------------------------
(* The phases of an operation, in the order StartCertJob goes through them. *)

Phases ==
    {"idle",        \* holds no slot yet
     "slotted",     \* tryAcquireCertJobSlot returned true
     "waiting",     \* in beginCertJob's waitDomainWorker
     "waited",      \* that wait returned
     "registered",  \* beginCertJob returned
     "spawned",     \* certJobWG.Add(1) done, goroutine created
     "running",     \* beginDomainWorker done, in runCertJob
     "unslotted",   \* deferred releaseCertJobSlot done
     "released",    \* deferred release (endJob) done
     "jobDone",     \* deferred certJobWG.Done done
     "exited"}      \* deferred workerDone done, or lost in a crash

SlotPhases   == {"slotted", "waiting", "waited", "registered", "spawned", "running"}
EntryPhases  == {"registered", "spawned", "running", "unslotted"}
WorkerPhases == {"running", "unslotted", "released", "jobDone"}
JobPhases    == {"spawned", "running", "unslotted", "released"}

SlotHolders == {o \in Ops : phase[o] \in SlotPhases}
Workers(d)  == {o \in Ops : DomainOf[o] = d /\ phase[o] \in WorkerPhases}

\* An operation that has been through beginCertJob.
Begun(o) == phase[o] \notin {"idle", "slotted", "waiting", "waited"}

\* ctx.Err() # nil for the context beginCertJob gave o.
CtxDone(o) == o \in cancelled \/ age[o] = GeneratingTimeout

BugActiveAnyToken(o) == certJobs[DomainOf[o]] # NoJob /\ ~CtxDone(o)

isCertJobActive(o)  == certJobs[DomainOf[o]] = o /\ ~CtxDone(o)
certJobInflight(d)  == certJobs[d] # NoJob

\* The condition on which wg.Wait() returns, and waitDomainWorker with true.
WorkerIdle(d) == domainWorker[d] = 0

Advance(o, from, to) ==
    /\ phase[o] = from
    /\ phase' = [phase EXCEPT ![o] = to]

-----------------------------------------------------------------------------
RegistryInit ==
    /\ phase = [o \in Ops |-> "idle"]
    /\ certJobs = [d \in Domains |-> NoJob]
    /\ cancelled = {}
    /\ age = [o \in Ops |-> 0]
    /\ certJobSlots = 0
    /\ domainWorker = [d \in Domains |-> 0]
    /\ certJobWG = 0

\* The semaphore does not block.
BugAcquireUnbounded(o) ==
    /\ Advance(o, "idle", "slotted")
    /\ certJobSlots' = certJobSlots + 1
    /\ UNCHANGED <<certJobs, cancelled, age, domainWorker, certJobWG>>

\* The send of tryAcquireCertJobSlot; its default branch changes nothing.
TryAcquireCertJobSlot(o) ==
    /\ certJobSlots < MaxJobs
    /\ Advance(o, "idle", "slotted")
    /\ certJobSlots' = certJobSlots + 1
    /\ UNCHANGED <<certJobs, cancelled, age, domainWorker, certJobWG>>

\* existing.cancel() for the entry of d, if there is one.
CancelEntries(ds) ==
    cancelled' = cancelled \union ({certJobs[d] : d \in ds} \ {NoJob})

\* First critical section of beginCertJob; the wait starts after it.
BeginCancel(o) ==
    /\ Advance(o, "slotted", "waiting")
    /\ CancelEntries({DomainOf[o]})
    /\ age' = [age EXCEPT ![o] = 0]
    /\ UNCHANGED <<certJobs, certJobSlots, domainWorker, certJobWG>>

\* The wait has no timeout.
BugWaitForWorker(o) ==
    /\ Advance(o, "waiting", "waited")
    /\ WorkerIdle(DomainOf[o])
    /\ UNCHANGED <<certJobs, cancelled, age, certJobSlots, domainWorker, certJobWG>>

\* beginCertJob does not wait.
BugNoWait(o) ==
    /\ Advance(o, "waiting", "waited")
    /\ UNCHANGED <<certJobs, cancelled, age, certJobSlots, domainWorker, certJobWG>>

\* waitDomainWorker returns; beginCertJob ignores whether it timed out.
WaitReturns(o) ==
    /\ Advance(o, "waiting", "waited")
    /\ WorkerIdle(DomainOf[o]) \/ age[o] = GeneratingTimeout
    /\ UNCHANGED <<certJobs, cancelled, age, certJobSlots, domainWorker, certJobWG>>

\* Second critical section of beginCertJob: a new context and token, stored
\* over whatever entry the domain has by now.
Register(o) ==
    /\ Advance(o, "waited", "registered")
    /\ certJobs' = [certJobs EXCEPT ![DomainOf[o]] = o]
    /\ age' = [age EXCEPT ![o] = 0]
    /\ UNCHANGED <<cancelled, certJobSlots, domainWorker, certJobWG>>

\* certJobWG.Add(1); go func() ...
Spawn(o) ==
    /\ Advance(o, "registered", "spawned")
    /\ certJobWG' = certJobWG + 1
    /\ UNCHANGED <<certJobs, cancelled, age, certJobSlots, domainWorker>>

\* The first statement of the goroutine.
BeginDomainWorker(o) ==
    /\ Advance(o, "spawned", "running")
    /\ domainWorker' = [domainWorker EXCEPT ![DomainOf[o]] = @ + 1]
    /\ UNCHANGED <<certJobs, cancelled, age, certJobSlots, certJobWG>>

\* A cancelled job leaves without its slot.
BugKeepSlot(o) ==
    /\ Advance(o, "running", "unslotted")
    /\ certJobSlots' = IF o \in cancelled THEN certJobSlots ELSE certJobSlots - 1
    /\ UNCHANGED <<certJobs, cancelled, age, domainWorker, certJobWG>>

\* runCertJob returned: the deferred calls, last registered first.
ReleaseCertJobSlot(o) ==
    /\ Advance(o, "running", "unslotted")
    /\ certJobSlots' = IF certJobSlots > 0 THEN certJobSlots - 1 ELSE certJobSlots
    /\ UNCHANGED <<certJobs, cancelled, age, domainWorker, certJobWG>>

\* endJob does not compare the token.
BugEndAnyJob(o) ==
    /\ Advance(o, "unslotted", "released")
    /\ certJobs' = [certJobs EXCEPT ![DomainOf[o]] = NoJob]
    /\ UNCHANGED <<cancelled, age, certJobSlots, domainWorker, certJobWG>>

\* endJob leaves the entry of a cancelled job.
BugEndUncancelled(o) ==
    /\ Advance(o, "unslotted", "released")
    /\ certJobs' = IF certJobs[DomainOf[o]] = o /\ o \notin cancelled
                   THEN [certJobs EXCEPT ![DomainOf[o]] = NoJob]
                   ELSE certJobs
    /\ UNCHANGED <<cancelled, age, certJobSlots, domainWorker, certJobWG>>

EndJob(o) ==
    /\ Advance(o, "unslotted", "released")
    /\ certJobs' = IF certJobs[DomainOf[o]] = o
                   THEN [certJobs EXCEPT ![DomainOf[o]] = NoJob]
                   ELSE certJobs
    /\ UNCHANGED <<cancelled, age, certJobSlots, domainWorker, certJobWG>>

JobDone(o) ==
    /\ Advance(o, "released", "jobDone")
    /\ certJobWG' = certJobWG - 1
    /\ UNCHANGED <<certJobs, cancelled, age, certJobSlots, domainWorker>>

WorkerDone(o) ==
    /\ Advance(o, "jobDone", "exited")
    /\ domainWorker' = [domainWorker EXCEPT ![DomainOf[o]] = @ - 1]
    /\ UNCHANGED <<certJobs, cancelled, age, certJobSlots, certJobWG>>

CancelCertJob(d) ==
    /\ CancelEntries({d})
    /\ UNCHANGED <<phase, certJobs, age, certJobSlots, domainWorker, certJobWG>>

CancelAllCertJobs ==
    /\ CancelEntries(Domains)
    /\ UNCHANGED <<phase, certJobs, age, certJobSlots, domainWorker, certJobWG>>

\* Ages stop at the timeout: an older wait or context is no different.
Older(a) == IF a < GeneratingTimeout THEN a + 1 ELSE a

Tick ==
    /\ ClockRuns
    /\ age' = [o \in Ops |-> IF phase[o] = "idle" THEN age[o] ELSE Older(age[o])]
    /\ UNCHANGED <<phase, certJobs, cancelled, certJobSlots, domainWorker, certJobWG>>

\* The process dies and starts again: nothing of this state is persisted.
Restart ==
    /\ phase' = [o \in Ops |-> IF phase[o] = "idle" THEN "idle" ELSE "exited"]
    /\ certJobs' = [d \in Domains |-> NoJob]
    /\ certJobSlots' = 0
    /\ domainWorker' = [d \in Domains |-> 0]
    /\ certJobWG' = 0
    /\ UNCHANGED <<cancelled, age>>

CallerStep(o) ==
    \/ TryAcquireCertJobSlot(o) \/ BeginCancel(o) \/ WaitReturns(o)
    \/ Register(o) \/ Spawn(o)

WorkerStep(o) ==
    \/ BeginDomainWorker(o) \/ ReleaseCertJobSlot(o) \/ EndJob(o)
    \/ JobDone(o) \/ WorkerDone(o)

RegistryNext ==
    \/ \E o \in Ops : CallerStep(o) \/ WorkerStep(o)
    \/ \E d \in Domains : CancelCertJob(d)
    \/ CancelAllCertJobs
    \/ Tick
    \/ Restart

RegistrySpec == RegistryInit /\ [][RegistryNext]_registryVars

-----------------------------------------------------------------------------
(* Fairness: time passes, and a waiter whose channel or timer is ready is   *)
(* scheduled.  Nothing is assumed of the workers: they may hang for ever.   *)

FairRegistrySpec ==
    /\ RegistrySpec
    /\ WF_registryVars(Tick)
    /\ \A o \in Ops : WF_registryVars(WaitReturns(o))

-----------------------------------------------------------------------------
(* Properties *)

RegistryTypeOK ==
    /\ phase \in [Ops -> Phases]
    /\ certJobs \in [Domains -> Ops \union {NoJob}]
    /\ cancelled \subseteq Ops
    /\ age \in [Ops -> 0..GeneratingTimeout]
    /\ certJobSlots \in 0..MaxJobs
    /\ domainWorker \in [Domains -> Nat]
    /\ certJobWG \in Nat

\* The semaphore channel holds exactly one element per operation between a
\* successful tryAcquireCertJobSlot and its deferred releaseCertJobSlot, so the
\* default branch of releaseCertJobSlot is never taken and no slot leaks.
SlotsBalanced == certJobSlots = Cardinality(SlotHolders)

\* An entry of the registry belongs to a job of that domain which has been begun
\* and whose release has not run: no entry outlives its worker, so certJobInflight
\* never refuses a domain that has nothing in flight.
RegistryOwned ==
    \A d \in Domains : certJobInflight(d) =>
        /\ DomainOf[certJobs[d]] = d
        /\ phase[certJobs[d]] \in EntryPhases

\* An entry disappears only by the release of its own job (or with the process):
\* endJob of a superseded job never removes the entry of its replacement.
EntryKept ==
    [][\A d \in Domains : \A o \in Ops :
         certJobs[d] = o /\ certJobs'[d] = NoJob
            => phase'[o] \in {"released", "exited"}]_registryVars

\* The tracker of a domain counts its worker goroutines, so a wait that returns
\* true means that none of them is between its first and last statement.
WorkersCounted == \A d \in Domains : domainWorker[d] = Cardinality(Workers(d))

\* A job that isCertJobActive once refused is refused for ever: cancellation,
\* deadline and replacement cannot be undone, so the checks made before a write
\* never turn from false to true.
InactiveForever ==
    [][\A o \in Ops : Begun(o) /\ ~isCertJobActive(o) => ~isCertJobActive(o)']_registryVars

\* beginCertJob returns although the worker it waits for hangs.
BeginReturns == \A o \in Ops : phase[o] = "waiting" ~> phase[o] # "waiting"

\* The semaphore is a slot pool whose holders are the operations between acquire
\* and release.
Pool == INSTANCE SlotPool WITH Clients <- Ops, Cap <- MaxJobs, holders <- SlotHolders

PoolSpec == Pool!Spec
=============================================================================
