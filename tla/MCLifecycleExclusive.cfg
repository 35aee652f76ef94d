\* Three renewals, two of one domain, one slot, a crash, nothing slow enough to time out:
\* the lock excludes.  The run stops when every operation has ended.
CONSTANTS
    d1 = d1
    d2 = d2
    o1 = o1
    o2 = o2
    o3 = o3
    NoJob = NoJob
    Null = Null
    Scheduler = Scheduler
    Domains <- TwoDomains
    Ops <- ThreeOps
    DomainOf <- Spread
    MaxJobs = 1
    GeneratingTimeout = 1
    ClockRuns = FALSE
    Kinds <- Renewals
    VerifyDomains <- Nobody
    InitStatus <- Issued
    MaxLag = 1
    MaxCrashes = 1
    MaxFaults = 0
SPECIFICATION Spec
INVARIANTS
    LockExclusive
    WorkersDontOverlap
PROPERTY LockSpec
CHECK_DEADLOCK FALSE
