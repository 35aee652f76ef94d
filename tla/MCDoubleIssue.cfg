\* Two requests to issue a certificate for one domain.
CONSTANTS
    d1 = d1
    d2 = d2
    o1 = o1
    o2 = o2
    o3 = o3
    NoJob = NoJob
    Null = Null
    Scheduler = Scheduler
    Domains <- OneDomain
    Ops <- TwoOps
    DomainOf <- SameDomain
    MaxJobs = 2
    GeneratingTimeout = 1
    ClockRuns = FALSE
    Kinds <- Issues
    VerifyDomains <- Nobody
    InitStatus <- Unissued
    MaxLag = 1
    MaxCrashes = 0
    MaxFaults = 0
SPECIFICATION Spec
SYMMETRY OpSymmetry
INVARIANTS
    LockExclusive
CHECK_DEADLOCK FALSE
