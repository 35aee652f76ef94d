\* Two renewals of one domain, with time passing.  Neither holds.
\* TLC stops at the first; take it out to see the next.
CONSTANTS
    d1 = d1
    d2 = d2
    o1 = o1
    o2 = o2
    o3 = o3
    NoJob = NoJob
    Null = Null
    Scheduler = Scheduler
    Domains <- OneDomain
    Ops <- TwoOps
    DomainOf <- SameDomain
    MaxJobs = 2
    GeneratingTimeout = 1
    ClockRuns = TRUE
    Kinds <- Renewals
    VerifyDomains <- Nobody
    InitStatus <- Issued
    MaxLag = 1
    MaxCrashes = 0
    MaxFaults = 0
SPECIFICATION Spec
SYMMETRY OpSymmetry
INVARIANTS
    WorkersDontOverlap
PROPERTIES
    TakeoverCancels
CHECK_DEADLOCK FALSE
