\* Two domains, one slot, a job that runs into its deadline.
CONSTANTS
    d1 = d1
    d2 = d2
    o1 = o1
    o2 = o2
    o3 = o3
    NoJob = NoJob
    Null = Null
    Scheduler = Scheduler
    Domains <- TwoDomains
    Ops <- TwoOps
    DomainOf <- Spread
    MaxJobs = 1
    GeneratingTimeout = 1
    ClockRuns = TRUE
    Kinds <- Renews
    VerifyDomains <- Nobody
    InitStatus <- Issued
    MaxLag = 0
    MaxCrashes = 0
    MaxFaults = 0
SPECIFICATION Spec
INVARIANTS
    AcmeCapped
CHECK_DEADLOCK FALSE
