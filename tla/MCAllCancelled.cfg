\* AllJobsCancelled, which a scan that goes on after the cancellation violates.
CONSTANTS
    d1 = d1
    o1 = o1
    o2 = o2
    NoJob = NoJob
    Null = Null
    Scheduler = Scheduler
    Domains <- OneDomain
    Ops <- TwoOps
    DomainOf <- SameDomain
    MaxJobs = 1
    GeneratingTimeout = 1
    ClockRuns = FALSE
    Kinds <- IssuesAndScans
    VerifyDomains <- Nobody
    InitStatus <- Verified
    MaxLag = 1
    MaxCrashes = 0
    MaxFaults = 0
SPECIFICATION ShutdownSpec
INVARIANT AllJobsCancelled
CHECK_DEADLOCK FALSE
