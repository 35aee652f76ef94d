\* Two renewals of one domain against the cleanup.
CONSTANTS
    d1 = d1
    d2 = d2
    o1 = o1
    o2 = o2
    o3 = o3
    NoJob = NoJob
    Null = Null
    Scheduler = Scheduler
    Domains <- OneDomain
    Ops <- TwoOps
    DomainOf <- SameDomain
    MaxJobs = 1
    GeneratingTimeout = 1
    ClockRuns = TRUE
    Kinds <- Renews
    VerifyDomains <- Nobody
    InitStatus <- Issued
    MaxLag = 1
    MaxCrashes = 0
    MaxFaults = 0
SPECIFICATION FairSpec
PROPERTIES
    CleanupResetsStale
CHECK_DEADLOCK FALSE
