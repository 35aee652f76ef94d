\* Two operations of one domain, issues and renewals by the scan, and the shutdown;
\* nothing takes as long as generating_timeout, one of main's statements may fail.
CONSTANTS
    d1 = d1
    o1 = o1
    o2 = o2
    NoJob = NoJob
    Null = Null
    Scheduler = Scheduler
    Domains <- OneDomain
    Ops <- TwoOps
    DomainOf <- SameDomain
    MaxJobs = 1
    GeneratingTimeout = 1
    ClockRuns = FALSE
    Kinds <- IssuesAndScans
    VerifyDomains <- Nobody
    InitStatus <- Verified
    MaxLag = 1
    MaxCrashes = 0
    MaxFaults = 1
SPECIFICATION FairShutdownSpec
INVARIANTS
    MainTypeOK
    LeftGenerating
    CleanStop
PROPERTIES
    RowSpec
    CancelEndsJobs
CHECK_DEADLOCK FALSE
