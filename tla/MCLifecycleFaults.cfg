\* One operation of any kind with the scheduler, a crash and a failing database
\* statement: the domain is always given back.
CONSTANTS
    d1 = d1
    d2 = d2
    o1 = o1
    o2 = o2
    o3 = o3
    NoJob = NoJob
    Null = Null
    Scheduler = Scheduler
    Domains <- OneDomain
    Ops <- OneOp
    DomainOf <- SameDomain
    MaxJobs = 1
    GeneratingTimeout = 1
    ClockRuns = TRUE
    Kinds <- AllKinds
    VerifyDomains <- Nobody
    InitStatus <- AnyRow
    MaxLag = 1
    MaxCrashes = 1
    MaxFaults = 1
SPECIFICATION FairSpec
PROPERTIES
    GeneratingEnds
    OperationEnds
    SchedulerReturns
CHECK_DEADLOCK FALSE
