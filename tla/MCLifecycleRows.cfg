\* Every kind of operation, cname/verify at any time, time passing, one domain:
\* the rows stay consistent.  The runs stop when every operation has ended.
CONSTANTS
    d1 = d1
    d2 = d2
    o1 = o1
    o2 = o2
    o3 = o3
    NoJob = NoJob
    Null = Null
    Scheduler = Scheduler
    Domains <- OneDomain
    Ops <- TwoOps
    DomainOf <- SameDomain
    MaxJobs = 1
    GeneratingTimeout = 1
    ClockRuns = TRUE
    Kinds <- AllKinds
    VerifyDomains <- OneDomain
    InitStatus <- AnyRow
    MaxLag = 1
    MaxCrashes = 0
    MaxFaults = 0
SPECIFICATION Spec
SYMMETRY OpSymmetry
INVARIANTS
    RowConsistent
PROPERTIES
    NoLateWrite
CHECK_DEADLOCK FALSE
