\* Safety of the registry and the semaphore, and its refinement of the slot pool.
CONSTANTS
    d1 = d1
    d2 = d2
    o1 = o1
    o2 = o2
    o3 = o3
    NoJob = NoJob
    Domains <- MCDomains
    Ops <- MCOps
    DomainOf <- MCDomainOf
    MaxJobs = 2
    GeneratingTimeout = 1
    ClockRuns = TRUE
SPECIFICATION FairRegistrySpec
INVARIANTS
    RegistryTypeOK
    SlotsBalanced
    RegistryOwned
PROPERTIES
    EntryKept
    InactiveForever
    BeginReturns
    PoolSpec
