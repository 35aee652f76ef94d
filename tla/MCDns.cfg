SPECIFICATION FairSpec
CONSTANTS
    j1 = j1  j2 = j2  j3 = j3
    Null = Null
    Jobs = {j1, j2, j3}
    Faulty = {j1, j2}
    Restarts = TRUE
INVARIANTS TypeOK RecordServed NoneBeside CleanedUp
PROPERTIES PresentEnds
CHECK_DEADLOCK FALSE
