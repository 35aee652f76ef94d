\* None of these holds.  TLC stops at the first; take it out to see the next.
SPECIFICATION Spec
CONSTANTS
    j1 = j1  j2 = j2  j3 = j3
    Null = Null
    Jobs = {j1, j2}
    Faulty = {}
    Restarts = FALSE
INVARIANTS NoStaleRecord
PROPERTIES NoneAppears
CHECK_DEADLOCK FALSE
