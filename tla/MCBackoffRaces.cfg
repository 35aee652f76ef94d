\* None of these holds.  TLC stops at the first; take it out to see the next.
SPECIFICATION Spec
CONSTANTS
    j1 = j1  j2 = j2  j3 = j3
    Jobs = {j1, j2}
    RenewBackoffBase = 1
    RenewBackoffMax = 3
    MaxDuration = 7
    MaxFailures = 5
    MaxCrashes = 1
    Events = {"update"}
INVARIANTS BackoffKept ResetKept
